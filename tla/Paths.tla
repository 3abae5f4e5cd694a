------------------------------- MODULE Paths -------------------------------
(***************************************************************************)
(* Path names: path_parse and path_depth_cnt of fs/fs.c, wash_path and     *)
(* make_clear_abs_path of shell/buildin_cmd.c.                             *)
(*                                                                         *)
(* A path is the sequence of what stands between its slashes, so that      *)
(* "/a//b" is <<"a", "", "b">> and "/" is <<"">>.  The argument of a       *)
(* command has "/" as its first element when it starts with a slash.       *)
(***************************************************************************)
EXTENDS Naturals, Sequences, SequencesExt

(* What the calls of path_parse yield one after the other.  It skips ONE   *)
(* slash (its loop compares the pointer, not the character, with '/'), so  *)
(* that an empty component is an empty name, and every caller takes an     *)
(* empty name for the end of the path.                                     *)
path_parse(path) ==
  LET Ends(n) == n = Len(path) \/ path[n + 1] = ""
  IN  SubSeq(path, 1, CHOOSE n \in 0..Len(path) : Ends(n) /\ \A k \in 0..(n - 1) : ~Ends(k))

path_depth_cnt(path) == Len(path_parse(path))

WashMutant(path) == SelectSeq(path_parse(path), LAMBDA x : x \notin {".", ".."})

(* "." is left out, ".." takes the last name away, and stays at the root.  *)
wash_step(washed, name) ==
  CASE name = ".." -> IF washed = <<>> THEN washed ELSE Front(washed)
    [] name = "."  -> washed
    [] OTHER       -> Append(washed, name)

wash_path(path) ==
  LET names == path_parse(path)
      washed[n \in 0..Len(names)] ==
        IF n = 0 THEN <<>> ELSE wash_step(washed[n - 1], names[n])
  IN  washed[Len(names)]

make_clear_abs_path(arg, getcwd) ==
  IF Head(arg) = "/" THEN wash_path(Tail(arg)) ELSE wash_path(getcwd \o arg)
=============================================================================
