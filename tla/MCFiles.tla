-------------------------------- MODULE MCFiles --------------------------------
(* Instances of Files for TLC: which calls processes make. *)
EXTENDS Files

Call(op, path) == [op |-> op, path |-> path, new |-> <<>>]

(* Directories only in the root: whatever ".." names is never removed. *)
FlatCalls ==
  {Call("open", <<"a">>), Call("create", <<"a">>), Call("create", <<"a", "b">>), Call("mkdir", <<"a">>),
   Call("unlink", <<"a">>), Call("unlink", <<"a", "b">>), Call("chdir", <<"a">>), Call("chdir", <<"..">>), Call("mkdir", <<>>),
   [op |-> "link", path |-> <<"a">>, new |-> <<"b">>], [op |-> "link", path |-> <<"a">>, new |-> <<"b", "b">>]}
===============================================================================
