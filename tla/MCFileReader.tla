---------------------------- MODULE MCFileReader ----------------------------
(***************************************************************************)
(* Two entries under the root and one outside it, in a directory whose     *)
(* name begins like the root's; two files and a pipe; contents below, at   *)
(* and above the limit, and one that is no UTF-8.                          *)
(***************************************************************************)
EXTENDS FileReader

MCRoot == << "vault" >>
A == << "vault", "a" >>
B == << "vault", "b" >>
X == << "vault-x", "a" >>

Usable(segments) == [form |-> "usable", segments |-> segments]

MCRequests ==
    { Usable(<< "a" >>), Usable(<< "b", "..", ".", "a" >>), Usable(<< "..", "vault-x", "a" >>),
      [form |-> "blank", segments |-> <<>>] }

Placed(a, b, x) == A :> a @@ B :> b @@ X :> x

MCTrees ==
    { Placed(Inode(1), Nothing, Inode(2)), Placed(Link(B), Inode(1), Inode(2)), Placed(Link(X), Link(A), Inode(2)) }

MCEntries == { Nothing, Link(X), Link(B), Link(A), Inode(1), Inode(2), Inode(3) }

MCContents == { << "c" >>, << "c", "d", "e" >> }

MCDisks ==
    { 1 :> [type |-> "file", bytes |-> b] @@ 2 :> [type |-> "file", bytes |-> << "x" >>] @@ 3 :> [type |-> "pipe", bytes |-> <<>>] :
        b \in { << "c", "d" >>, << "bad" >> } }

=============================================================================
