-------------------------- MODULE ReleaseVersions --------------------------
(***************************************************************************)
(* The three orders on agent versions.  A version is the sequence of its   *)
(* three or four numeric components.  The upload check compares versions   *)
(* in Java (AgentUpdateController.compareVersions), the database sorts     *)
(* them as integer arrays (string_to_array(version,'.')::int[]), and the   *)
(* agent compares System.Version values after dropping its own fourth      *)
(* component (AgentClient.Version is ToString(3)).                         *)
(***************************************************************************)
EXTENDS Integers, Sequences

IsVersion(v) == v \in Seq(Nat) /\ Len(v) \in {3, 4}

\* The first component in which x and y differ is smaller in x.
Precedes(x, y, n) == \E i \in 1 .. n : x[i] < y[i] /\ \A j \in 1 .. i - 1 : x[j] = y[j]

\* The four components of v, a missing one being d.
Padded(v, d) == [i \in 1 .. 4 |-> IF i <= Len(v) THEN v[i] ELSE d]

\* compareVersions(a, b) < 0: a missing component counts as 0.
JavaLess(a, b) == Precedes(Padded(a, 0), Padded(b, 0), 4)

\* Mutant: the versions are sorted on their last component alone.
LastComponentLess(a, b) == a[Len(a)] < b[Len(b)]

\* int[] order of PostgreSQL: component by component, then the shorter array first.
SqlLess(a, b) ==
    LET n == IF Len(a) < Len(b) THEN Len(a) ELSE Len(b)
    IN  \/ Precedes(a, b, n)
        \/ Len(a) < Len(b) /\ \A i \in 1 .. n : a[i] = b[i]

\* System.Version: a missing fourth component counts as -1.
AgentLess(a, b) == Precedes(Padded(a, -1), Padded(b, -1), 4)

\* Mutant: only major and minor are kept.
MajorMinor(v) == SubSeq(v, 1, 2)

\* ToString(3).
Reported(v) == SubSeq(v, 1, 3)
=============================================================================
