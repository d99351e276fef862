---- MODULE SecretCustodyProofs ----
(* That a specification which refines SecretCustody never loses the value of a
   saved secret, for secrets of any value. *)
EXTENDS SecretCustody, TLAPS

\* A live copy next to a saved one is the saved one: a product's reconcile
\* restores the saved secret before the product's operator could make up another.
THEOREM CopiesAgreeTheorem == Spec => []CopiesAgree
<1>1. Init => CopiesAgree
  BY DEF Init, CopiesAgree
<1>2. CopiesAgree /\ [Next]_custody => CopiesAgree'
  <2> SUFFICES ASSUME CopiesAgree, [Next]_custody PROVE CopiesAgree'
    OBVIOUS
  <2>1. CASE Generate
    BY <2>1 DEF Generate, CopiesAgree
  <2>2. CASE Save
    BY <2>2 DEF Save, CopiesAgree
  <2>3. CASE Restore
    BY <2>3 DEF Restore, CopiesAgree
  <2>4. CASE Lose
    BY <2>4 DEF Lose, CopiesAgree
  <2>5. CASE UNCHANGED custody
    BY <2>5 DEF CopiesAgree, custody
  <2> QED
    BY <2>1, <2>2, <2>3, <2>4, <2>5 DEF Next
<1> QED
  BY <1>1, <1>2, PTL DEF Spec

\* The saved copy is never replaced once it is there, although every reconcile
\* of a product writes it again: the value written is the one that is there.
THEOREM NeverReplacedTheorem == Spec => NeverReplaced
<1>1. CopiesAgree /\ [Next]_custody => [saved # None => saved' = saved]_custody
  <2> SUFFICES ASSUME CopiesAgree, Next, saved # None PROVE saved' = saved
    BY DEF custody
  <2>1. CASE Save
    BY <2>1 DEF Save, CopiesAgree
  <2>2. CASE Generate \/ Restore \/ Lose
    BY <2>2 DEF Generate, Restore, Lose
  <2> QED
    BY <2>1, <2>2 DEF Next
<1> QED
  BY <1>1, CopiesAgreeTheorem, PTL DEF Spec, NeverReplaced
====
