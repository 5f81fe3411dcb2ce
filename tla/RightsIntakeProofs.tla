------------------------- MODULE RightsIntakeProofs -------------------------
(***************************************************************************)
(* Theorems about RightsIntake, for any calls, any pool and any number of  *)
(* requests on file.                                                       *)
(***************************************************************************)
EXTENDS RightsIntake, FiniteSetTheorems, TLAPS

\* No row is seen from outside its transaction, so none is committed.
NothingIsFiled == filed = {} /\ cases = 1 .. Filed

\* The unique index: one open transaction holds a number, and it is not on file.
NumbersHeldOnce ==
  \A i \in Calls : pc[i] \in {"inserted", "mailed"} =>
    /\ number[i] \notin cases
    /\ \A j \in Calls : pc[j] \in {"inserted", "mailed"} /\ number[j] = number[i] => j = i

IntakeInv == TypeOK /\ NothingIsFiled /\ NumbersHeldOnce

LEMMA GotoTypes ==
  ASSUME TypeOK, NEW i \in Calls, NEW to \in {"start", "counted"} \union InTransaction \union Over,
         Goto(i, to)
  PROVE  /\ pc' \in [Calls -> {"start", "counted"} \union InTransaction \union Over]
         /\ pc'[i] = to /\ \A j \in Calls \ {i} : pc'[j] = pc[j]
BY DEF TypeOK, Goto

LEMMA CountsAreNumbers ==
  ASSUME NothingIsFiled
  PROVE  NextNumber \in Nat
<1>1. Filed \in Nat
  BY IntakeAssumption
<1>2. IsFiniteSet(1 .. Filed)
  BY <1>1, FS_Interval
<1>3. Cardinality(cases) \in Nat
  BY <1>2, FS_CardinalityType DEF NothingIsFiled
<1>4. QED
  BY <1>3 DEF NextNumber

LEMMA CallKeeps ==
  ASSUME IntakeInv, NEW i \in Calls, CallStep(i)
  PROVE  IntakeInv'
<1>1. TypeOK /\ NothingIsFiled /\ NumbersHeldOnce
  BY DEF IntakeInv
<1> USE DEF InTransaction, Over
<1>2. CASE Count(i)
  <2>1. pc' \in [Calls -> {"start", "counted"} \union InTransaction \union Over]
        /\ pc'[i] = "counted" /\ \A j \in Calls \ {i} : pc'[j] = pc[j]
    BY <1>1, <1>2, GotoTypes DEF Count
  <2>2. PICK next \in Nat : next = NextNumber
    BY <1>1, CountsAreNumbers
  <2>3. /\ number' \in [Calls -> Nat] /\ \A j \in Calls \ {i} : number'[j] = number[j]
        /\ UNCHANGED <<cases, filed, mailed>>
    BY <1>1, <1>2, <2>2 DEF Count, TypeOK
  <2>4. QED
    BY <1>1, <2>1, <2>3 DEF IntakeInv, TypeOK, NothingIsFiled, NumbersHeldOnce
<1>3. CASE Begin(i)
  <2>1. pc' \in [Calls -> {"start", "counted"} \union InTransaction \union Over]
        /\ pc'[i] = "begun" /\ \A j \in Calls \ {i} : pc'[j] = pc[j]
    BY <1>1, <1>3, GotoTypes DEF Begin
  <2>2. QED
    BY <1>1, <1>3, <2>1 DEF Begin, IntakeInv, TypeOK, NothingIsFiled, NumbersHeldOnce
<1>4. CASE Insert(i)
  <2>1. PICK to \in {"conflict", "inserted"} :
          Goto(i, to) /\ (to = "inserted" => number[i] \notin cases)
    BY <1>4 DEF Insert
  <2>2. pc' \in [Calls -> {"start", "counted"} \union InTransaction \union Over]
        /\ pc'[i] = to /\ \A j \in Calls \ {i} : pc'[j] = pc[j]
    BY <1>1, <2>1, GotoTypes
  <2>3. \A j \in Calls : pc[j] \in {"inserted", "mailed"} => number[j] # number[i]
    BY <1>4 DEF Insert
  <2>4. UNCHANGED <<number, cases, filed, mailed>>
    BY <1>4 DEF Insert
  <2>5. QED
    BY <1>1, <2>1, <2>2, <2>3, <2>4 DEF IntakeInv, TypeOK, NothingIsFiled, NumbersHeldOnce
<1>5. CASE Notify(i)
  <2>1. pc' \in [Calls -> {"start", "counted"} \union InTransaction \union Over]
        /\ pc'[i] = "mailed" /\ \A j \in Calls \ {i} : pc'[j] = pc[j]
    BY <1>1, <1>5, GotoTypes DEF Notify
  <2>2. QED
    BY <1>1, <1>5, <2>1 DEF Notify, IntakeInv, TypeOK, NothingIsFiled, NumbersHeldOnce
<1>6. CASE FindOne(i)
  <2>1. pc' \in [Calls -> {"start", "counted"} \union InTransaction \union Over]
        /\ pc'[i] = "ended" /\ \A j \in Calls \ {i} : pc'[j] = pc[j]
    BY <1>1, <1>6, GotoTypes DEF FindOne
  <2>2. {j \in {i} : Visible(j)} = {}
    BY <1>1 DEF NothingIsFiled, Visible
  <2>3. UNCHANGED <<number, cases, filed, mailed>>
    BY <1>6, <2>2 DEF FindOne
  <2>4. QED
    BY <1>1, <2>1, <2>3 DEF IntakeInv, TypeOK, NothingIsFiled, NumbersHeldOnce
<1>7. CASE TimeOut(i)
  <2>1. pc' \in [Calls -> {"start", "counted"} \union InTransaction \union Over]
        /\ pc'[i] = "timedOut" /\ \A j \in Calls \ {i} : pc'[j] = pc[j]
    BY <1>1, <1>7, GotoTypes DEF TimeOut
  <2>2. QED
    BY <1>1, <1>7, <2>1 DEF TimeOut, IntakeInv, TypeOK, NothingIsFiled, NumbersHeldOnce
<1>8. QED
  BY <1>2, <1>3, <1>4, <1>5, <1>6, <1>7 DEF CallStep

LEMMA IntakeAlways == Spec => []IntakeInv
<1>1. Init => IntakeInv
  <2>1. SUFFICES ASSUME Init PROVE IntakeInv
    OBVIOUS
  <2>2. 1 .. Filed \subseteq Nat
    BY IntakeAssumption
  <2>3. QED
    BY <2>1, <2>2 DEF Init, IntakeInv, TypeOK, NothingIsFiled, NumbersHeldOnce, InTransaction, Over
<1>2. IntakeInv /\ [Next]_vars => IntakeInv'
  <2>1. SUFFICES ASSUME IntakeInv, [Next]_vars PROVE IntakeInv'
    OBVIOUS
  <2>2. CASE Next
    BY <2>1, <2>2, CallKeeps DEF Next
  <2>3. CASE UNCHANGED vars
    BY <2>1, <2>3 DEF vars, IntakeInv, TypeOK, NothingIsFiled, NumbersHeldOnce
  <2>4. QED
    BY <2>1, <2>2, <2>3
<1>3. QED
  BY <1>1, <1>2, PTL DEF Spec

\* The calls of create keep their types: a number is one more than a count of what is
\* on file.
THEOREM IntakeTypeCorrect == Spec => []TypeOK
<1>1. IntakeInv => TypeOK
  BY DEF IntakeInv
<1>2. QED
  BY <1>1, IntakeAlways, PTL

\* However many calls there are and however large the pool is, create puts no request on
\* file: its last query does not see the row its own transaction has inserted, and
\* rolls it back.
THEOREM NothingIsEverFiled == Spec => []NothingIsFiled
<1>1. IntakeInv => NothingIsFiled
  BY DEF IntakeInv
<1>2. QED
  BY <1>1, IntakeAlways, PTL

\* Calls that counted the same rows have the same number, but one of them at a time
\* holds it in an open transaction.
THEOREM NumbersStayApart == Spec => []NumbersHeldOnce
<1>1. IntakeInv => NumbersHeldOnce
  BY DEF IntakeInv
<1>2. QED
  BY <1>1, IntakeAlways, PTL
=============================================================================
