----------------------------- MODULE SeedProofs ------------------------------
(***************************************************************************)
(* Proofs about the administrator seed, for any number of overlapping runs *)
(* with any emails and passwords.                                          *)
(***************************************************************************)
EXTENDS Seed, TLAPS

USE DEF Steps, Goto, Exit

LEMMA TypeInductive == TypeOK /\ [Next]_vars => TypeOK'
<1> SUFFICES ASSUME TypeOK, [Next]_vars
             PROVE  TypeOK'
  OBVIOUS
<1> USE DEF TypeOK
<1>1. CASE UNCHANGED vars
  BY <1>1 DEF vars
<1>2. ASSUME NEW p \in Run, NEW e \in Email, NEW w \in Password \cup {None}, Start(p, e, w)
      PROVE  TypeOK'
  BY <1>2 DEF Start
<1>3. ASSUME NEW p \in Run, FindExisting(p) \/ CreateConflicts(p)
      PROVE  TypeOK'
  BY <1>3 DEF FindExisting, CreateConflicts
<1>4. ASSUME NEW p \in Run, NEW w \in Password, FindNobody(p, w)
      PROVE  TypeOK'
  BY <1>4 DEF FindNobody
<1>5. ASSUME NEW p \in Run, Create(p)
      PROVE  TypeOK'
  BY <1>5 DEF Create
<1>6. ASSUME NEW p \in Run, Show(p)
      PROVE  TypeOK'
  BY <1>6 DEF Show
<1>7. ASSUME NEW p \in Run, Die(p)
      PROVE  TypeOK'
  BY <1>7 DEF Die
<1> QED
  BY <1>1, <1>2, <1>3, <1>4, <1>5, <1>6, <1>7 DEF Next

(* The accounts, the runs and the logs of the seed have the declared types. *)
THEOREM TypeCorrect == Spec => []TypeOK
<1>1. Init => TypeOK
  BY DEF Init, TypeOK
<1> QED
  BY <1>1, TypeInductive, PTL DEF Spec

-----------------------------------------------------------------------------

(* No step touches the password of an account that exists. *)
LEMMA StoredKept ==
    TypeOK /\ [Next]_vars => \A e \in Email : users[e] # None => users'[e] = users[e]
<1> SUFFICES ASSUME TypeOK, [Next]_vars, NEW e \in Email, users[e] # None
             PROVE  users'[e] = users[e]
  OBVIOUS
<1>1. CASE UNCHANGED users
  BY <1>1
<1>2. ASSUME NEW p \in Run, Create(p) \/ Die(p)
      PROVE  users'[e] = users[e]
  BY <1>2 DEF Create, Die, TypeOK
<1> QED
  BY <1>1, <1>2 DEF Next, vars, Start, FindExisting, FindNobody, CreateConflicts, Show

(* "never overwrites an existing password" holds of every run of the seed, beside
   any other.                                                               *)
THEOREM PasswordKept == Spec => NeverOverwritten
<1>1. TypeOK /\ [Next]_vars =>
          [\A e \in Email : users[e] # None => users'[e] = users[e]]_vars
  BY StoredKept
<1> QED
  BY <1>1, TypeCorrect, PTL DEF Spec, NeverOverwritten

-----------------------------------------------------------------------------

(* A run is about to print only what it has stored. *)
AboutToPrint == \A p \in Run : step[p] = "print" => users[email[p]] = password[p]

PrintInv == PrintedWorks /\ AboutToPrint

LEMMA PrintInductive == TypeOK /\ PrintInv /\ [Next]_vars => PrintInv'
<1> SUFFICES ASSUME TypeOK, PrintInv, [Next]_vars
             PROVE  PrintInv'
  OBVIOUS
<1>0. \A e \in Email : users[e] # None => users'[e] = users[e]
  BY StoredKept
<1>a. \A p \in Run : step[p] = "print" => password[p] \in Password /\ password[p] # None
  BY NoneAssumption DEF TypeOK
<1>1. AboutToPrint'
  <2> SUFFICES ASSUME NEW q \in Run, step'[q] = "print"
               PROVE  users'[email'[q]] = password'[q]
    BY DEF AboutToPrint
  <2>1. CASE step[q] = "print"
    <3>1. users[email[q]] = password[q] /\ email[q] \in Email
      BY <2>1 DEF PrintInv, AboutToPrint, TypeOK
    <3>2. email'[q] = email[q] /\ password'[q] = password[q]
      BY <2>1 DEF Next, vars, Start, FindExisting, FindNobody, Create, CreateConflicts,
         Show, Die, TypeOK
    <3> QED
      BY <1>0, <1>a, <2>1, <3>1, <3>2
  <2>2. CASE step[q] # "print"
    <3>1. Create(q)
      BY <2>2 DEF Next, vars, Start, FindExisting, FindNobody, Create, CreateConflicts,
         Show, Die, TypeOK
    <3> QED
      BY <2>2, <3>1 DEF Create, TypeOK
  <2> QED
    BY <2>1, <2>2
<1>2. PrintedWorks'
  <2> SUFFICES ASSUME NEW e \in Email, NEW w \in Password, <<e, w>> \in printed'
               PROVE  users'[e] = w
    BY DEF PrintedWorks
  <2>1. users[e] = w
    <3>1. CASE <<e, w>> \in printed
      BY <3>1 DEF PrintInv, PrintedWorks
    <3>2. CASE <<e, w>> \notin printed
      <4>1. PICK p \in Run : Show(p)
        BY <3>2 DEF Next, vars, Start, FindExisting, FindNobody, Create, CreateConflicts, Die
      <4>2. e = email[p] /\ w = password[p] /\ step[p] = "print"
        BY <3>2, <4>1 DEF Show
      <4> QED
        BY <4>2 DEF PrintInv, AboutToPrint
    <3> QED
      BY <3>1, <3>2
  <2> QED
    BY <1>0, <2>1, NoneAssumption
<1> QED
  BY <1>1, <1>2 DEF PrintInv

(* Every password the logs show opens the account they show it for. *)
THEOREM ShownPasswordWorks == Spec => []PrintedWorks
<1>1. Init => PrintInv
  BY DEF Init, PrintInv, PrintedWorks, AboutToPrint
<1>2. PrintInv => PrintedWorks
  BY DEF PrintInv
<1> QED
  BY <1>1, <1>2, TypeCorrect, PrintInductive, PTL DEF Spec
=============================================================================
