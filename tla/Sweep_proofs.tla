----------------------------- MODULE Sweep_proofs -----------------------------
(***************************************************************************)
(* What the sweep of the gateway deletes, for any keys, any number of      *)
(* passes at once and any limits.  Between the answer of the object and    *)
(* the delete anything may happen; what makes the old answer good enough   *)
(* is that a window that has closed never opens again.                     *)
(***************************************************************************)
EXTENDS Sweep, FiniteSetTheorems, WellFoundedInduction, TLAPS

-----------------------------------------------------------------------------
(***************************************************************************)
(* The order of a listing.                                                 *)
(***************************************************************************)

Below == {ss \in Nat \X Nat : ss[1] < ss[2]}

\* A set of numbers has a least one.
LEMMA LeastOf ==
    ASSUME NEW S \in SUBSET Nat, S # {}
    PROVE  \E k \in S : \A i \in S : k <= i
<1>1. IsWellFoundedOn(Below, Nat)
  BY NatLessThanWellFounded DEF OpToRel, Below
<1>2. \A a, b \in Nat : a < b => <<a, b>> \in Below
  BY DEF Below
<1>3. S \subseteq Nat
  OBVIOUS
<1>4. \E k \in S : \A i \in S : ~(<<i, k>> \in Below)
  BY <1>1, <1>3, WFMin
<1>5. PICK k \in S : \A i \in S : ~(<<i, k>> \in Below)
  BY <1>4
<1>6. ASSUME NEW i \in S
      PROVE  k <= i
  <2>1. k \in Nat /\ i \in Nat /\ ~(<<i, k>> \in Below)
    BY <1>5
  <2> QED BY <1>2, <2>1
<1> QED BY <1>6

\* And, when it is bounded, a greatest one.
LEMMA GreatestOf ==
    ASSUME NEW S \in SUBSET Nat, S # {}, NEW n \in Nat, \A k \in S : k <= n
    PROVE  \E k \in S : \A i \in S : i <= k
<1> DEFINE U == {m \in Nat : \A k \in S : k <= m}
<1>1. PICK m \in U : \A i \in U : m <= i
  <2>1. n \in U /\ U \in SUBSET Nat
    OBVIOUS
  <2> HIDE DEF U
  <2> QED BY <2>1, LeastOf
<1>2. m \in S
  <2> SUFFICES ASSUME m \notin S PROVE FALSE
    OBVIOUS
  <2>1. PICK k \in S : TRUE
    OBVIOUS
  <2>2. m \in Nat /\ k \in Nat /\ k <= m /\ k # m
    OBVIOUS
  <2>3. m - 1 \in U
    <3>1. \A i \in S : i <= m /\ i # m /\ i \in Nat
      OBVIOUS
    <3> QED BY <2>2, <3>1
  <2> QED BY <1>1, <2>2, <2>3
<1> QED BY <1>2

LEMMA KeyNumbers ==
    /\ Len(Keys) \in Nat /\ Key = 1 .. Len(Keys) /\ Key \subseteq Nat \ {0}
    /\ IsFiniteSet(Key)
<1>1. Len(Keys) \in Nat /\ Key = 1 .. Len(Keys)
  BY SweepAssumption
<1>2. Key \subseteq Nat \ {0}
  BY <1>1
<1>3. IsFiniteSet(1 .. Len(Keys))
  BY <1>1, FS_Interval
<1> QED BY <1>1, <1>2, <1>3

\* A set of keys has a first and a last one.
LEMMA FirstAndLast ==
    ASSUME NEW S \in SUBSET Key, S # {}
    PROVE  /\ First(S) \in S /\ \A i \in S : First(S) <= i
           /\ Last(S) \in S /\ \A i \in S : i <= Last(S)
<1>1. S \in SUBSET Nat /\ \A k \in S : k <= Len(Keys)
  BY KeyNumbers
<1>2. \E k \in S : \A i \in S : k <= i
  BY <1>1, LeastOf
<1>3. \E k \in S : \A i \in S : i <= k
  BY <1>1, KeyNumbers, GreatestOf
<1> QED BY <1>2, <1>3 DEF First, Last

\* A listing skips nothing: what it leaves out comes after all it returns, and it
\* returns something unless there is nothing.
LEMMA ListingSkipsNone ==
    ASSUME NEW S \in SUBSET Key
    PROVE  /\ Listed(S) \subseteq S
           /\ S # {} => Listed(S) # {}
           /\ \A k \in S \ Listed(S), l \in Listed(S) : l < k
<1> DEFINE Upto(k) == {i \in S : i <= k}
<1>1. IsFiniteSet(S) /\ \A i \in S : i \in Nat
  BY KeyNumbers, FS_Subset
<1>2. \A k \in S : IsFiniteSet(Upto(k)) /\ Cardinality(Upto(k)) \in Nat
  <2> SUFFICES ASSUME NEW k \in S
               PROVE  IsFiniteSet(Upto(k)) /\ Cardinality(Upto(k)) \in Nat
    OBVIOUS
  <2>1. Upto(k) \subseteq S
    OBVIOUS
  <2> HIDE DEF Upto
  <2> QED BY <1>1, <2>1, FS_Subset, FS_CardinalityType
<1>3. S # {} => Listed(S) # {}
  <2> SUFFICES ASSUME S # {} PROVE First(S) \in Listed(S)
    OBVIOUS
  <2>1. First(S) \in S /\ \A i \in S : First(S) <= i
    BY FirstAndLast
  <2>2. Upto(First(S)) = {First(S)}
    <3>1. \A i \in S : i <= First(S) => i = First(S)
      BY <1>1, <2>1
    <3> QED BY <1>1, <2>1, <3>1
  <2>3. Cardinality(Upto(First(S))) = 1
    BY <2>2, FS_Singleton
  <2> QED BY <2>1, <2>3, SweepAssumption DEF Listed
<1>4. ASSUME NEW k \in S \ Listed(S), NEW l \in Listed(S)
      PROVE  l < k
  <2> SUFFICES ASSUME ~(l < k) PROVE FALSE
    OBVIOUS
  <2>1. l \in S /\ l \in Nat /\ k \in Nat /\ k <= l
    BY <1>1 DEF Listed
  <2>2. Upto(k) \subseteq Upto(l)
    <3>1. \A i \in S : i <= k => i <= l
      BY <1>1, <2>1
    <3> QED BY <3>1
  <2>3. Cardinality(Upto(k)) <= Cardinality(Upto(l))
    <3> HIDE DEF Upto
    <3> QED BY <1>2, <2>1, <2>2, FS_Subset
  <2>4. Cardinality(Upto(l)) <= Limit
    BY DEF Listed
  <2>5. Cardinality(Upto(k)) \in Nat /\ Cardinality(Upto(l)) \in Nat /\ Limit \in Nat
    BY <1>2, <2>1, SweepAssumption
  <2>6. Cardinality(Upto(k)) <= Limit
    <3> HIDE DEF Upto
    <3> QED BY <2>3, <2>4, <2>5
  <2> QED BY <2>6 DEF Listed
<1> QED BY <1>3, <1>4 DEF Listed

-----------------------------------------------------------------------------
(***************************************************************************)
(* What a pass deletes.                                                    *)
(***************************************************************************)

\* Domains of the tables that are updated.
Tables ==
    /\ at \in [Passes -> {"off", "list", "scan", "doomed", "over"}]
    /\ todo = [p \in Passes |-> todo[p]]
    /\ life \in [JobIds -> {"live", "expired", "absent"}]

\* What a pass is about to delete is the zip of a job that is over.
Condemned(p) == First(todo[p]) \in Zips /\ Over(First(todo[p]))

SweepInv == Tables /\ \A p \in Passes : at[p] = "doomed" => Condemned(p)

\* A key has a job of its own.
LEMMA JobOfKey == \A k \in Key : Keys[k].job \in JobIds
  BY DEF JobIds

\* The windows close and do not open again, whatever step is taken.
LEMMA ClosedStaysClosed ==
  ASSUME Tables, Next, NEW k \in Key, Over(k)
  PROVE  Over(k)'
<1>1. UNCHANGED life \/ \E j \in JobIds : Age(j)
  BY DEF Next, PassStep, PutZip, Removed, Start, List, ListFails, Ask, AskFails,
         Delete, DeleteFails, EndPage, End, worldVars
<1>2. CASE UNCHANGED life
  BY <1>2 DEF Over
<1>3. ASSUME NEW j \in JobIds, Age(j) PROVE Over(k)'
  BY <1>3, JobOfKey DEF Age, Tables, Over
<1> QED BY <1>1, <1>2, <1>3

\* A step of one pass keeps what every pass is about to delete.
LEMMA PassKeeps ==
  ASSUME SweepInv, NEW p \in Passes, PassStep(p)
  PROVE  SweepInv'
<1> USE DEF SweepInv, Tables
<1>1. Zips \subseteq Key
  BY DEF Zips
<1>2. Next
  BY DEF Next
<1>3. UNCHANGED life
  BY DEF PassStep, Start, List, ListFails, Ask, AskFails,
         Delete, DeleteFails, EndPage, End, worldVars
<1>4. Tables'
  BY <1>3 DEF PassStep, Start, List, ListFails, Ask, AskFails, Delete, DeleteFails,
              EndPage, End, Goto, Next1, worldVars
<1>5. ASSUME NEW q \in Passes, at'[q] = "doomed"
      PROVE  Condemned(q)'
  <2>1. CASE q # p
    <3>1. at'[q] = at[q] /\ todo'[q] = todo[q]
      BY <2>1 DEF PassStep, Start, List, ListFails, Ask, AskFails, Delete, DeleteFails,
                  EndPage, End, Goto, Next1
    <3> QED BY <1>1, <1>3, <1>5, <3>1 DEF Condemned, Over
  <2>2. CASE q = p
    <3>1. Ask(p) /\ todo'[p] = todo[p] /\ First(todo[p]) \in Zips /\ Over(First(todo[p]))
      BY <1>5, <2>2 DEF PassStep, Start, List, ListFails, Ask, AskFails, Delete,
                        DeleteFails, EndPage, End, Goto, Pending
    <3> QED BY <1>3, <2>2, <3>1 DEF Condemned, Over
  <2> QED BY <2>1, <2>2
<1> QED BY <1>4, <1>5

\* SweepInv is an invariant.
LEMMA SweepStep == SweepInv /\ [Next]_sweepVars => SweepInv'
<1> SUFFICES ASSUME SweepInv, [Next]_sweepVars PROVE SweepInv'
  OBVIOUS
<1>1. ASSUME NEW p \in Passes, PassStep(p) PROVE SweepInv'
  BY <1>1, PassKeeps
<1>2. ASSUME NEW k \in Key, PutZip(k) \/ Removed(k) PROVE SweepInv'
  BY <1>2 DEF PutZip, Removed, passVars, SweepInv, Tables, Condemned, Over
<1>3. ASSUME NEW j \in JobIds, Age(j) PROVE SweepInv'
  <2>1. Tables' /\ UNCHANGED <<at, todo>>
    BY <1>3 DEF Age, passVars, SweepInv, Tables
  <2>2. ASSUME NEW p \in Passes, at[p] = "doomed" PROVE Condemned(p)'
    <3>1. First(todo[p]) \in Zips /\ Over(First(todo[p])) /\ Zips \subseteq Key /\ Next
      BY <1>3, <2>2 DEF SweepInv, Condemned, Zips, Next
    <3>2. ASSUME NEW k \in Key, Over(k) PROVE Over(k)'
      BY <3>1, <3>2, ClosedStaysClosed DEF SweepInv
    <3> QED BY <2>1, <3>1, <3>2 DEF Condemned, Over
  <2> QED BY <2>1, <2>2 DEF SweepInv
<1>4. CASE UNCHANGED sweepVars
  BY <1>4 DEF sweepVars, worldVars, passVars, SweepInv, Tables, Condemned, Over
<1> QED BY <1>1, <1>2, <1>3, <1>4 DEF Next

LEMMA SweepInvHolds == Spec => []SweepInv
<1>1. Init => SweepInv
  BY DEF Init, SweepInv, Tables
<1> QED BY <1>1, SweepStep, PTL DEF Spec

\* The sweep deletes zips of jobs that are over and nothing else: no photo, no
\* figure and no result whose window is open, although it acts on answers that
\* are old, beside other passes, consumers and alarms.
THEOREM OnlyOverGoes == Spec => OnlyOverIsSwept
<1>1. SweepInv /\ [Next]_sweepVars =>
        [\A p \in Passes : Delete(p) =>
           \A k \in bucket \ bucket' : k \in Zips /\ Over(k)]_sweepVars
  BY DEF SweepInv, Delete, Condemned
<1> QED BY <1>1, SweepInvHolds, PTL DEF Spec, OnlyOverIsSwept
-----------------------------------------------------------------------------
(***************************************************************************)
(* What a pass leaves.                                                     *)
(***************************************************************************)

\* Where the variables of a pass stand between two passes and two pages.
Stand(p) ==
    /\ at[p] = "off" => page[p] = 0 /\ cursor[p] = 0
    /\ at[p] = "list" => page[p] < MaxPages
    /\ at[p] = "doomed" => todo[p] # {}

\* A zip that was over when the pass began, and is there, is still ahead of it:
\* on the page it has listed, or behind its cursor.
Ahead(p, k) ==
    /\ at[p] = "list" => k > cursor[p]
    /\ at[p] \in {"scan", "doomed"} => k \in todo[p] \/ (more[p] /\ k > cursor[p])
    /\ at[p] = "over" => more[p]

Owed(p) == \A k \in due[p] : Over(k) /\ (k \in bucket => Ahead(p, k))

PassInv == TypeOK /\ SweepInv /\ \A p \in Passes : Stand(p) /\ Owed(p)

\* A pass writes its own variables only, puts nothing and opens no window.
LEMMA PassIsLocal ==
    ASSUME TypeOK, NEW p \in Passes, PassStep(p)
    PROVE  /\ UNCHANGED <<puts, life>> /\ bucket' \subseteq bucket
           /\ \A q \in Passes \ {p} :
                /\ at'[q] = at[q] /\ page'[q] = page[q] /\ cursor'[q] = cursor[q]
                /\ todo'[q] = todo[q] /\ more'[q] = more[q] /\ due'[q] = due[q]
<1> USE DEF TypeOK, Goto, Next1, Fault, worldVars
<1>1. CASE Start(p)
  BY <1>1 DEF Start
<1>2. CASE List(p)
  BY <1>2 DEF List
<1>3. CASE ListFails(p)
  BY <1>3 DEF ListFails
<1>4. CASE Ask(p)
  BY <1>4 DEF Ask
<1>5. CASE AskFails(p)
  BY <1>5 DEF AskFails
<1>6. CASE Delete(p)
  BY <1>6 DEF Delete
<1>7. CASE DeleteFails(p)
  BY <1>7 DEF DeleteFails
<1>8. CASE EndPage(p)
  BY <1>8 DEF EndPage
<1>9. CASE End(p)
  BY <1>9 DEF End
<1> QED BY <1>1, <1>2, <1>3, <1>4, <1>5, <1>6, <1>7, <1>8, <1>9 DEF PassStep

\* What step p of a pass does to its own variables.
Own(p) == TypeOK' /\ Stand(p)' /\ Owed(p)'

\* A listing goes on behind the cursor: what is owed is on the page or after it.
LEMMA ListOwn ==
    ASSUME PassInv, NEW p \in Passes, List(p)
    PROVE  Own(p)
<1> DEFINE found == {k \in bucket : k > cursor[p]}
           c == IF found = {} THEN cursor[p] ELSE Last(Listed(found))
<1>1. /\ at[p] = "list" /\ at' = [at EXCEPT ![p] = "scan"]
      /\ todo' = [todo EXCEPT ![p] = Listed(found)]
      /\ more' = [more EXCEPT ![p] = Listed(found) # found]
      /\ cursor' = [cursor EXCEPT ![p] = c]
      /\ page' = [page EXCEPT ![p] = page[p] + 1]
      /\ UNCHANGED <<bucket, puts, life, faults, due>>
  BY DEF List, Goto, worldVars
<1>2. TypeOK /\ Stand(p) /\ Owed(p)
  BY DEF PassInv
<1>3. found \in SUBSET Key /\ found \subseteq bucket
  BY <1>2 DEF TypeOK
<1>4. cursor[p] \in Key \cup {0} /\ page[p] \in Nat
  BY <1>2, SweepAssumption DEF TypeOK
<1>5. /\ Listed(found) \subseteq found
      /\ found # {} => Listed(found) # {}
      /\ \A k \in found \ Listed(found), l \in Listed(found) : l < k
  <2> HIDE DEF found
  <2> QED BY <1>3, ListingSkipsNone
<1>6. found # {} => c \in Listed(found)
  <2> HIDE DEF found
  <2> QED BY <1>3, <1>5, FirstAndLast
<1>7. /\ c \in Key \cup {0} /\ Listed(found) \in SUBSET Key
      /\ \A k \in found \ Listed(found) : k > c
  BY <1>3, <1>4, <1>5, <1>6
<1> DEFINE m == Listed(found) # found
<1>8. m \in BOOLEAN /\ more' = [more EXCEPT ![p] = m]
  BY <1>1
<1>9. \A k \in bucket : k > cursor[p] => k \in Listed(found) \/ (m /\ k > c)
  BY <1>7
<1> DEFINE l == Listed(found)
<1> HIDE DEF m, c, l
<1>10. /\ page'[p] = page[p] + 1 /\ cursor'[p] = c /\ todo'[p] = l
       /\ more'[p] = m /\ at'[p] = "scan"
  BY <1>1, <1>2, <1>8 DEF TypeOK, l
<1>11. TypeOK'
  <2>1. page[p] + 1 \in 0 .. MaxPages
    BY <1>1, <1>2, <1>4, SweepAssumption DEF Stand
  <2>2. page' \in [Passes -> 0 .. MaxPages]
    BY <1>1, <1>2, <2>1 DEF TypeOK
  <2>3. cursor' \in [Passes -> Key \cup {0}] /\ todo' \in [Passes -> SUBSET Key]
    BY <1>1, <1>2, <1>7 DEF TypeOK, l
  <2>4. more' \in [Passes -> BOOLEAN]
    BY <1>2, <1>8 DEF TypeOK
  <2>5. at' \in [Passes -> {"off", "list", "scan", "doomed", "over"}]
    BY <1>1, <1>2 DEF TypeOK
  <2> QED BY <1>1, <1>2, <2>2, <2>3, <2>4, <2>5 DEF TypeOK
<1>12. Stand(p)'
  BY <1>10 DEF Stand
<1>13. Owed(p)'
  <2> SUFFICES ASSUME NEW k \in due[p]
               PROVE  Over(k)' /\ (k \in bucket => Ahead(p, k)')
    BY <1>1 DEF Owed
  <2>1. Over(k) /\ (k \in bucket => Ahead(p, k))
    BY <1>2 DEF Owed
  <2>2. Over(k)'
    BY <1>1, <2>1 DEF Over
  <2>3. k \in bucket => k \in l \/ (m /\ k > c)
    BY <1>1, <1>9, <2>1 DEF Ahead, l
  <2> QED BY <1>10, <2>2, <2>3 DEF Ahead
<1> QED BY <1>11, <1>12, <1>13 DEF Own

\* A key is passed over when it is none that is owed, or a call has failed.
LEMMA AskOwn ==
    ASSUME PassInv, NEW p \in Passes, Ask(p)
    PROVE  Own(p)
<1> DEFINE k == First(todo[p])
<1>1. /\ at[p] = "scan" /\ todo[p] # {}
      /\ UNCHANGED <<bucket, puts, life, page, cursor, more, faults, due>>
  BY DEF Ask, Pending, worldVars
<1>2. TypeOK /\ Stand(p) /\ Owed(p)
  BY DEF PassInv
<1>3. due[p] \subseteq Zips /\ todo[p] \in SUBSET Key
  BY <1>2 DEF TypeOK
<1>4. CASE k \in Zips /\ Over(k)
  <2>1. at' = [at EXCEPT ![p] = "doomed"] /\ UNCHANGED todo
    BY <1>4 DEF Ask, Goto
  <2>2. at'[p] = "doomed"
    BY <1>2, <2>1 DEF TypeOK
  <2>3. TypeOK'
    BY <1>1, <1>2, <2>1 DEF TypeOK
  <2>4. Stand(p)' /\ Owed(p)'
    BY <1>1, <1>2, <2>1, <2>2 DEF Stand, Owed, Ahead, Over
  <2> QED BY <2>3, <2>4 DEF Own
<1>5. CASE ~(k \in Zips /\ Over(k))
  <2>1. todo' = [todo EXCEPT ![p] = todo[p] \ {k}] /\ UNCHANGED at
    BY <1>5 DEF Ask, Next1
  <2>2. todo'[p] = todo[p] \ {k}
    BY <1>2, <2>1 DEF TypeOK
  <2>3. k \notin due[p]
    BY <1>2, <1>3, <1>5 DEF Owed
  <2> HIDE DEF k
  <2>4. TypeOK'
    BY <1>1, <1>2, <2>1 DEF TypeOK
  <2>5. Stand(p)' /\ Owed(p)'
    BY <1>1, <1>2, <2>1, <2>2, <2>3 DEF Stand, Owed, Ahead, Over
  <2> QED BY <2>4, <2>5 DEF Own
<1> QED BY <1>4, <1>5

\* A delete removes the key from the page and from the bucket.
LEMMA DeleteOwn ==
    ASSUME PassInv, NEW p \in Passes, Delete(p)
    PROVE  Own(p)
<1> DEFINE k == First(todo[p])
<1>1. /\ at[p] = "doomed" /\ at' = [at EXCEPT ![p] = "scan"]
      /\ bucket' = bucket \ {k} /\ todo' = [todo EXCEPT ![p] = todo[p] \ {k}]
      /\ UNCHANGED <<puts, life, page, cursor, more, faults, due>>
  BY DEF Delete, Goto, Next1
<1>2. TypeOK /\ Stand(p) /\ Owed(p)
  BY DEF PassInv
<1> HIDE DEF k
<1>3. at'[p] = "scan" /\ todo'[p] = todo[p] \ {k}
  BY <1>1, <1>2 DEF TypeOK
<1>4. TypeOK'
  BY <1>1, <1>2 DEF TypeOK
<1>5. Stand(p)' /\ Owed(p)'
  BY <1>1, <1>2, <1>3 DEF Stand, Owed, Ahead, Over
<1> QED BY <1>4, <1>5 DEF Own

\* A call that fails ends the debt of the pass.
LEMMA FaultOwn ==
    ASSUME PassInv, NEW p \in Passes, ListFails(p) \/ AskFails(p) \/ DeleteFails(p)
    PROVE  Own(p)
<1> DEFINE k == First(todo[p])
<1>1. /\ faults < MaxFaults /\ faults' = faults + 1
      /\ due' = [due EXCEPT ![p] = {}]
      /\ UNCHANGED <<bucket, puts, life, page, cursor, more>>
      /\ \/ at' = [at EXCEPT ![p] = "over"] /\ UNCHANGED todo
         \/ /\ at[p] = "scan" /\ UNCHANGED at
            /\ todo' = [todo EXCEPT ![p] = todo[p] \ {k}]
         \/ /\ at' = [at EXCEPT ![p] = "scan"]
            /\ todo' = [todo EXCEPT ![p] = todo[p] \ {k}]
  BY DEF ListFails, AskFails, DeleteFails, Fault, Goto, Next1, Pending, worldVars
<1>2. TypeOK
  BY DEF PassInv
<1> HIDE DEF k
<1>3. faults' \in 0 .. MaxFaults
  BY <1>1, <1>2, SweepAssumption DEF TypeOK
<1>4. TypeOK'
  BY <1>1, <1>2, <1>3 DEF TypeOK
<1>5. due'[p] = {} /\ at'[p] \in {"over", "scan"}
  BY <1>1, <1>2 DEF TypeOK
<1>6. Stand(p)' /\ Owed(p)'
  BY <1>5 DEF Stand, Owed
<1> QED BY <1>4, <1>6 DEF Own

\* A pass begins at the first key, which none is before; it ends, or goes to the
\* next page, when the page is done; and forgets what it owed.
LEMMA TurnOwn ==
    ASSUME PassInv, NEW p \in Passes, Start(p) \/ EndPage(p) \/ End(p)
    PROVE  Own(p)
<1>1. TypeOK /\ Stand(p) /\ Owed(p)
  BY DEF PassInv
<1>2. CASE Start(p)
  <2> DEFINE d == {k \in bucket \cap Zips : Over(k)}
  <2>1. /\ at[p] = "off" /\ at' = [at EXCEPT ![p] = "list"] /\ due' = [due EXCEPT ![p] = d]
        /\ UNCHANGED <<bucket, puts, life, page, cursor, todo, more, faults>>
    BY <1>2 DEF Start, Goto, worldVars
  <2>2. d \subseteq Zips /\ \A k \in d : Over(k) /\ k > 0
    BY <1>1, KeyNumbers DEF TypeOK
  <2> HIDE DEF d
  <2>3. at'[p] = "list" /\ due'[p] = d
    BY <1>1, <2>1 DEF TypeOK
  <2>4. TypeOK'
    BY <1>1, <2>1, <2>2 DEF TypeOK
  <2>5. page[p] = 0 /\ cursor[p] = 0 /\ 0 < MaxPages
    BY <1>1, <2>1, SweepAssumption DEF Stand
  <2>6. Stand(p)' /\ Owed(p)'
    BY <2>1, <2>2, <2>3, <2>5 DEF Stand, Owed, Ahead, Over
  <2> QED BY <2>4, <2>6 DEF Own
<1>3. CASE EndPage(p)
  <2> DEFINE s == IF more[p] /\ page[p] < MaxPages THEN "list" ELSE "over"
  <2>1. /\ at[p] = "scan" /\ todo[p] = {} /\ at' = [at EXCEPT ![p] = s]
        /\ UNCHANGED <<bucket, puts, life, page, cursor, todo, more, faults, due>>
    BY <1>3 DEF EndPage, Goto, worldVars
  <2>2. s \in {"list", "over"} /\ (s = "list" => page[p] < MaxPages)
    OBVIOUS
  <2> HIDE DEF s
  <2>3. at'[p] = s
    BY <1>1, <2>1 DEF TypeOK
  <2>4. TypeOK'
    BY <1>1, <2>1, <2>2 DEF TypeOK
  <2>5. Stand(p)' /\ Owed(p)'
    BY <1>1, <2>1, <2>2, <2>3 DEF Stand, Owed, Ahead, Over
  <2> QED BY <2>4, <2>5 DEF Own
<1>4. CASE End(p)
  <2>1. /\ at' = [at EXCEPT ![p] = "off"] /\ page' = [page EXCEPT ![p] = 0]
        /\ cursor' = [cursor EXCEPT ![p] = 0] /\ todo' = [todo EXCEPT ![p] = {}]
        /\ more' = [more EXCEPT ![p] = FALSE] /\ due' = [due EXCEPT ![p] = {}]
        /\ UNCHANGED <<bucket, puts, life, faults>>
    BY <1>4 DEF End, Goto, worldVars
  <2>2. at'[p] = "off" /\ page'[p] = 0 /\ cursor'[p] = 0 /\ due'[p] = {}
    BY <1>1, <2>1 DEF TypeOK
  <2>3. 0 \in 0 .. MaxPages
    BY SweepAssumption
  <2>4. TypeOK'
    BY <1>1, <2>1, <2>3 DEF TypeOK
  <2>5. Stand(p)' /\ Owed(p)'
    BY <2>2 DEF Stand, Owed
  <2> QED BY <2>4, <2>5 DEF Own
<1> QED BY <1>2, <1>3, <1>4

LEMMA PassInvHolds == Spec => []PassInv
<1>1. Init => PassInv
  <2> SUFFICES ASSUME Init PROVE PassInv
    OBVIOUS
  <2>1. TypeOK
    <3>1. 0 \in 0 .. MaxPages /\ 0 \in 0 .. MaxFaults /\ 0 \in 0 .. MaxPuts
      BY SweepAssumption
    <3> QED BY <3>1 DEF Init, TypeOK
  <2>2. SweepInv
    BY DEF Init, SweepInv, Tables
  <2>3. \A p \in Passes : Stand(p) /\ Owed(p)
    BY DEF Init, Stand, Owed
  <2> QED BY <2>1, <2>2, <2>3 DEF PassInv
<1>2. PassInv /\ [Next]_sweepVars => PassInv'
  <2> SUFFICES ASSUME PassInv, [Next]_sweepVars PROVE PassInv'
    OBVIOUS
  <2>0. SweepInv' /\ TypeOK /\ SweepInv
    BY SweepStep DEF PassInv
  <2>1. ASSUME NEW p \in Passes, PassStep(p)
        PROVE  PassInv'
    <3>1. Own(p)
      BY <2>1, ListOwn, AskOwn, DeleteOwn, FaultOwn, TurnOwn DEF PassStep
    <3>2. ASSUME NEW q \in Passes \ {p}
          PROVE  Stand(q)' /\ Owed(q)'
      <4>1. /\ UNCHANGED <<puts, life>> /\ bucket' \subseteq bucket
            /\ at'[q] = at[q] /\ page'[q] = page[q] /\ cursor'[q] = cursor[q]
            /\ todo'[q] = todo[q] /\ more'[q] = more[q] /\ due'[q] = due[q]
        BY <2>0, <2>1, PassIsLocal
      <4>2. Stand(q) /\ Owed(q)
        BY DEF PassInv
      <4> QED BY <4>1, <4>2 DEF Stand, Owed, Ahead, Over
    <3> QED BY <2>0, <3>1, <3>2 DEF PassInv, Own
  <2>2. ASSUME NEW k \in Key, PutZip(k)
        PROVE  PassInv'
    <3>1. /\ k \in Zips /\ puts < MaxPuts /\ puts' = puts + 1 /\ bucket' = bucket \cup {k}
          /\ due' = [p \in Passes |-> due[p] \ {k}]
          /\ UNCHANGED <<life, at, page, cursor, todo, more, faults>>
      BY <2>2 DEF PutZip, passVars
    <3>2. puts' \in 0 .. MaxPuts
      BY <2>0, <3>1, SweepAssumption DEF TypeOK
    <3>3. TypeOK'
      BY <2>0, <3>1, <3>2 DEF TypeOK, Zips
    <3>4. \A p \in Passes : Stand(p)' /\ Owed(p)'
      BY <3>1 DEF PassInv, Stand, Owed, Ahead, Over
    <3> QED BY <2>0, <3>3, <3>4 DEF PassInv
  <2>3. ASSUME NEW k \in Key, Removed(k)
        PROVE  PassInv'
    <3>1. /\ bucket' = bucket \ {k}
          /\ UNCHANGED <<puts, life, at, page, cursor, todo, more, faults, due>>
      BY <2>3 DEF Removed, passVars
    <3>2. TypeOK'
      BY <2>0, <3>1 DEF TypeOK
    <3>3. \A p \in Passes : Stand(p)' /\ Owed(p)'
      BY <3>1 DEF PassInv, Stand, Owed, Ahead, Over
    <3> QED BY <2>0, <3>2, <3>3 DEF PassInv
  <2>4. ASSUME NEW j \in JobIds, Age(j)
        PROVE  PassInv'
    <3>1. UNCHANGED <<bucket, puts, at, page, cursor, todo, more, faults, due>>
      BY <2>4 DEF Age, passVars
    <3>2. TypeOK'
      BY <2>0, <2>4, <3>1 DEF TypeOK, Age
    <3>3. \A k \in Key : Over(k) => Over(k)'
      BY <2>0, <2>4, ClosedStaysClosed DEF Next, SweepInv
    <3>4. \A p \in Passes : due[p] \subseteq Key
      BY <2>0 DEF TypeOK, Zips
    <3>5. \A p \in Passes : Stand(p)' /\ Owed(p)'
      BY <3>1, <3>3, <3>4 DEF PassInv, Stand, Owed, Ahead
    <3> QED BY <2>0, <3>2, <3>5 DEF PassInv
  <2>5. CASE UNCHANGED sweepVars
    BY <2>0, <2>5 DEF sweepVars, worldVars, passVars, PassInv, TypeOK, Stand, Owed, Ahead, Over
  <2> QED BY <2>1, <2>2, <2>3, <2>4, <2>5 DEF Next
<1> QED BY <1>1, <1>2, PTL DEF Spec

\* The passes and the bucket keep to their types: no pass lists more pages than
\* SWEEP_MAX_PAGES.
THEOREM TypeCorrect == Spec => []TypeOK
<1>1. PassInv => TypeOK
  BY DEF PassInv
<1> QED BY <1>1, PassInvHolds, PTL

\* A pass without a failure that saw the last page leaves no zip that was over
\* when it began, for any keys and page size, although keys come and go between
\* two of its pages and other passes delete what it has listed.
THEOREM PassLeavesNone == Spec => []PassIsComplete
<1>1. PassInv => PassIsComplete
  BY DEF PassInv, Owed, Ahead, PassIsComplete
<1> QED BY <1>1, PassInvHolds, PTL
=============================================================================
