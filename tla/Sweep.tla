-------------------------------- MODULE Sweep --------------------------------
(***************************************************************************)
(* The cron of the gateway over the whole bucket: sweepExpiredResults      *)
(* lists jobs/ page by page, asks the object of each job whose result.zip  *)
(* it meets, and deletes the zip of a job that is over.  A pass may last   *)
(* longer than the minute between two of them; while it runs, consumers    *)
(* put and remove objects and the jobs grow old.                           *)
(***************************************************************************)
EXTENDS Naturals, FiniteSets, Sequences

CONSTANTS Keys,      \* what may lie under jobs/, as [job, name], in the order
                     \* of a listing
          Passes,    \* passes that may run at once
          Limit,     \* SWEEP_LIST_LIMIT
          MaxPages,  \* SWEEP_MAX_PAGES
          MaxFaults, \* bound: calls of the sweep that fail
          MaxPuts    \* bound: zips put, as deliveries are limited

Key == DOMAIN Keys
JobIds == {Keys[k].job : k \in Key}
Zips == {k \in Key : Keys[k].name = "zip"}
Names == {"photo", "figure", "zip"}

ASSUME SweepAssumption ==
    /\ Len(Keys) \in Nat /\ Key = 1 .. Len(Keys)
    /\ \A k \in Key : Keys[k].name \in Names
    /\ Limit \in Nat \ {0} /\ MaxPages \in Nat \ {0}
    /\ MaxFaults \in Nat /\ MaxPuts \in Nat

VARIABLES bucket,  \* keys of the objects stored
          puts,    \* zips put so far
          life,    \* of each job: "live" (its window is open), "expired", "absent"
          at,      \* where each pass stands
          page,    \* pages it listed
          cursor,  \* the last key of its last page
          todo,    \* keys of that page it still has to look at
          more,    \* whether the listing was truncated
          faults,  \* failures so far
          due      \* history: zips that were over when the pass began and have
                   \* not been put again, {} once a call of the pass failed

worldVars == <<bucket, puts, life>>
passVars == <<at, page, cursor, todo, more, faults>>
sweepVars == <<worldVars, passVars, due>>

TypeOK ==
    /\ bucket \subseteq Key
    /\ puts \in 0 .. MaxPuts
    /\ life \in [JobIds -> {"live", "expired", "absent"}]
    /\ at \in [Passes -> {"off", "list", "scan", "doomed", "over"}]
    /\ page \in [Passes -> 0 .. MaxPages]
    /\ cursor \in [Passes -> Key \cup {0}]
    /\ todo \in [Passes -> SUBSET Key]
    /\ more \in [Passes -> BOOLEAN]
    /\ faults \in 0 .. MaxFaults
    /\ due \in [Passes -> SUBSET Zips]

Over(k) == life[Keys[k].job] # "live"

\* A key is its place in the order of a listing.
First(S) == CHOOSE k \in S : \A i \in S : k <= i
Last(S)  == CHOOSE k \in S : \A i \in S : i <= k

\* What a listing of the keys in S returns: the first of them, up to the limit.
Listed(S) == {k \in S : Cardinality({i \in S : i <= k}) <= Limit}

Init ==
    /\ bucket \in SUBSET (Key \ Zips)
    /\ puts = 0
    /\ life = [j \in JobIds |-> "live"]
    /\ at = [p \in Passes |-> "off"]
    /\ page = [p \in Passes |-> 0]
    /\ cursor = [p \in Passes |-> 0]
    /\ todo = [p \in Passes |-> {}]
    /\ more = [p \in Passes |-> FALSE]
    /\ faults = 0
    /\ due = [p \in Passes |-> {}]

-----------------------------------------------------------------------------
\* The others.

\* A consumer puts its result, however late; another delivery does it again.
PutZip(k) ==
    /\ k \in Zips \ bucket
    /\ puts < MaxPuts
    /\ puts' = puts + 1
    /\ bucket' = bucket \cup {k}
    /\ due' = [p \in Passes |-> due[p] \ {k}]
    /\ UNCHANGED <<life, passVars>>

\* A run that is over removes its photos, one that failed the zip too; a figure
\* goes by the rule of the bucket.
Removed(k) ==
    /\ k \in bucket
    /\ bucket' = bucket \ {k}
    /\ UNCHANGED <<puts, life, passVars, due>>

\* The alarms of a job.
Age(j) ==
    /\ \/ life[j] = "live" /\ life' = [life EXCEPT ![j] = "expired"]
       \/ life[j] = "expired" /\ life' = [life EXCEPT ![j] = "absent"]
    /\ UNCHANGED <<bucket, puts, passVars, due>>

-----------------------------------------------------------------------------
\* A pass.

Goto(p, where) == at' = [at EXCEPT ![p] = where]

\* One more call fails: what the pass had to do is not owed any more.
Fault(p) ==
    /\ faults < MaxFaults
    /\ faults' = faults + 1
    /\ due' = [due EXCEPT ![p] = {}]

Start(p) ==
    /\ at[p] = "off"
    /\ Goto(p, "list")
    /\ due' = [due EXCEPT ![p] = {k \in bucket \cap Zips : Over(k)}]
    /\ UNCHANGED <<worldVars, page, cursor, todo, more, faults>>

\* Mutant: every page is the first one.
List_First(p) ==
    /\ at[p] = "list"
    /\ todo' = [todo EXCEPT ![p] = Listed(bucket)]
    /\ more' = [more EXCEPT ![p] = Listed(bucket) # bucket]
    /\ UNCHANGED cursor
    /\ page' = [page EXCEPT ![p] = @ + 1]
    /\ Goto(p, "scan")
    /\ UNCHANGED <<worldVars, faults, due>>

\* R2's list: the first keys after the cursor, and whether there are more.
List(p) ==
    /\ at[p] = "list"
    /\ LET found == {k \in bucket : k > cursor[p]}
       IN  /\ todo' = [todo EXCEPT ![p] = Listed(found)]
           /\ more' = [more EXCEPT ![p] = Listed(found) # found]
           /\ cursor' = [cursor EXCEPT ![p] = IF found = {} THEN @ ELSE Last(Listed(found))]
    /\ page' = [page EXCEPT ![p] = @ + 1]
    /\ Goto(p, "scan")
    /\ UNCHANGED <<worldVars, faults, due>>

ListFails(p) ==
    /\ at[p] = "list"
    /\ Fault(p)
    /\ Goto(p, "over")
    /\ UNCHANGED <<worldVars, page, cursor, todo, more>>

Pending(p) == at[p] = "scan" /\ todo[p] # {}
Next1(p) == todo' = [todo EXCEPT ![p] = @ \ {First(@)}]

\* Mutant: everything under a job that is over goes.
Ask_All(p) ==
    /\ Pending(p)
    /\ IF Over(First(todo[p]))
       THEN Goto(p, "doomed") /\ UNCHANGED todo
       ELSE Next1(p) /\ UNCHANGED at
    /\ UNCHANGED <<worldVars, page, cursor, more, faults, due>>

\* Mutant: the 404 of a purged job counts as an error.
Ask_NotPurged(p) ==
    /\ Pending(p)
    /\ IF First(todo[p]) \in Zips /\ life[Keys[First(todo[p])].job] = "expired"
       THEN Goto(p, "doomed") /\ UNCHANGED todo
       ELSE Next1(p) /\ UNCHANGED at
    /\ UNCHANGED <<worldVars, page, cursor, more, faults, due>>

\* What is no zip is passed over; the object of a zip's job is asked, and the
\* zip is to go when the job expired or its object knows of none.
Ask(p) ==
    /\ Pending(p)
    /\ IF First(todo[p]) \in Zips /\ Over(First(todo[p]))
       THEN Goto(p, "doomed") /\ UNCHANGED todo
       ELSE Next1(p) /\ UNCHANGED at
    /\ UNCHANGED <<worldVars, page, cursor, more, faults, due>>

\* The call throws or its answer is corrupt: the next key.
AskFails(p) ==
    /\ Pending(p) /\ First(todo[p]) \in Zips
    /\ Fault(p)
    /\ Next1(p)
    /\ UNCHANGED <<worldVars, at, page, cursor, more>>

Delete(p) ==
    /\ at[p] = "doomed"
    /\ bucket' = bucket \ {First(todo[p])}
    /\ Goto(p, "scan") /\ Next1(p)
    /\ UNCHANGED <<puts, life, page, cursor, more, faults, due>>

\* A delete that throws (one that was done all the same is a Delete).
DeleteFails(p) ==
    /\ at[p] = "doomed"
    /\ Fault(p)
    /\ Goto(p, "scan") /\ Next1(p)
    /\ UNCHANGED <<worldVars, page, cursor, more>>

\* Mutant: one page more than SWEEP_MAX_PAGES.
EndPage_OneMore(p) ==
    /\ at[p] = "scan" /\ todo[p] = {}
    /\ Goto(p, IF more[p] /\ page[p] <= MaxPages THEN "list" ELSE "over")
    /\ UNCHANGED <<worldVars, page, cursor, todo, more, faults, due>>

\* The page is done: the next one, unless it was the last or one too many.
EndPage(p) ==
    /\ at[p] = "scan" /\ todo[p] = {}
    /\ Goto(p, IF more[p] /\ page[p] < MaxPages THEN "list" ELSE "over")
    /\ UNCHANGED <<worldVars, page, cursor, todo, more, faults, due>>

\* The summary is logged; the cron begins again at the first page.
End(p) ==
    /\ at[p] = "over"
    /\ Goto(p, "off")
    /\ page' = [page EXCEPT ![p] = 0]
    /\ cursor' = [cursor EXCEPT ![p] = 0]
    /\ todo' = [todo EXCEPT ![p] = {}]
    /\ more' = [more EXCEPT ![p] = FALSE]
    /\ due' = [due EXCEPT ![p] = {}]
    /\ UNCHANGED <<worldVars, faults>>

PassStep(p) == \/ Start(p) \/ List(p) \/ ListFails(p) \/ Ask(p) \/ AskFails(p)
               \/ Delete(p) \/ DeleteFails(p) \/ EndPage(p) \/ End(p)

Next == \/ \E p \in Passes : PassStep(p)
        \/ \E k \in Key : PutZip(k) \/ Removed(k)
        \/ \E j \in JobIds : Age(j)

(* The cron starts passes for ever and what a pass began goes on.  Jobs    *)
(* and consumers owe nothing.                                              *)
Spec == Init /\ [][Next]_sweepVars /\ \A p \in Passes : WF_sweepVars(PassStep(p))

-----------------------------------------------------------------------------
\* Properties.

(* sweepExpiredResults: "Nunca borra figure-v3.zip"; what its job's window *)
(* still covers stays, and so do photos, although the answer of the object *)
(* is old when the delete is sent.                                         *)
OnlyOverIsSwept ==
    [][\A p \in Passes : Delete(p) =>
         \A k \in bucket \ bucket' : k \in Zips /\ Over(k)]_sweepVars

(* A pass without a failure that saw the last page has removed every zip   *)
(* that was over when it began, although it and other passes deleted keys  *)
(* between two of its pages.                                               *)
PassIsComplete ==
    \A p \in Passes : at[p] = "over" /\ ~more[p] => due[p] \cap bucket = {}

(* A zip whose job is over does not stay, provided that the objects before *)
(* it that stay leave it within reach of a pass: the zips before it that   *)
(* are over go first, pass by pass.                                        *)
Stays(k) == k \notin Zips \/ ~Over(k)
InReach(k) == Cardinality({i \in bucket : i < k /\ Stays(i)}) < Limit * MaxPages
ZipsAreSwept ==
    \A k \in Zips : []<>~(k \in bucket /\ Over(k) /\ InReach(k))

(* The same without the proviso.  (Expected to fail.)                      *)
AllZipsAreSwept == \A k \in Zips : []<>~(k \in bucket /\ Over(k))

=============================================================================
