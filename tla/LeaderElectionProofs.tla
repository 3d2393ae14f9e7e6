------------------------- MODULE LeaderElectionProofs -------------------------
(***************************************************************************)
(* Invariants of LeaderElection for every set of contenders and every      *)
(* configuration that Config.validate accepts.                             *)
(***************************************************************************)
EXTENDS LeaderElection, TLAPS

CallPC == {"get", "create", "steal", "reacquire"}

-----------------------------------------------------------------------------
(* The inductive invariant.                                                *)

Types ==
    /\ holder \in Node \cup {NoNode}
    /\ age \in 0..AgeCap
    /\ current \subseteq Node
    /\ at \in [Node -> Contender]
    /\ lost \in [Node -> Nat]
    /\ faults \in 0..MaxFaults
    /\ stops \in 0..MaxStops

\* How the clocks of a contender hang together.  A leader's record has the age of its
\* attempt to renew at most.
ClocksOf(s) ==
    /\ s.timer <= RetryPeriod
    /\ s.spent <= RenewDeadline
    /\ s.pc \in CallPC => s.stamp <= MaxCall
    /\ s.pc \notin CallPC => s.stamp <= s.spent
    /\ s.pc \in LeadPC => s.timer < RetryPeriod
    /\ s.pc \notin {"renewGet", "renewPut"} => s.spent = 0
    /\ s.ticked => s.pc \in LeadPC

\* A leader without the record has been one for no longer than its timer shows, then
\* than a period, and in its last attempt than a period and what the attempt has taken.
LostOf(s, n) ==
    /\ s.pc \notin LeadPC => n = 0
    /\ s.pc = "lead" /\ ~s.ticked => n <= s.timer
    /\ s.pc = "lead" /\ s.ticked => n <= RetryPeriod
    /\ s.pc \in {"renewGet", "renewPut"} => n <= RetryPeriod + s.spent

\* What a Get has found holds while its revision is current.
GetHolds(c) ==
    /\ at[c].pc \in {"reacquire", "renewPut"} /\ c \in current => holder = c
    /\ at[c].pc = "steal" /\ c \in current => age > LeaseDuration

LeaderInv ==
    /\ Types
    /\ \A c \in Node : ClocksOf(at[c]) /\ LostOf(at[c], lost[c]) /\ GetHolds(c)
    /\ \A c \in Node : holder = c => lost[c] = 0

LEMMA LeaderInvInit == Init => LeaderInv
<1> SUFFICES ASSUME Init PROVE LeaderInv
  OBVIOUS
<1>1. Types
  BY LeaderElectionAssumption DEF Init, Types, Contender, Start, AgeCap
<1>2. ASSUME NEW c \in Node
      PROVE  ClocksOf(at[c]) /\ LostOf(at[c], lost[c]) /\ GetHolds(c)
  BY <1>2, LeaderElectionAssumption
     DEF Init, ClocksOf, LostOf, GetHolds, Start, CallPC, LeadPC
<1>3. \A c \in Node : lost[c] = 0
  BY DEF Init
<1> QED BY <1>1, <1>2, <1>3 DEF LeaderInv

\* One unit of time keeps a contender's clocks in order, and its lost time with them.
LEMMA LaterKeepsClocks ==
    ASSUME NEW s \in Contender, ClocksOf(s),
           s.pc \in CallPC => s.stamp < MaxCall,
           ~(s.pc = "lead" /\ s.ticked),
           s.pc \in {"renewGet", "renewPut"} => s.spent < RenewDeadline,
           NEW n \in Nat, LostOf(s, n)
    PROVE  /\ Later(s) \in Contender
           /\ Later(s).pc = s.pc
           /\ ClocksOf(Later(s))
           /\ LostOf(Later(s), n)
           /\ s.pc \in LeadPC => LostOf(Later(s), n + 1)
<1> USE LeaderElectionAssumption
<1>1. CASE s.pc \in CallPC
  <2>1. Later(s) = [s EXCEPT !.stamp = s.stamp + 1]
    BY <1>1 DEF Later, CallPC, LeadPC
  <2> QED BY <1>1, <2>1 DEF Contender, ClocksOf, LostOf, CallPC, LeadPC
<1>2. CASE s.pc = "sleep"
  <2>1. Later(s) = [s EXCEPT !.timer = IF s.timer < RetryPeriod THEN s.timer + 1 ELSE s.timer]
    BY <1>2 DEF Later, LeadPC
  <2> QED BY <1>2, <2>1 DEF Contender, ClocksOf, LostOf, CallPC, LeadPC
<1>3. CASE s.pc \in LeadPC
  <2> DEFINE fires == s.timer + 1 = RetryPeriod
  <2>0. Later(s) = [s EXCEPT !.timer = IF s.timer + 1 = RetryPeriod THEN 0 ELSE s.timer + 1,
                             !.ticked = s.ticked \/ s.timer + 1 = RetryPeriod,
                             !.spent = IF s.pc = "lead" THEN 0 ELSE s.spent + 1,
                             !.stamp = IF s.pc = "renewPut" THEN s.stamp + 1 ELSE 0]
    BY <1>3 DEF Later, LeadPC
  <2>1. /\ Later(s).timer = IF fires THEN 0 ELSE s.timer + 1
        /\ Later(s).spent = IF s.pc = "lead" THEN 0 ELSE s.spent + 1
        /\ Later(s).stamp = IF s.pc = "renewPut" THEN s.stamp + 1 ELSE 0
        /\ Later(s).pc = s.pc
    BY <2>0 DEF Contender
  <2>2. /\ Later(s).ticked <=> s.ticked \/ fires
        /\ Later(s).ticked \in BOOLEAN
    BY <2>0, Zenon DEF Contender
  <2>3. Later(s) \in Contender
    <3> DEFINE k == s.ticked \/ fires
               t == IF fires THEN 0 ELSE s.timer + 1
               p == IF s.pc = "lead" THEN 0 ELSE s.spent + 1
               u == IF s.pc = "renewPut" THEN s.stamp + 1 ELSE 0
    <3>1. k \in BOOLEAN /\ t \in Nat /\ p \in Nat /\ u \in Nat
      BY DEF Contender
    <3>2. Later(s) = [s EXCEPT !.timer = t, !.ticked = k, !.spent = p, !.stamp = u]
      BY <2>0
    <3> HIDE DEF k, t, p, u
    <3> QED BY <3>1, <3>2 DEF Contender
  <2>4. ClocksOf(Later(s))
    BY <1>3, <2>1, <2>2 DEF ClocksOf, Contender, CallPC, LeadPC
  <2>5. LostOf(Later(s), n) /\ LostOf(Later(s), n + 1)
    BY <1>3, <2>1, <2>2 DEF ClocksOf, LostOf, Contender, CallPC, LeadPC
  <2> QED BY <2>1, <2>3, <2>4, <2>5
<1>5. CASE s.pc \in {"idle", "stopped"}
  <2>1. Later(s) = s
    BY <1>5 DEF Later, LeadPC
  <2> QED BY <1>5, <2>1 DEF Contender, ClocksOf, LostOf, CallPC, LeadPC
<1> QED BY <1>1, <1>2, <1>3, <1>5 DEF Contender, CallPC, LeadPC

-----------------------------------------------------------------------------
(* Steps of one contender.                                                 *)

\* What a step of c leaves true of the record for the others: their revision is current
\* only if it was and the record is the same, and it names them only if it did.
RecordKept(c) ==
    /\ holder' \in Node \cup {NoNode}
    /\ age' \in 0..AgeCap
    /\ current' \subseteq Node
    /\ \A d \in Node \ {c} : d \in current' => d \in current /\ UNCHANGED <<holder, age>>
    /\ \A d \in Node \ {c} : holder' = d => holder = d

LEMMA StartInOrder ==
    ASSUME NEW pc \in {"idle", "get", "create", "reacquire", "steal", "sleep", "lead",
                       "renewGet", "renewPut", "stopped"}
    PROVE  Start(pc) \in Contender /\ Start(pc).pc = pc /\ ClocksOf(Start(pc)) /\ LostOf(Start(pc), 0)
<1>1. /\ Start(pc) \in Contender
      /\ Start(pc).pc = pc /\ Start(pc).stamp = 0 /\ Start(pc).timer = 0
      /\ Start(pc).spent = 0 /\ ~Start(pc).ticked
  BY DEF Start, Contender
<1> QED BY <1>1, LeaderElectionAssumption DEF ClocksOf, LostOf, CallPC

\* A Put of c, applied or not, takes the record only from a holder that has expired, and
\* gives it only to a contender that is not a leader without it.
LEMMA PutKeepsRecord ==
    ASSUME LeaderInv, NEW c \in Node, MayWrite(c)
    PROVE  /\ RecordKept(c)
           /\ holder' = c => lost[c] = 0
           /\ current' \subseteq current
           /\ holder' # holder /\ holder # NoNode => age > LeaseDuration
<1> USE LeaderElectionAssumption
<1>0. /\ Types /\ ClocksOf(at[c]) /\ LostOf(at[c], lost[c]) /\ GetHolds(c)
      /\ holder = c => lost[c] = 0
      /\ at[c] \in Contender
  BY DEF LeaderInv, Types
<1>1. CASE UNCHANGED recordVars
  BY <1>0, <1>1 DEF RecordKept, Types, recordVars
<1>2. CASE at[c].pc \in PutPC /\ PutMatches(c) /\ Write(c)
  <2>1. holder' = c /\ age' = at[c].stamp /\ current' = {} /\ c # NoNode
    BY <1>2 DEF Write
  <2>2. at[c].stamp \in 0..AgeCap
    <3>1. at[c].stamp \in Nat /\ at[c].spent \in Nat
      BY <1>0 DEF Contender
    <3>2. at[c].stamp <= MaxCall \/ at[c].stamp <= RenewDeadline
      BY <1>0, <3>1 DEF ClocksOf
    <3> QED BY <3>1, <3>2 DEF AgeCap
  <2>3. RecordKept(c)
    BY <2>1, <2>2 DEF RecordKept
  <2>4. /\ at[c].pc = "create" => holder = NoNode
        /\ at[c].pc \in {"reacquire", "renewPut"} => holder = c
        /\ at[c].pc = "steal" => age > LeaseDuration
        /\ at[c].pc \in {"create", "reacquire", "steal", "renewPut"}
    BY <1>0, <1>2 DEF PutMatches, GetHolds, PutPC
  <2>5. lost[c] = 0
    BY <1>0, <2>4 DEF LostOf, LeadPC
  <2> QED BY <2>1, <2>3, <2>4, <2>5
<1> QED BY <1>1, <1>2 DEF MayWrite

LEMMA StepOfOne ==
    ASSUME LeaderInv, NEW c \in Node, RecordKept(c),
           NEW s \in Contender, at' = [at EXCEPT ![c] = s], ClocksOf(s),
           NEW n \in Nat, lost' = [lost EXCEPT ![c] = n], LostOf(s, n),
           holder' = c => n = 0,
           GetHolds(c)',
           faults' \in 0..MaxFaults, stops' \in 0..MaxStops
    PROVE  LeaderInv'
<1>0. Types /\ at'[c] = s /\ lost'[c] = n
  BY DEF LeaderInv, Types
<1>1. Types'
  BY <1>0 DEF Types, RecordKept
<1>2. ASSUME NEW d \in Node PROVE ClocksOf(at'[d]) /\ LostOf(at'[d], lost'[d]) /\ GetHolds(d)'
  <2>1. CASE d = c
    BY <1>0, <2>1
  <2>2. CASE d # c
    <3>1. at'[d] = at[d] /\ lost'[d] = lost[d]
      BY <1>0, <2>2 DEF Types
    <3>2. ClocksOf(at[d]) /\ LostOf(at[d], lost[d]) /\ GetHolds(d)
      BY DEF LeaderInv
    <3>3. d \in current' => d \in current /\ holder' = holder /\ age' = age
      BY <2>2 DEF RecordKept
    <3> QED BY <3>1, <3>2, <3>3 DEF GetHolds
  <2> QED BY <2>1, <2>2
<1>3. ASSUME NEW d \in Node, holder' = d PROVE lost'[d] = 0
  <2>1. CASE d = c
    BY <1>0, <1>3, <2>1
  <2>2. CASE d # c
    <3>1. holder = d
      BY <1>3, <2>2 DEF RecordKept
    <3> QED BY <1>0, <2>2, <3>1 DEF Types, LeaderInv
  <2> QED BY <2>1, <2>2
<1> QED BY <1>1, <1>2, <1>3 DEF LeaderInv

LEMMA LeaderInvStep == LeaderInv /\ [Next]_vars => LeaderInv'
<1> SUFFICES ASSUME LeaderInv, [Next]_vars PROVE LeaderInv'
  OBVIOUS
<1> USE LeaderElectionAssumption
<1>0. /\ Types
      /\ \A c \in Node : /\ ClocksOf(at[c]) /\ LostOf(at[c], lost[c]) /\ GetHolds(c)
                         /\ at[c] \in Contender /\ lost[c] \in Nat
                         /\ holder = c => lost[c] = 0
      /\ faults \in 0..MaxFaults /\ stops \in 0..MaxStops
      /\ lost = [c \in Node |-> lost[c]]
  BY DEF LeaderInv, Types
<1>a. ASSUME NEW c \in Node PROVE lost = [lost EXCEPT ![c] = lost[c]]
  BY <1>0
<1>b. ASSUME NEW c \in Node, UNCHANGED recordVars
      PROVE  RecordKept(c) /\ (holder' = c => lost[c] = 0)
  BY <1>0, <1>b DEF RecordKept, recordVars, Types
<1>1. ASSUME NEW c \in Node, Acquire(c) PROVE LeaderInv'
  <2>1. /\ at' = [at EXCEPT ![c] = Start("get")] /\ UNCHANGED recordVars
        /\ lost' = [lost EXCEPT ![c] = lost[c]] /\ lost[c] = 0
        /\ UNCHANGED <<faults, stops>>
    BY <1>0, <1>1, <1>a DEF Acquire, Become, LostOf, LeadPC
  <2>2. GetHolds(c)'
    BY <1>0, <2>1, StartInOrder DEF GetHolds, Types
  <2> QED BY <1>0, <1>b, <2>1, <2>2, StartInOrder, StepOfOne
<1>2. ASSUME NEW c \in Node, GetAnswers(c) PROVE LeaderInv'
  <2>1. /\ at[c].pc = "get" /\ lost[c] = 0 /\ lost' = [lost EXCEPT ![c] = lost[c]]
        /\ UNCHANGED <<holder, age, faults, stops>>
    BY <1>0, <1>2, <1>a DEF GetAnswers, LostOf, LeadPC
  <2>2. RecordKept(c) /\ (holder' = c => lost[c] = 0)
    BY <1>0, <1>2, <2>1 DEF GetAnswers, RecordKept, Types
  <2>3. ASSUME NEW pc \in {"create", "reacquire", "steal"}, Proceed(c, pc),
               pc = "reacquire" => holder = c,
               pc = "steal" => Expired(c)
        PROVE  LeaderInv'
    <3> DEFINE s == [at[c] EXCEPT !.pc = pc]
    <3>1. at' = [at EXCEPT ![c] = s]
      BY <2>3 DEF Proceed
    <3>2. /\ s \in Contender /\ s.pc = pc /\ s.stamp = at[c].stamp /\ s.timer = at[c].timer
          /\ s.spent = at[c].spent /\ (s.ticked <=> at[c].ticked)
      BY <1>0, <2>3 DEF Contender
    <3> HIDE DEF s
    <3>3. ClocksOf(s) /\ LostOf(s, 0)
      BY <1>0, <2>1, <2>3, <3>2 DEF ClocksOf, LostOf, CallPC, LeadPC
    <3>4. GetHolds(c)'
      BY <1>0, <2>1, <2>3, <3>1, <3>2 DEF GetHolds, Expired, Types, Contender
    <3> QED BY <1>0, <2>1, <2>2, <3>1, <3>2, <3>3, <3>4, StepOfOne
  <2>4. ASSUME Become(c, Start("sleep")) PROVE LeaderInv'
    <3>1. at' = [at EXCEPT ![c] = Start("sleep")]
      BY <2>4 DEF Become
    <3>2. GetHolds(c)'
      BY <1>0, <3>1, StartInOrder DEF GetHolds, Types
    <3> QED BY <1>0, <2>1, <2>2, <3>1, <3>2, StartInOrder, StepOfOne
  <2> QED BY <1>2, <2>3, <2>4 DEF GetAnswers
<1>3. ASSUME NEW c \in Node, TakePut(c) \/ ReacquirePut(c) PROVE LeaderInv'
  <2>1. MayWrite(c) /\ at[c].pc \in CallPC /\ UNCHANGED <<faults, stops>>
    BY <1>3 DEF TakePut, ReacquirePut, MayWrite, PutPC, CallPC, PutMatches
  <2>2. PICK pc \in {"lead", "sleep"} : at' = [at EXCEPT ![c] = Start(pc)]
    BY <1>3 DEF TakePut, ReacquirePut, Become
  <2>3. lost[c] = 0 /\ lost' = [lost EXCEPT ![c] = lost[c]]
    BY <1>0, <1>3, <1>a, <2>1 DEF TakePut, ReacquirePut, LostOf, CallPC, LeadPC
  <2>4. GetHolds(c)'
    BY <1>0, <2>2, StartInOrder DEF GetHolds, Types
  <2> QED BY <1>0, <2>1, <2>2, <2>3, <2>4, StartInOrder, PutKeepsRecord, StepOfOne
<1>4. ASSUME NEW c \in Node, AcquireFails(c) PROVE LeaderInv'
  <2>1. MayWrite(c) /\ at[c].pc \in CallPC /\ faults' \in 0..MaxFaults /\ UNCHANGED stops
    BY <1>0, <1>4 DEF AcquireFails, CallPC
  <2>2. PICK pc \in {"lead", "sleep"} : at' = [at EXCEPT ![c] = Start(pc)]
    BY <1>4 DEF AcquireFails, Become
  <2>3. lost[c] = 0 /\ lost' = [lost EXCEPT ![c] = lost[c]]
    BY <1>0, <1>4, <1>a, <2>1 DEF AcquireFails, LostOf, CallPC, LeadPC
  <2>4. GetHolds(c)'
    BY <1>0, <2>2, StartInOrder DEF GetHolds, Types
  <2> QED BY <1>0, <2>1, <2>2, <2>3, <2>4, StartInOrder, PutKeepsRecord, StepOfOne
<1>5. ASSUME NEW c \in Node, Wakes(c) PROVE LeaderInv'
  <2>1. /\ at' = [at EXCEPT ![c] = Start("idle")] /\ UNCHANGED recordVars
        /\ lost' = [lost EXCEPT ![c] = lost[c]] /\ lost[c] = 0
        /\ UNCHANGED <<faults, stops>>
    BY <1>0, <1>5, <1>a DEF Wakes, Become, LostOf, LeadPC
  <2>2. GetHolds(c)'
    BY <1>0, <2>1, StartInOrder DEF GetHolds, Types
  <2> QED BY <1>0, <1>b, <2>1, <2>2, StartInOrder, StepOfOne
<1>6. ASSUME NEW c \in Node, RenewStarts(c) PROVE LeaderInv'
  <2> DEFINE s == [at[c] EXCEPT !.pc = "renewGet", !.ticked = FALSE]
  <2>1. /\ at[c].pc = "lead" /\ at[c].ticked /\ at' = [at EXCEPT ![c] = s]
        /\ lost' = [lost EXCEPT ![c] = lost[c]] /\ UNCHANGED <<recordVars, faults, stops>>
    BY <1>6, <1>a DEF RenewStarts
  <2>2. /\ s \in Contender /\ s.pc = "renewGet" /\ ~s.ticked /\ s.stamp = at[c].stamp
        /\ s.timer = at[c].timer /\ s.spent = at[c].spent
    BY <1>0 DEF Contender
  <2> HIDE DEF s
  <2>3. ClocksOf(s) /\ LostOf(s, lost[c])
    BY <1>0, <2>1, <2>2 DEF ClocksOf, LostOf, CallPC, LeadPC, Contender
  <2>4. GetHolds(c)'
    BY <1>0, <2>1, <2>2 DEF GetHolds, Types
  <2> QED BY <1>0, <1>b, <2>1, <2>2, <2>3, <2>4, StepOfOne
<1>7. ASSUME NEW c \in Node, UNCHANGED <<holder, age>>, StopLeading(c), RecordKept(c),
             UNCHANGED <<faults, stops>>
      PROVE  LeaderInv'
  <2>1. at' = [at EXCEPT ![c] = Start("idle")] /\ lost' = [lost EXCEPT ![c] = 0]
    BY <1>7 DEF StopLeading, Become
  <2>2. GetHolds(c)'
    BY <1>0, <2>1, StartInOrder DEF GetHolds, Types
  <2> QED BY <1>0, <1>7, <2>1, <2>2, StartInOrder, StepOfOne
<1>8. ASSUME NEW c \in Node, RenewGet(c) PROVE LeaderInv'
  <2>1. CASE holder = c
    <3> DEFINE s == [at[c] EXCEPT !.pc = "renewPut"]
    <3>1. /\ at[c].pc = "renewGet" /\ at' = [at EXCEPT ![c] = s]
          /\ current' = current \cup {c} /\ UNCHANGED <<holder, age, faults, stops>>
          /\ lost' = [lost EXCEPT ![c] = lost[c]] /\ lost[c] = 0
      BY <1>0, <1>8, <1>a, <2>1 DEF RenewGet, Proceed
    <3>2. /\ s \in Contender /\ s.pc = "renewPut" /\ s.stamp = at[c].stamp
          /\ s.timer = at[c].timer /\ s.spent = at[c].spent /\ (s.ticked <=> at[c].ticked)
      BY <1>0 DEF Contender
    <3> HIDE DEF s
    <3>3. ClocksOf(s) /\ LostOf(s, 0)
      BY <1>0, <3>1, <3>2 DEF ClocksOf, LostOf, CallPC, LeadPC, Contender
    <3>4. GetHolds(c)' /\ RecordKept(c)
      BY <1>0, <2>1, <3>1, <3>2 DEF GetHolds, RecordKept, Types
    <3> QED BY <1>0, <3>1, <3>2, <3>3, <3>4, StepOfOne
  <2>2. CASE holder # c
    <3>1. StopLeading(c) /\ UNCHANGED <<holder, age, current, faults, stops>>
      BY <1>8, <2>2 DEF RenewGet
    <3> QED BY <1>7, <1>b, <3>1 DEF recordVars
  <2> QED BY <2>1, <2>2
<1>9. ASSUME NEW c \in Node, RenewPut(c) PROVE LeaderInv'
  <2>0. at[c].pc = "renewPut" /\ UNCHANGED <<faults, stops>>
    BY <1>9 DEF RenewPut
  <2>1. CASE PutMatches(c)
    <3> DEFINE s == [at[c] EXCEPT !.pc = "lead", !.stamp = 0, !.spent = 0]
    <3>1. /\ MayWrite(c) /\ holder' = c /\ at' = [at EXCEPT ![c] = s]
          /\ lost' = [lost EXCEPT ![c] = lost[c]]
      BY <1>9, <1>a, <2>0, <2>1 DEF RenewPut, MayWrite, PutPC, Write
    <3>2. /\ s \in Contender /\ s.pc = "lead" /\ s.stamp = 0
          /\ s.timer = at[c].timer /\ s.spent = 0 /\ (s.ticked <=> at[c].ticked)
      BY <1>0 DEF Contender
    <3> HIDE DEF s
    <3>3. lost[c] = 0
      BY <3>1, PutKeepsRecord
    <3>4. ClocksOf(s) /\ LostOf(s, 0)
      BY <1>0, <2>0, <3>2 DEF ClocksOf, LostOf, CallPC, LeadPC, Contender
    <3>5. GetHolds(c)'
      BY <1>0, <3>1, <3>2 DEF GetHolds, Types
    <3> QED BY <1>0, <2>0, <3>1, <3>2, <3>3, <3>4, <3>5, PutKeepsRecord, StepOfOne
  <2>2. CASE ~PutMatches(c)
    <3>1. StopLeading(c) /\ UNCHANGED recordVars
      BY <1>9, <2>2 DEF RenewPut
    <3> QED BY <1>7, <1>b, <2>0, <3>1 DEF recordVars
  <2> QED BY <2>1, <2>2
<1>10. ASSUME NEW c \in Node, RenewFails(c) PROVE LeaderInv'
  <2>1. /\ MayWrite(c) /\ at' = [at EXCEPT ![c] = Start("idle")] /\ UNCHANGED stops
        /\ lost' = [lost EXCEPT ![c] = 0] /\ faults' \in 0..MaxFaults
    BY <1>0, <1>10 DEF RenewFails, StopLeading, Become
  <2>2. GetHolds(c)'
    BY <1>0, <2>1, StartInOrder DEF GetHolds, Types
  <2> QED BY <1>0, <2>1, <2>2, StartInOrder, PutKeepsRecord, StepOfOne
<1>11. ASSUME NEW c \in Node, Stop(c) PROVE LeaderInv'
  <2>1. /\ MayWrite(c) /\ at' = [at EXCEPT ![c] = Start("stopped")] /\ UNCHANGED faults
        /\ lost' = [lost EXCEPT ![c] = 0] /\ stops' \in 0..MaxStops
    BY <1>0, <1>11 DEF Stop, Become
  <2>2. GetHolds(c)'
    BY <1>0, <2>1, StartInOrder DEF GetHolds, Types
  <2> QED BY <1>0, <2>1, <2>2, StartInOrder, PutKeepsRecord, StepOfOne
<1>12. ASSUME Tick PROVE LeaderInv'
  <2>1. /\ at' = [c \in Node |-> Later(at[c])]
        /\ age' = IF age < AgeCap /\ holder # NoNode THEN age + 1 ELSE age
        /\ lost' = [c \in Node |->
                      IF Leading(c) /\ holder # c /\ lost[c] <= OverlapBound
                      THEN lost[c] + 1 ELSE lost[c]]
        /\ UNCHANGED <<holder, current, faults, stops>>
    BY <1>12 DEF Tick
  <2>2. ASSUME NEW c \in Node
        PROVE  /\ Later(at[c]) \in Contender
               /\ Later(at[c]).pc = at[c].pc
               /\ ClocksOf(Later(at[c]))
               /\ LostOf(Later(at[c]), lost[c])
               /\ Leading(c) => LostOf(Later(at[c]), lost[c] + 1)
    BY <1>0, <1>12, LaterKeepsClocks DEF Tick, CallPC, Leading
  <2>3. age \in Nat /\ age' \in 0..AgeCap /\ age' >= age
    BY <1>0, <2>1 DEF Types, AgeCap
  <2>4. Types'
    BY <1>0, <2>1, <2>2, <2>3 DEF Types
  <2>5. ASSUME NEW c \in Node PROVE ClocksOf(at'[c]) /\ LostOf(at'[c], lost'[c]) /\ GetHolds(c)'
    <3>1. at'[c] = Later(at[c]) /\ lost'[c] \in {lost[c], lost[c] + 1}
          /\ (lost'[c] # lost[c] => Leading(c))
      BY <2>1
    <3>2. GetHolds(c)'
      BY <1>0, <2>1, <2>2, <2>3, <3>1 DEF GetHolds
    <3> QED BY <2>2, <3>1, <3>2
  <2>6. \A c \in Node : holder' = c => lost'[c] = 0
    BY <1>0, <2>1
  <2> QED BY <2>4, <2>5, <2>6 DEF LeaderInv
<1>13. ASSUME UNCHANGED vars PROVE LeaderInv'
  BY <1>0, <1>13 DEF vars, recordVars, LeaderInv, Types, GetHolds
<1> QED
  BY <1>1, <1>2, <1>3, <1>4, <1>5, <1>6, <1>8, <1>9, <1>10, <1>11, <1>12, <1>13 DEF Next, Step

\* The invariant holds in every reachable state.
LEMMA LeaderInvHolds == Spec => []LeaderInv
<1> QED BY LeaderInvInit, LeaderInvStep, PTL DEF Spec

-----------------------------------------------------------------------------
(* What follows.                                                           *)

LEMMA BoundsFollow ==
    ASSUME LeaderInv, NEW c \in Node
    PROVE  /\ lost[c] \in 0..OverlapBound
           /\ at[c].stamp <= IF Leading(c) THEN RenewDeadline ELSE MaxCall
<1> USE LeaderElectionAssumption
<1>1. /\ at[c] \in Contender /\ lost[c] \in Nat
      /\ ClocksOf(at[c]) /\ LostOf(at[c], lost[c])
  BY DEF LeaderInv, Types
<1>2. lost[c] <= OverlapBound
  BY <1>1 DEF ClocksOf, LostOf, Contender, OverlapBound, LeadPC
<1>3. at[c].stamp <= IF Leading(c) THEN RenewDeadline ELSE MaxCall
  BY <1>1 DEF ClocksOf, Contender, Leading, LeadPC, CallPC
<1> QED BY <1>1, <1>2, <1>3 DEF OverlapBound

\* The clocks of every contender stay within their bounds: no call of acquire outlasts
\* MaxCall, no attempt to renew RenewDeadline, and the record's age stays below its cap.
THEOREM TypeCorrect == Spec => []TypeOK
<1>1. ASSUME LeaderInv PROVE TypeOK
  <2>1. Types /\ \A c \in Node : ClocksOf(at[c])
    BY <1>1 DEF LeaderInv
  <2>2. \A c \in Node : /\ at[c].stamp <= IF Leading(c) THEN RenewDeadline ELSE MaxCall
                        /\ lost[c] \in 0..OverlapBound + 1
    BY <1>1, BoundsFollow, LeaderElectionAssumption DEF OverlapBound
  <2>3. \A c \in Node : /\ at[c].spent <= RenewDeadline
                        /\ at[c].timer <= RetryPeriod
                        /\ at[c].ticked => Leading(c)
    BY <2>1 DEF ClocksOf, Leading
  <2>4. lost \in [Node -> 0..OverlapBound + 1]
    BY <2>1, <2>2 DEF Types
  <2> QED BY <2>1, <2>2, <2>3, <2>4 DEF Types, TypeOK
<1> QED BY <1>1, LeaderInvHolds, PTL

\* Two leaders do not last: a leader without the record leads for RetryPeriod and
\* RenewDeadline at most, whatever calls were slow, failed or half applied.
THEOREM OverlapsAreBrief == Spec => []OverlapIsBrief
<1>1. ASSUME LeaderInv PROVE OverlapIsBrief
  BY <1>1, BoundsFollow, LeaderElectionAssumption DEF OverlapIsBrief, OverlapBound
<1> QED BY <1>1, LeaderInvHolds, PTL

\* The lock changes hands only after the holder's lease has run out.
THEOREM StealsOnlyExpired == Spec => OnlyExpiredIsStolen
<1> DEFINE Steals == holder' # holder /\ holder # NoNode => age > LeaseDuration
<1>1. ASSUME LeaderInv, [Next]_vars PROVE [Steals]_vars
  <2>1. CASE UNCHANGED holder
    BY <2>1
  <2>2. ASSUME NEW c \in Node, MayWrite(c) PROVE Steals
    BY <1>1, <2>2, PutKeepsRecord
  <2>3. ASSUME NEW c \in Node,
               TakePut(c) \/ ReacquirePut(c) \/ AcquireFails(c) \/ RenewPut(c)
               \/ RenewFails(c) \/ Stop(c)
        PROVE  MayWrite(c)
    BY <2>3 DEF TakePut, ReacquirePut, AcquireFails, RenewPut, RenewFails, Stop, MayWrite,
                PutPC, PutMatches
  <2>4. ASSUME NEW c \in Node,
               Acquire(c) \/ GetAnswers(c) \/ Wakes(c) \/ RenewStarts(c) \/ RenewGet(c)
        PROVE  UNCHANGED holder
    BY <2>4 DEF Acquire, GetAnswers, Wakes, RenewStarts, RenewGet, recordVars
  <2>5. Tick \/ UNCHANGED vars => UNCHANGED holder
    BY DEF Tick, vars, recordVars
  <2> QED BY <1>1, <2>1, <2>2, <2>3, <2>4, <2>5 DEF Next, Step
<1>2. Spec => [][Steals]_vars
  BY <1>1, LeaderInvHolds, PTL DEF Spec
<1> QED BY <1>2 DEF OnlyExpiredIsStolen
==============================================================================
