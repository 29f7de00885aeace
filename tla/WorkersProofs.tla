--------------------------- MODULE WorkersProofs ---------------------------
(***************************************************************************)
(* The workers of the application: how stale a cached Betfair session can  *)
(* be, for any number of callers and any times; the table of teams, for    *)
(* any names and any number of monitors; the passes of OddsWorker, for any *)
(* events, windows and periods; and the import of markets, for any         *)
(* catalogue, any number of threads and any number of performs that raise. *)
(***************************************************************************)
EXTENDS MCWorkers, SequenceTheorems, FiniteSetTheorems, TLAPS

-----------------------------------------------------------------------------
(* The session *)

USE TimesAssumption, NilAssumption

(* Each call alone: it is no older than MaxCall, an answer was given after *)
(* the call began, and a row that has been loaded has a time.              *)
CallInv(c) ==
    /\ call[c].pc \in Busy => call[c].start <= now /\ now <= call[c].start + MaxCall
    /\ call[c].pc \in {"answered", "loaded"} =>
          call[c].start <= call[c].session.issued /\ call[c].session.issued <= now
    /\ call[c].pc = "loaded" => /\ call[c].stamp <= now
                                /\ ~call[c].dirty => account.time # Nil
    /\ call[c].pc = "cached" => call[c].start < account.ssoid.issued + TTL + MaxCall
    /\ call[c].pc = "done" => call[c].at < call[c].session.issued + TTL + 2 * MaxCall

(* StampNearIssue needs to know that nothing in the row lies in the future *)
(* and what each call in progress will do to the row.                      *)
IInv ==
    /\ TypeOK
    /\ StampNearIssue
    /\ account.time # Nil => account.time <= now
    /\ \A c \in Callers : CallInv(c)

LEMMA InitIInv == Init => IInv
BY DEF Init, IInv, TypeOK, StampNearIssue, CallInv, NoCall, NoSession, Account, Session, Call, Busy

(* A step of caller c that leaves the row alone only has to restore the    *)
(* facts about c.                                                          *)
LEMMA OwnStep ==
    ASSUME IInv, NEW c \in Callers, UNCHANGED <<now, account>>,
           NEW r \in Call, call' = [call EXCEPT ![c] = r],
           r.pc \in Busy => now - r.start <= MaxCall,
           CallInv(c)'
    PROVE  IInv'
<1>1. \A d \in Callers : d # c => call'[d] = call[d]
  BY DEF IInv, TypeOK
<1>2. call' \in [Callers -> Call] /\ call'[c] = r
  BY DEF IInv, TypeOK
<1>3. TypeOK'
  BY <1>1, <1>2 DEF IInv, TypeOK
<1>4. \A d \in Callers : CallInv(d)'
  BY <1>1 DEF IInv, CallInv
<1> QED BY <1>3, <1>4 DEF IInv, StampNearIssue

LEMMA StepIInv == IInv /\ [Next]_vars => IInv'
<1> SUFFICES ASSUME IInv, [Next]_vars PROVE IInv'
  OBVIOUS
<1>0. /\ now \in Nat /\ call \in [Callers -> Call] /\ account \in Account
      /\ \A c \in Callers : CallInv(c)
      /\ \A c \in Callers : call[c].pc \in Busy => now - call[c].start <= MaxCall
  BY DEF IInv, TypeOK
<1>1. CASE Tick
  <2>1. TypeOK'
    BY <1>0, <1>1 DEF Tick, TypeOK, IInv, Call
  <2>2. \A c \in Callers : CallInv(c)'
    BY <1>0, <1>1 DEF Tick, CallInv, Call, Busy, Session
  <2>3. StampNearIssue' /\ (account.time # Nil => account.time <= now)'
    BY <1>0, <1>1 DEF Tick, IInv, StampNearIssue, Account
  <2> QED BY <2>1, <2>2, <2>3 DEF IInv
<1>2. ASSUME NEW c \in Callers, Check(c) PROVE IInv'
  <2> DEFINE r == [call[c] EXCEPT !.pc = IF ValidSsoid THEN "cached" ELSE "login", !.start = now]
  <2>1. r \in Call /\ r.start = now
    BY <1>0 DEF Call, Busy
  <2>2. call' = [call EXCEPT ![c] = r] /\ call'[c] = r
    BY <1>0, <1>2 DEF Check
  <2>3. CallInv(c)'
    <3>1. CASE ValidSsoid
      <4>1. now < account.ssoid.issued + TTL + MaxCall
        BY <1>0, <3>1 DEF ValidSsoid, IInv, StampNearIssue, Account, Session
      <4>2. r.pc = "cached"
        BY <3>1, <1>0 DEF Call
      <4>3. now' = now /\ account' = account /\ call'[c].pc = "cached" /\ call'[c].start = now
        BY <1>2, <2>1, <2>2, <4>2 DEF Check
      <4> QED BY <1>0, <4>1, <4>3 DEF CallInv
    <3>2. CASE ~ValidSsoid
      <4>1. r.pc = "login"
        BY <3>2, <1>0 DEF Call
      <4> QED BY <1>0, <1>2, <2>1, <2>2, <4>1 DEF CallInv, Check, Busy
    <3> QED BY <3>1, <3>2
  <2>4. now - r.start <= MaxCall
    BY <1>0, <2>1
  <2>5. UNCHANGED <<now, account>>
    BY <1>2 DEF Check
  <2> HIDE DEF r
  <2> QED BY <2>1, <2>2, <2>3, <2>4, <2>5, OwnStep
<1>3. ASSUME NEW c \in Callers, ReadCached(c) PROVE IInv'
  <2> DEFINE r == [call[c] EXCEPT !.pc = "done", !.session = account.ssoid, !.at = now]
  <2>1. r \in Call /\ r.pc = "done" /\ r.session = account.ssoid /\ r.at = now
    BY <1>0 DEF Call, Account
  <2>2. call' = [call EXCEPT ![c] = r] /\ call'[c] = r
    BY <1>0, <1>3 DEF ReadCached
  <2>3. now < account.ssoid.issued + TTL + 2 * MaxCall
    BY <1>0, <1>3 DEF ReadCached, CallInv, Account, Session, Busy, Call
  <2>4. CallInv(c)'
    BY <1>3, <2>1, <2>2, <2>3 DEF CallInv, ReadCached, Busy
  <2> QED BY <1>3, <2>1, <2>2, <2>4, OwnStep DEF ReadCached, Busy
<1>4. ASSUME NEW c \in Callers, NEW ok \in BOOLEAN, PostLogin(c, ok) PROVE IInv'
  <2> DEFINE r == [call[c] EXCEPT !.pc = "answered", !.session = [ok |-> ok, issued |-> now]]
  <2>1. r \in Call /\ r.pc = "answered" /\ r.session.issued = now /\ r.start = call[c].start
    BY <1>0 DEF Call, Session, Busy
  <2>2. call' = [call EXCEPT ![c] = r] /\ call'[c] = r
    BY <1>0, <1>4 DEF PostLogin
  <2>3. call[c].start <= now /\ now <= call[c].start + MaxCall /\ now - r.start <= MaxCall
    BY <1>0, <1>4, <2>1 DEF PostLogin, CallInv, Busy
  <2>4. CallInv(c)'
    BY <1>0, <1>4, <2>1, <2>2, <2>3 DEF CallInv, PostLogin, Busy
  <2> QED BY <1>4, <2>1, <2>2, <2>3, <2>4, OwnStep DEF PostLogin
<1>5. ASSUME NEW c \in Callers, LoadAccount(c) PROVE IInv'
  <2> DEFINE r == [call[c] EXCEPT !.pc = "loaded", !.stamp = now, !.dirty = (account.time # now)]
  <2>1. /\ r \in Call /\ r.pc = "loaded" /\ r.start = call[c].start
        /\ r.session = call[c].session /\ r.stamp = now
    BY <1>0 DEF Call, Busy
  <2>a. ~r.dirty => account.time # Nil
    BY <1>0 DEF Call
  <2>2. call' = [call EXCEPT ![c] = r] /\ call'[c] = r
    BY <1>0, <1>5 DEF LoadAccount
  <2>3. /\ call[c].start <= now /\ now <= call[c].start + MaxCall /\ now - r.start <= MaxCall
        /\ call[c].start <= call[c].session.issued /\ call[c].session.issued <= now
    BY <1>0, <1>5, <2>1 DEF LoadAccount, CallInv, Busy
  <2>4. CallInv(c)'
    BY <1>0, <1>5, <2>1, <2>a, <2>2, <2>3 DEF CallInv, LoadAccount, Busy
  <2> QED BY <1>5, <2>1, <2>2, <2>3, <2>4, OwnStep DEF LoadAccount
<1>6. ASSUME NEW c \in Callers, SaveAccount(c) PROVE IInv'
  <2>1. /\ call[c].start <= now /\ now <= call[c].start + MaxCall
        /\ call[c].start <= call[c].session.issued /\ call[c].session.issued <= now
        /\ call[c].stamp <= now /\ (~call[c].dirty => account.time # Nil)
        /\ call[c].session \in Session /\ call[c].stamp \in Nat /\ call[c].start \in Nat
    BY <1>0, <1>6 DEF SaveAccount, CallInv, Busy, Call
  <2>2. /\ account'.ssoid = call[c].session
        /\ account'.time \in Nat
        /\ account'.time <= now
        /\ account' \in Account
    BY <1>0, <1>6, <2>1 DEF SaveAccount, Account, IInv
  <2>3. StampNearIssue'
    BY <1>0, <2>1, <2>2 DEF StampNearIssue, Session
  <2> DEFINE r == [call[c] EXCEPT !.pc = "done", !.at = now]
  <2>4. r \in Call /\ r.pc = "done" /\ r.at = now /\ r.session = call[c].session
    BY <1>0 DEF Call
  <2>5. call' = [call EXCEPT ![c] = r] /\ call'[c] = r /\ now' = now
    BY <1>0, <1>6 DEF SaveAccount
  <2>6. TypeOK'
    BY <1>0, <2>2, <2>4, <2>5 DEF TypeOK, Busy
  <2>7. CallInv(c)'
    BY <1>0, <2>1, <2>4, <2>5 DEF CallInv, Busy, Session
  <2>8. ASSUME NEW d \in Callers, d # c PROVE CallInv(d)'
    <3>1. call'[d] = call[d] /\ CallInv(d) /\ call[d].start \in Nat
      BY <1>0, <2>5, <2>8 DEF Call
    <3>2. call[d].pc = "cached" => call[d].start < account'.ssoid.issued + TTL + MaxCall
      BY <1>0, <2>1, <2>2, <3>1 DEF CallInv, Busy, Session
    <3> QED BY <2>2, <2>5, <3>1, <3>2 DEF CallInv
  <2> QED BY <1>6, <2>2, <2>3, <2>5, <2>6, <2>7, <2>8 DEF IInv
<1>7. ASSUME NEW c \in Callers, RaiseInLogin(c) \/ Release(c) PROVE IInv'
  <2>1. NoCall \in Call /\ NoCall.pc = "idle"
    BY DEF NoCall, Call, NoSession, Session
  <2>2. call' = [call EXCEPT ![c] = NoCall] /\ call'[c] = NoCall /\ UNCHANGED <<now, account>>
    BY <1>0, <1>7 DEF RaiseInLogin, Release
  <2>3. CallInv(c)'
    BY <2>1, <2>2 DEF CallInv, Busy
  <2> QED BY <2>1, <2>2, <2>3, OwnStep DEF Busy
<1>8. CASE UNCHANGED vars
  BY <1>8 DEF vars, IInv, TypeOK, StampNearIssue, CallInv
<1> QED BY <1>1, <1>2, <1>3, <1>4, <1>5, <1>6, <1>7, <1>8 DEF Next

(* Types are kept, and no call outlasts MaxCall. *)
THEOREM TypeCorrect == Spec => []TypeOK
<1>1. IInv => TypeOK
  BY DEF IInv
<1> QED BY <1>1, InitIInv, StepIInv, PTL DEF Spec

(* account.time never overstates the age of the stored session by more     *)
(* than the length of one call, however logins overlap.                    *)
THEOREM StampIsNearIssue == Spec => []StampNearIssue
<1>1. IInv => StampNearIssue
  BY DEF IInv
<1> QED BY <1>1, InitIInv, StepIInv, PTL DEF Spec

(* No login returns an answer of Betfair older than TTL and two calls. *)
THEOREM SessionAgeBounded == Spec => []AgeBounded
<1>1. IInv => AgeBounded
  BY DEF IInv, CallInv, AgeBounded
<1> QED BY <1>1, InitIInv, StepIInv, PTL DEF Spec


-----------------------------------------------------------------------------
(* The table of teams *)

JobType == [pc : {"find", "validate", "insert", "done"}, side : R!Sides,
            id : [R!Sides -> {0, None} \cup 1..Len(rows)]]

(* A monitor that has begun and has not yet got both its teams *)
Midway(j) == job[j].pc # "done" /\ job[j] # R!NewJob

(* Every row is in lower case; a monitor that begins finds its first team, *)
(* one that is at its second has looked up the first; ids are of the right *)
(* rows.  While monitors do not overlap, at most one is midway, and what   *)
(* it is about to create is still missing.                                 *)
TeamsInv ==
    /\ \A i \in 1..Len(rows) : Down[rows[i]] = rows[i]
    /\ R!RightTeam
    /\ R!SerialComplete
    /\ ~together =>
        /\ \A j, k \in Jobs : Midway(j) /\ Midway(k) => j = k
        /\ \A j \in Jobs : job[j].pc \in {"validate", "insert"} => R!Matching(R!Name(j)) = {}
        /\ \A j \in Jobs : None \notin {job[j].id[s] : s \in R!Sides}

LEMMA TeamsInit ==
    ASSUME R!RegistryAssumption
    PROVE  R!Init => R!TypeOK /\ TeamsInv
<1> SUFFICES ASSUME R!Init PROVE R!TypeOK /\ TeamsInv
  OBVIOUS
<1>1. rows = << >> /\ rows \in Seq(Names) /\ Len(rows) = 0 /\ 1..Len(rows) = {}
  BY EmptySeq DEF R!Init
<1>2. \A j \in Jobs : job[j] = R!NewJob
  BY DEF R!Init
<1>3. /\ R!NewJob \in JobType /\ R!NewJob.pc = "find"
      /\ \A s \in R!Sides : R!NewJob.id[s] = 0
  BY DEF R!NewJob, JobType, R!Sides
<1>4. R!TypeOK
  BY <1>1, <1>3 DEF R!Init, R!TypeOK, JobType
<1>5. R!RightTeam /\ R!SerialComplete
  BY <1>1, <1>2, <1>3 DEF R!RightTeam, R!SerialComplete
<1>6. None # 0
  BY DEF R!RegistryAssumption
<1> QED BY <1>1, <1>2, <1>3, <1>4, <1>5, <1>6 DEF TeamsInv, Midway

(* What a resolved side leaves in the job, and in the others. *)
LEMMA ResolvedJob ==
    ASSUME R!TypeOK, NEW j \in Jobs, NEW id, R!Resolved(j, id)
    PROVE  /\ \A k \in Jobs \ {j} : job'[k] = job[k]
           /\ job'[j].pc = IF job[j].side = "home" THEN "find" ELSE "done"
           /\ job'[j].side = "away"
           /\ \A s \in R!Sides : job'[j].id[s] = IF s = job[j].side THEN id ELSE job[j].id[s]
           /\ job' = [job EXCEPT ![j] = job'[j]]
           /\ DOMAIN job' = Jobs
           /\ job'[j] = [pc |-> job'[j].pc, side |-> "away", id |-> job'[j].id]
           /\ job'[j].id = [job[j].id EXCEPT ![job[j].side] = id]
BY DEF R!TypeOK, R!Resolved, R!Sides


(* The monitor that takes a step is the only one midway, as long as none   *)
(* overlap.                                                                *)
LEMMA OnlyMidway ==
    ASSUME TeamsInv, ~together, NEW j \in Jobs, job[j].pc \in {"validate", "insert"}
    PROVE  /\ \A k \in Jobs \ {j} : ~Midway(k)
           /\ R!Matching(R!Name(j)) = {}
<1>1. Midway(j)
  BY DEF Midway, R!NewJob
<1> QED BY <1>1 DEF TeamsInv

(* A side gets the id of its team in the table as it then is; or, when     *)
(* monitors have overlapped, nil.                                          *)
ResolvedRight(j) ==
    \E id : /\ R!Resolved(j, id)
            /\ \/ id \in 1..Len(rows') /\ rows'[id] = Down[R!Name(j)]
               \/ together /\ id = None

(* Such a step keeps the invariant.                                        *)
LEMMA ResolvedTeams ==
    ASSUME R!RegistryAssumption, R!TypeOK, TeamsInv, NEW j \in Jobs, ResolvedRight(j),
           rows' \in Seq(Names), Len(rows) <= Len(rows'),
           \A i \in 1..Len(rows) : rows'[i] = rows[i],
           \A i \in 1..Len(rows') : Down[rows'[i]] = rows'[i],
           together' \in BOOLEAN, together => together',
           ~together' => /\ \A k \in Jobs \ {j} : ~Midway(k)
                         /\ \A i, k \in 1..Len(rows') : rows'[i] = rows'[k] => i = k
    PROVE  R!TypeOK' /\ TeamsInv'
<1> DEFINE Ids == {0, None} \cup 1..Len(rows)
           NewIds == {0, None} \cup 1..Len(rows')
<1>p. PICK id : /\ R!Resolved(j, id)
                /\ \/ id \in 1..Len(rows') /\ rows'[id] = Down[R!Name(j)]
                   \/ together /\ id = None
  BY DEF ResolvedRight
<1>0. /\ Len(rows) \in Nat /\ Len(rows') \in Nat /\ None \notin Nat
      /\ Ids \subseteq NewIds /\ id \in NewIds
      /\ rows \in Seq(Names)
  BY <1>p, LenProperties DEF R!TypeOK, R!RegistryAssumption
<1>1. /\ \A k \in Jobs \ {j} : job'[k] = job[k]
      /\ job'[j].pc = IF job[j].side = "home" THEN "find" ELSE "done"
      /\ job'[j].side = "away"
      /\ \A s \in R!Sides : job'[j].id[s] = IF s = job[j].side THEN id ELSE job[j].id[s]
      /\ job' = [job EXCEPT ![j] = job'[j]]
      /\ job'[j] = [pc |-> job'[j].pc, side |-> "away", id |-> job'[j].id]
      /\ job'[j].id = [job[j].id EXCEPT ![job[j].side] = id]
  BY <1>p, ResolvedJob
<1>2. \A k \in Jobs : /\ job[k] \in JobType /\ job[k].id \in [R!Sides -> Ids]
                      /\ job[k].side \in R!Sides
                      /\ job[k].pc \in {"find", "validate", "insert", "done"}
  BY DEF R!TypeOK, JobType
<1>3. R!TypeOK'
  <2>1. job'[j].id \in [R!Sides -> NewIds]
    BY <1>0, <1>1, <1>2
  <2>2. \A k \in Jobs : job[k].id \in [R!Sides -> NewIds]
    BY <1>0, <1>2
  <2> DEFINE T == [pc : {"find", "validate", "insert", "done"}, side : R!Sides,
                   id : [R!Sides -> NewIds]]
  <2>3. job'[j] \in T
    BY <1>1, <2>1 DEF R!Sides
  <2>4. \A k \in Jobs : job[k] \in T
    BY <1>2, <2>2 DEF JobType
  <2>5. job' \in [Jobs -> T]
    BY <1>1, <2>3, <2>4 DEF R!TypeOK
  <2> QED BY <2>5 DEF R!TypeOK, R!Sides
<1>4. R!RightTeam'
  <2>1. ASSUME NEW k \in Jobs, NEW s \in R!Sides, job[k].id[s] \in 1..Len(rows')
        PROVE  job[k].id[s] \in 1..Len(rows)
    BY <1>0, <1>2, <2>1
  <2>2. R!Name(j) = IF job[j].side = "home" THEN Home[j] ELSE Away[j]
    BY DEF R!Name
  <2>3. "home" \in R!Sides /\ "away" \in R!Sides /\ R!Sides = {"home", "away"}
    BY DEF R!Sides
  <2>4. id \in 1..Len(rows') => rows'[id] = Down[R!Name(j)]
    BY <1>p, <1>0
  <2>5. ASSUME NEW k \in Jobs
        PROVE  /\ job'[k].id["home"] \in 1..Len(rows') => rows'[job'[k].id["home"]] = Down[Home[k]]
               /\ job'[k].id["away"] \in 1..Len(rows') => rows'[job'[k].id["away"]] = Down[Away[k]]
    <3>1. /\ job[k].id["home"] \in 1..Len(rows') => rows'[job[k].id["home"]] = Down[Home[k]]
          /\ job[k].id["away"] \in 1..Len(rows') => rows'[job[k].id["away"]] = Down[Away[k]]
      BY <2>1, <2>3 DEF TeamsInv, R!RightTeam
    <3>2. CASE k # j
      BY <1>1, <3>1, <3>2
    <3>3. CASE k = j
      <4>1. CASE job[j].side = "home"
        BY <1>1, <2>2, <2>3, <2>4, <3>1, <3>3, <4>1
      <4>2. CASE job[j].side = "away"
        BY <1>1, <2>2, <2>3, <2>4, <3>1, <3>3, <4>2
      <4> QED BY <1>2, <2>3, <4>1, <4>2
    <3> QED BY <3>2, <3>3
  <2> QED BY <2>5 DEF R!RightTeam
<1>5. ASSUME ~together' PROVE \A k \in Jobs : None \notin {job'[k].id[s] : s \in R!Sides}
  <2>1. id # None /\ \A k \in Jobs : None \notin {job[k].id[s] : s \in R!Sides}
    BY <1>p, <1>0, <1>5 DEF TeamsInv
  <2>2. \A s \in R!Sides : job'[j].id[s] # None
    BY <1>1, <2>1
  <2>3. \A k \in Jobs \ {j}, s \in R!Sides : job'[k].id[s] # None
    BY <1>1, <2>1
  <2> QED BY <2>2, <2>3
<1>6. R!SerialComplete'
  BY <1>5 DEF R!SerialComplete
<1>7. ASSUME ~together' PROVE \A k \in Jobs \ {j} : ~Midway(k)'
  BY <1>1, <1>7 DEF Midway, R!NewJob
<1>8. ASSUME ~together', NEW k \in Jobs, job'[k].pc \in {"validate", "insert"} PROVE FALSE
  <2>1. k # j
    BY <1>1, <1>8
  <2> QED BY <1>7, <1>8, <2>1 DEF Midway, R!NewJob
<1> QED BY <1>3, <1>4, <1>5, <1>6, <1>7, <1>8 DEF TeamsInv

(* A job that found nothing goes on, while the table stays as it is. *)
LEMMA GoesOn ==
    ASSUME R!RegistryAssumption, R!TypeOK, TeamsInv, NEW j \in Jobs,
           NEW p \in {"validate", "insert"}, job' = [job EXCEPT ![j].pc = p], rows' = rows,
           together' \in BOOLEAN, together => together',
           ~together' => /\ \A k \in Jobs \ {j} : ~Midway(k)
                         /\ R!Matching(R!Name(j)) = {}
    PROVE  R!TypeOK' /\ TeamsInv'
<1>1. \A k \in Jobs : job[k] \in JobType /\ job \in [Jobs -> JobType]
  BY DEF R!TypeOK, JobType
<1>2. /\ \A k \in Jobs \ {j} : job'[k] = job[k]
      /\ job'[j].pc = p /\ job'[j].side = job[j].side /\ job'[j].id = job[j].id
      /\ job' \in [Jobs -> JobType]
  BY <1>1 DEF JobType
<1>3. R!TypeOK'
  BY <1>2 DEF R!TypeOK, JobType
<1>4. \A k \in Jobs : job'[k].id = job[k].id /\ job'[k].side = job[k].side
  BY <1>2
<1>5. R!RightTeam' /\ R!SerialComplete'
  BY <1>2, <1>4 DEF TeamsInv, R!RightTeam, R!SerialComplete
<1>6. ASSUME ~together' PROVE \A k \in Jobs \ {j} : ~Midway(k)'
  BY <1>2, <1>6 DEF Midway, R!NewJob
<1>7. ASSUME ~together', NEW k \in Jobs, job'[k].pc \in {"validate", "insert"}
      PROVE  (R!Matching(R!Name(k)) = {})'
  <2>1. k = j
    BY <1>6, <1>7 DEF Midway, R!NewJob
  <2> QED BY <1>4, <1>7, <2>1 DEF R!Matching, R!Name
<1>8. ~together' => \A k \in Jobs : None \notin {job'[k].id[s] : s \in R!Sides}
  BY <1>4 DEF TeamsInv
<1> QED BY <1>3, <1>5, <1>6, <1>7, <1>8 DEF TeamsInv

LEMMA TeamsStep ==
    ASSUME R!RegistryAssumption
    PROVE  R!TypeOK /\ TeamsInv /\ [R!Next]_R!vars => R!TypeOK' /\ TeamsInv'
<1> SUFFICES ASSUME R!TypeOK, TeamsInv, [R!Next]_R!vars PROVE R!TypeOK' /\ TeamsInv'
  OBVIOUS
<1>0. /\ rows \in Seq(Names) /\ Len(rows) \in Nat /\ together \in BOOLEAN
      /\ \A i \in 1..Len(rows) : rows[i] \in Names /\ Down[rows[i]] = rows[i]
  BY LenProperties, ElementOfSeq DEF R!TypeOK, TeamsInv
<1>a. ~together => \A i, k \in 1..Len(rows) : rows[i] = rows[k] => i = k
  BY DEF TeamsInv, R!SerialComplete
<1>b. \A j \in Jobs : R!Name(j) \in Names
  BY DEF R!RegistryAssumption, R!Name
<1>1. ASSUME NEW j \in Jobs, R!Find(j) PROVE R!TypeOK' /\ TeamsInv'
  <2>1. /\ rows' = rows /\ together' \in BOOLEAN /\ (together => together')
        /\ ~together' => ~together /\ \A k \in Jobs \ {j} : ~Midway(k)
    BY <1>1 DEF R!Find, R!OthersRun, Midway
  <2>2. ASSUME NEW i \in R!Matching(R!Name(j)), R!Resolved(j, i) PROVE R!TypeOK' /\ TeamsInv'
    <3>1. i \in 1..Len(rows) /\ rows[i] = Down[R!Name(j)]
      BY <1>0 DEF R!Matching
    <3>2. /\ rows' \in Seq(Names) /\ Len(rows) <= Len(rows')
          /\ \A k \in 1..Len(rows) : rows'[k] = rows[k]
          /\ \A k \in 1..Len(rows') : Down[rows'[k]] = rows'[k]
          /\ i \in 1..Len(rows') /\ rows'[i] = Down[R!Name(j)]
      BY <1>0, <2>1, <3>1
    <3>3. ~together' => /\ \A k \in Jobs \ {j} : ~Midway(k)
                        /\ \A m, k \in 1..Len(rows') : rows'[m] = rows'[k] => m = k
      BY <1>a, <2>1
    <3>4. R!Resolved(j, i)
      BY <2>2
    <3>5. ResolvedRight(j)
      BY <3>2, <3>4 DEF ResolvedRight
    <3> QED BY <2>1, <3>2, <3>3, <3>5, ResolvedTeams
  <2>3. CASE R!Matching(R!Name(j)) = {} /\ job' = [job EXCEPT ![j].pc = "validate"]
    BY <2>1, <2>3, GoesOn
  <2> QED BY <1>1, <2>2, <2>3 DEF R!Find
<1>2. ASSUME NEW j \in Jobs, R!Validate(j) PROVE R!TypeOK' /\ TeamsInv'
  <2>1. rows' = rows /\ together' = together /\ job[j].pc \in {"validate", "insert"}
    BY <1>2 DEF R!Validate
  <2>2. ~together => /\ \A k \in Jobs \ {j} : ~Midway(k)
                     /\ R!Matching(R!Name(j)) = {}
    BY <2>1, OnlyMidway
  <2>3. R!Same(R!Name(j)) \subseteq R!Matching(R!Name(j))
    BY DEF R!Same, R!Matching
  <2>4. CASE R!Same(R!Name(j)) # {} /\ R!Resolved(j, None)
    <3>1. together
      BY <1>0, <2>2, <2>3, <2>4
    <3>2. ResolvedRight(j)
      BY <2>4, <3>1 DEF ResolvedRight
    <3> QED BY <3>2, <1>0, <1>a, <2>1, <2>2, <2>3, <2>4, ResolvedTeams
  <2>5. CASE job' = [job EXCEPT ![j].pc = "insert"]
    BY <1>0, <2>1, <2>2, <2>5, GoesOn
  <2> QED BY <1>2, <2>4, <2>5 DEF R!Validate
<1>3. ASSUME NEW j \in Jobs, R!Insert(j) PROVE R!TypeOK' /\ TeamsInv'
  <2> DEFINE d == Down[R!Name(j)]
  <2>1. d \in Names /\ Down[d] = d
    BY <1>b DEF R!RegistryAssumption
  <2>2. /\ rows' = Append(rows, d) /\ together' = together /\ job[j].pc \in {"validate", "insert"}
        /\ R!Resolved(j, Len(rows) + 1)
    BY <1>3 DEF R!Insert
  <2> HIDE DEF d
  <2>3. /\ rows' \in Seq(Names) /\ Len(rows') = Len(rows) + 1 /\ rows'[Len(rows) + 1] = d
        /\ \A i \in 1..Len(rows) : rows'[i] = rows[i]
    BY <1>0, <2>1, <2>2, AppendProperties
  <2>4. \A i \in 1..Len(rows') : Down[rows'[i]] = rows'[i]
    BY <1>0, <2>1, <2>3
  <2>5. ~together => /\ \A k \in Jobs \ {j} : ~Midway(k)
                     /\ \A i \in 1..Len(rows) : rows[i] # d
    <3>1. ~together => R!Matching(R!Name(j)) = {} /\ \A k \in Jobs \ {j} : ~Midway(k)
      BY <2>2, OnlyMidway
    <3> QED BY <1>0, <3>1 DEF R!Matching, d
  <2>6. ~together => \A i, k \in 1..Len(rows') : rows'[i] = rows'[k] => i = k
    BY <1>0, <1>a, <2>3, <2>5
  <2>7. Len(rows) + 1 \in 1..Len(rows') /\ rows'[Len(rows) + 1] = Down[R!Name(j)]
    BY <1>0, <2>3 DEF d
  <2>8. Len(rows) <= Len(rows')
    BY <1>0, <2>3
  <2>9. ~together' => /\ \A k \in Jobs \ {j} : ~Midway(k)
                      /\ \A i, k \in 1..Len(rows') : rows'[i] = rows'[k] => i = k
    BY <2>2, <2>5, <2>6
  <2>10. together' \in BOOLEAN /\ (together => together')
    BY <1>0, <2>2
  <2> DEFINE id == Len(rows) + 1
  <2>11. R!Resolved(j, id) /\ id \in 1..Len(rows') /\ rows'[id] = Down[R!Name(j)]
    BY <2>2, <2>7
  <2> HIDE DEF id
  <2>12. ResolvedRight(j)
    BY <2>11 DEF ResolvedRight
  <2> QED BY <2>3, <2>4, <2>8, <2>9, <2>10, <2>12, ResolvedTeams
<1>4. CASE UNCHANGED R!vars
  BY <1>4 DEF R!vars, R!TypeOK, TeamsInv, R!RightTeam, R!SerialComplete, R!Matching, R!Name, Midway
<1> QED BY <1>1, <1>2, <1>3, <1>4 DEF R!Next, R!Done

(* RunnerRegistry: whatever the names and however many monitors run, no    *)
(* monitor gets the id of another team, and as long as monitors do not     *)
(* overlap each team has one row and each monitor both its ids.            *)
THEOREM TeamsAreSound ==
    ASSUME R!RegistryAssumption
    PROVE  R!Spec => []TeamsSound
<1>1. TeamsInv => TeamsSound
  BY DEF TeamsInv, TeamsSound, R!TeamsSound
<1>2. R!Init => R!TypeOK /\ TeamsInv
  BY TeamsInit
<1>3. R!TypeOK /\ TeamsInv /\ [R!Next]_R!vars => R!TypeOK' /\ TeamsInv'
  BY TeamsStep
<1> QED BY <1>1, <1>2, <1>3, PTL DEF R!Spec

-----------------------------------------------------------------------------
(* The schedule *)

PassType == [at : 0..5, pc : {"idle", "check", "set", "sweep", "done"}, queued : [Events -> Nat]]

(* An event that the pass of thread t has queued will come before the      *)
(* window that the pass is at, and has been queued once.                   *)
PassInv(t) ==
    /\ pass[t].pc = "idle" => \A e \in Events : pass[t].queued[e] = 0
    /\ pass[t].pc # "idle" =>
        /\ pass[t].at \in 1..4
        /\ \A e \in Events :
              /\ pass[t].queued[e] <= 1
              /\ pass[t].pc # "done" /\ pass[t].queued[e] # 0
                    => OpenDate[e] < time + Opens[S!Ranges[pass[t].at]]

(* The thread whose sweeps are noted is at that window and does pc.        *)
At(pc) == pass[tracked.thread].pc = pc /\ S!IsTracked(tracked.thread)

(* The stamp tells when the window was swept: between the writing of the   *)
(* stamp and the sweep not before the last sweep that was noted, at any    *)
(* time not before the last but one.  A thread that is about to write the  *)
(* stamp or to sweep has found that one more than a period old.            *)
SweptInv ==
    /\ At("sweep") /\ swept # << >> => swept[Len(swept)] <= stamp[tracked.range]
    /\ Len(swept) = 2 => swept[1] <= stamp[tracked.range]
    /\ Len(swept) = 2 /\ (At("set") \/ At("sweep")) => time - swept[1] > Period[tracked.range]

LEMMA Windows ==
    ASSUME S!ScheduleAssumption
    PROVE  /\ \A i \in 1..4 : S!Ranges[i] \in S!Range /\ Opens[S!Ranges[i]] \in Nat
           /\ \A i \in 1..3 : Opens[S!Ranges[i]] < Opens[S!Ranges[i + 1]]
           /\ S!Ranges[1] = "soon"
<1>1. /\ S!Ranges[1] = "soon" /\ S!Ranges[2] = "later" /\ S!Ranges[3] = "tomorow"
      /\ S!Ranges[4] = "someday"
  BY DEF S!Ranges
<1>2. \A i \in 1..4 : S!Ranges[i] \in S!Range
  BY <1>1 DEF S!Range
<1> QED BY <1>1, <1>2 DEF S!ScheduleAssumption

LEMMA ScheduleTypes ==
    ASSUME S!ScheduleAssumption, S!TypeOK
    PROVE  /\ time \in Nat /\ Start \in Nat /\ Last \in Nat
           /\ OpenDate \in [Events -> Int] /\ Period \in [S!Range -> Nat]
           /\ stamp \in [S!Range -> 0..time]
           /\ pass \in [Threads -> PassType]
           /\ \A t \in Threads : pass[t] \in PassType /\ pass[t].queued \in [Events -> Nat]
           /\ tracked \in Tracked /\ tracked.thread \in Threads /\ tracked.range \in S!Range
           /\ swept \in Seq(0..time) /\ Len(swept) \in 0..2
<1>1. Start \in Nat /\ Last \in Nat /\ time \in Start..Last
  BY DEF S!ScheduleAssumption, S!TypeOK
<1>2. time \in Nat
  BY <1>1
<1>3. OpenDate \in [Events -> Int] /\ Period \in [S!Range -> Nat]
  BY DEF S!ScheduleAssumption
<1>4. stamp \in [S!Range -> 0..time] /\ pass \in [Threads -> PassType]
  BY DEF S!TypeOK, PassType
<1>5. \A t \in Threads : pass[t] \in PassType /\ pass[t].queued \in [Events -> Nat]
  BY <1>4 DEF PassType
<1>6. tracked \in Tracked /\ Tracked \subseteq [thread : Threads, range : S!Range]
  BY DEF S!TypeOK, S!ScheduleAssumption
<1>7. tracked.thread \in Threads /\ tracked.range \in S!Range
  BY <1>6
<1>8. swept \in Seq(0..time) /\ Len(swept) <= 2
  BY DEF S!TypeOK
<1>b. Len(swept) \in Nat
  BY <1>8, LenProperties
<1>c. Len(swept) <= 2
  BY <1>8
<1>d. \A n \in Nat : n <= 2 => n \in 0..2
  OBVIOUS
<1>9. Len(swept) \in 0..2
  BY <1>b, <1>c, <1>d, Zenon
<1> QED BY <1>1, <1>2, <1>3, <1>4, <1>5, <1>6, <1>7, <1>8, <1>9

(* A step of thread t from p to q keeps what is known of the passes. *)
LEMMA PassStep ==
    ASSUME S!TypeOK, \A u \in Threads : PassInv(u), NEW t \in Threads, NEW q \in PassType,
           pass' = [pass EXCEPT ![t] = q], time' = time, stamp' \in [S!Range -> 0..time],
           tracked' = tracked, swept' \in Seq(0..time) /\ Len(swept') <= 2,
           PassInv(t)'
    PROVE  S!TypeOK' /\ \A u \in Threads : PassInv(u)'
<1>1. \A u \in Threads \ {t} : pass'[u] = pass[u]
  BY DEF S!TypeOK
<1>2. pass' \in [Threads -> PassType]
  BY DEF S!TypeOK, PassType
<1>3. \A u \in Threads \ {t} : PassInv(u)'
  BY <1>1 DEF PassInv
<1> QED BY <1>2, <1>3 DEF S!TypeOK, PassType

(* On to the next window: what the pass has queued comes before it. *)
LEMMA AdvanceKeeps ==
    ASSUME S!ScheduleAssumption, time \in Nat, NEW t \in Threads, NEW p \in PassType,
           p.at \in 1..4, S!Advance(p) = pass'[t], time' = time,
           \A e \in Events :
              /\ p.queued[e] <= 1
              /\ p.queued[e] # 0 =>
                    OpenDate[e] < time + (IF p.at = 4 THEN Horizon ELSE Opens[S!Ranges[p.at + 1]])
    PROVE  S!Advance(p) \in PassType /\ PassInv(t)'
<1>1. CASE p.at = 4
  <2>1. S!Advance(p) = [at |-> p.at, pc |-> "done", queued |-> p.queued]
    BY <1>1 DEF S!Advance, PassType
  <2>2. p.queued \in [Events -> Nat] /\ p.at \in 0..5
    BY DEF PassType
  <2>3. S!Advance(p) \in PassType
    BY <2>1, <2>2 DEF PassType
  <2>4. pass'[t].pc = "done" /\ pass'[t].at \in 1..4 /\ pass'[t].queued = p.queued
    BY <2>1
  <2> QED BY <2>3, <2>4 DEF PassInv
<1>2. CASE p.at # 4
  <2>1. /\ S!Advance(p) \in PassType
        /\ pass'[t].pc = "check" /\ pass'[t].queued = p.queued /\ pass'[t].at = p.at + 1
        /\ pass'[t].at \in 1..4
    <3>1. p.at \in 1..3 /\ p.at + 1 \in 1..4 /\ p.at + 1 \in 0..5
      BY <1>2
    <3>2. S!Advance(p) = [p EXCEPT !.at = p.at + 1, !.pc = "check"]
      BY <1>2 DEF S!Advance
    <3>3. S!Advance(p) = [at |-> p.at + 1, pc |-> "check", queued |-> p.queued]
      BY <3>2 DEF PassType
    <3>4. p.queued \in [Events -> Nat]
      BY DEF PassType
    <3> QED BY <3>1, <3>3, <3>4 DEF PassType
  <2> QED BY <1>2, <2>1 DEF PassInv
<1> QED BY <1>1, <1>2

LEMMA PassInit ==
    ASSUME S!ScheduleAssumption
    PROVE  S!Init => S!TypeOK /\ SweptInv /\ \A t \in Threads : PassInv(t)
<1> SUFFICES ASSUME S!Init PROVE S!TypeOK /\ SweptInv /\ \A t \in Threads : PassInv(t)
  OBVIOUS
<1>1. S!Idle \in PassType /\ S!Idle.pc = "idle" /\ \A e \in Events : S!Idle.queued[e] = 0
  BY DEF S!Idle, PassType
<1>2. \A t \in Threads : pass[t] = S!Idle
  BY DEF S!Init
<1>3. S!TypeOK
  BY <1>1 DEF S!Init, S!TypeOK, PassType, S!ScheduleAssumption
<1>4. SweptInv
  <2>1. swept = << >> /\ Len(swept) = 0
    BY DEF S!Init
  <2> QED BY <2>1 DEF SweptInv
<1> QED BY <1>1, <1>2, <1>3, <1>4 DEF PassInv

LEMMA SweptType ==
    ASSUME S!ScheduleAssumption, S!TypeOK, NEW t \in Threads, S!Sweep(t)
    PROVE  swept' \in Seq(0..time) /\ Len(swept') <= 2
<1> DEFINE N == 0..time
<1>1. time \in N /\ swept \in Seq(N) /\ Len(swept) \in 0..2
  BY ScheduleTypes
<1> SUFFICES swept' \in Seq(N) /\ Len(swept') <= 2
  OBVIOUS
<1> HIDE DEF N
<1>2. CASE swept' = swept
  <2>1. \A n \in 0..2 : n <= 2
    OBVIOUS
  <2>2. Len(swept) <= 2
    BY <1>1, <2>1, Zenon
  <2> QED BY <1>1, <1>2, <2>2, Zenon
<1>3. CASE swept' = <<time>>
  BY <1>1, <1>3
<1>4. CASE swept # << >> /\ swept' = <<swept[Len(swept)], time>>
  <2>1. Len(swept) # 0
    BY <1>1, <1>4, EmptySeq
  <2>2. swept[Len(swept)] \in N
    BY <1>1, <2>1, ElementOfSeq
  <2> QED BY <1>1, <1>4, <2>2
<1> QED BY <1>2, <1>3, <1>4 DEF S!Sweep

LEMMA PassNext ==
    ASSUME S!ScheduleAssumption, S!TypeOK, \A t \in Threads : PassInv(t), [S!Next]_S!vars
    PROVE  S!TypeOK' /\ \A t \in Threads : PassInv(t)'
<1>0. /\ time \in Nat /\ Start \in Nat /\ Last \in Nat /\ pass \in [Threads -> PassType]
      /\ \A t \in Threads : pass[t] \in PassType /\ pass[t].queued \in [Events -> Nat]
      /\ OpenDate \in [Events -> Int]
  BY ScheduleTypes
<1>w. tracked \in Tracked /\ swept \in Seq(0..time) /\ Len(swept) <= 2
  BY DEF S!TypeOK
<1>1. CASE S!Tick
  <2>1. /\ time' = time + 1 /\ pass' = pass /\ stamp' = stamp /\ time < Last
        /\ tracked' = tracked /\ swept' = swept
    BY <1>1 DEF S!Tick
  <2>2. S!TypeOK'
    <3>1. 0..time \subseteq 0..time'
      BY <1>0, <2>1
    <3>2. swept' \in Seq(0..time')
      BY <1>w, <2>1, <3>1, SeqMonotonic
    <3> QED BY <1>0, <1>w, <2>1, <3>2 DEF S!TypeOK
  <2>3. \A t \in Threads : PassInv(t)'
    BY <1>0, <2>1, Windows DEF PassInv
  <2> QED BY <2>2, <2>3
<1>2. ASSUME NEW t \in Threads, S!SweepNow(t) PROVE S!TypeOK' /\ \A u \in Threads : PassInv(u)'
  <2> DEFINE q == [at |-> 1, pc |-> "check",
                   queued |-> S!Queue(t, {e \in Events : S!StartingNow(e)})]
  <2>1. \A e \in Events : pass[t].queued[e] = 0
    BY <1>2 DEF S!SweepNow, PassInv
  <2>2. S!Queue(t, {e \in Events : S!StartingNow(e)})
           = [e \in Events |-> IF S!StartingNow(e) THEN 1 ELSE 0]
    BY <2>1 DEF S!Queue
  <2>3. q.queued = [e \in Events |-> IF S!StartingNow(e) THEN 1 ELSE 0]
    BY <2>2
  <2>4. q \in PassType
    BY <2>2 DEF PassType
  <2>5. pass' = [pass EXCEPT ![t] = q] /\ pass'[t] = q /\ time' = time /\ stamp' = stamp
    BY <1>0, <1>2 DEF S!SweepNow
  <2>6. q.pc = "check" /\ q.at = 1
    OBVIOUS
  <2> HIDE DEF q
  <2>7. \A e \in Events : S!StartingNow(e) => OpenDate[e] < time + Opens[S!Ranges[1]]
    BY <1>0, Windows DEF S!StartingNow, S!ScheduleAssumption
  <2>8. PassInv(t)'
    BY <2>3, <2>5, <2>6, <2>7 DEF PassInv
  <2>9. stamp' \in [S!Range -> 0..time] /\ tracked' = tracked /\ swept' = swept
    BY <1>2, <2>5 DEF S!TypeOK, S!SweepNow
  <2> QED BY <1>w, <2>4, <2>5, <2>8, <2>9, PassStep
<1>3. ASSUME NEW t \in Threads, S!Check(t) PROVE S!TypeOK' /\ \A u \in Threads : PassInv(u)'
  <2>1. /\ time' = time /\ stamp' = stamp /\ pass[t].pc = "check" /\ stamp' \in [S!Range -> 0..time]
        /\ tracked' = tracked /\ swept' = swept
    BY <1>3 DEF S!Check, S!TypeOK
  <2>2. /\ pass[t].at \in 1..4
        /\ \A e \in Events :
              /\ pass[t].queued[e] <= 1
              /\ pass[t].queued[e] # 0 => OpenDate[e] < time + Opens[S!Ranges[pass[t].at]]
    BY <2>1 DEF PassInv
  <2>3. CASE pass' = [pass EXCEPT ![t] = [pass[t] EXCEPT !.pc = "set"]]
    <3> DEFINE q == [pass[t] EXCEPT !.pc = "set"]
    <3>1. q \in PassType /\ q.pc = "set" /\ q.at = pass[t].at /\ q.queued = pass[t].queued
      BY <1>0 DEF PassType
    <3>2. pass' = [pass EXCEPT ![t] = q] /\ pass'[t] = q
      BY <1>0, <2>3
    <3> HIDE DEF q
    <3>3. PassInv(t)'
      BY <2>1, <2>2, <3>1, <3>2 DEF PassInv
    <3> QED BY <1>w, <2>1, <3>1, <3>2, <3>3, PassStep
  <2>4. CASE pass' = [pass EXCEPT ![t] = S!Advance(pass[t])]
    <3>1. pass'[t] = S!Advance(pass[t])
      BY <1>0, <2>4
    <3>2. \A e \in Events : pass[t].queued[e] # 0 =>
             OpenDate[e] < time + (IF pass[t].at = 4 THEN Horizon
                                   ELSE Opens[S!Ranges[pass[t].at + 1]])
      <4>1. CASE pass[t].at = 4
        BY <1>0, <2>2, <4>1, Windows DEF S!ScheduleAssumption, S!Ranges
      <4>2. CASE pass[t].at \in 1..3
        BY <1>0, <2>2, <4>2, Windows
      <4> QED BY <2>2, <4>1, <4>2
    <3>3. S!Advance(pass[t]) \in PassType /\ PassInv(t)'
      BY <1>0, <2>1, <2>2, <3>1, <3>2, AdvanceKeeps
    <3> QED BY <1>w, <2>1, <2>4, <3>3, PassStep
  <2> QED BY <1>0, <1>3, <2>3, <2>4 DEF S!Check
<1>4. ASSUME NEW t \in Threads, S!SetStamp(t) PROVE S!TypeOK' /\ \A u \in Threads : PassInv(u)'
  <2> DEFINE q == [pass[t] EXCEPT !.pc = "sweep"]
  <2>1. q \in PassType /\ q.pc = "sweep" /\ q.at = pass[t].at /\ q.queued = pass[t].queued
    BY <1>0 DEF PassType
  <2>2. /\ pass' = [pass EXCEPT ![t] = q] /\ pass'[t] = q /\ time' = time
        /\ stamp' \in [S!Range -> 0..time] /\ pass[t].pc = "set"
        /\ tracked' = tracked /\ swept' = swept
    <3>1. /\ pass' = [pass EXCEPT ![t] = q] /\ pass'[t] = q /\ time' = time /\ pass[t].pc = "set"
          /\ tracked' = tracked /\ swept' = swept
      BY <1>0, <1>4 DEF S!SetStamp
    <3>2. time \in 0..time /\ stamp' = [stamp EXCEPT ![S!Ranges[pass[t].at]] = time]
      BY <1>0, <1>4 DEF S!SetStamp
    <3>3. stamp \in [S!Range -> 0..time]
      BY DEF S!TypeOK
    <3> QED BY <3>1, <3>2, <3>3
  <2> HIDE DEF q
  <2>3. PassInv(t)'
    BY <2>1, <2>2 DEF PassInv
  <2> QED BY <1>w, <2>1, <2>2, <2>3, PassStep
<1>5. ASSUME NEW t \in Threads, S!Sweep(t) PROVE S!TypeOK' /\ \A u \in Threads : PassInv(u)'
  <2> DEFINE es == {e \in Events : S!Starting(pass[t].at, e)}
             p == [pass[t] EXCEPT !.queued = S!Queue(t, es)]
  <2>1. S!Queue(t, es) = [e \in Events |-> pass[t].queued[e] + IF e \in es THEN 1 ELSE 0]
    BY DEF S!Queue
  <2>2. S!Queue(t, es) \in [Events -> Nat]
    <3>1. \A e \in Events : pass[t].queued[e] \in Nat
      BY <1>0
    <3>2. \A e \in Events : (pass[t].queued[e] + IF e \in es THEN 1 ELSE 0) \in Nat
      BY <3>1
    <3> HIDE DEF es
    <3> QED BY <2>1, <3>2
  <2>3. p \in PassType /\ p.at = pass[t].at /\ p.queued = S!Queue(t, es)
    BY <1>0, <2>2 DEF PassType
  <2>4. /\ pass' = [pass EXCEPT ![t] = S!Advance(p)] /\ pass'[t] = S!Advance(p) /\ time' = time
        /\ stamp' \in [S!Range -> 0..time] /\ pass[t].pc = "sweep" /\ tracked' = tracked
    BY <1>0, <1>5 DEF S!Sweep, S!TypeOK
  <2> HIDE DEF p
  <2>5. /\ pass[t].at \in 1..4
        /\ \A e \in Events :
              /\ pass[t].queued[e] <= 1
              /\ pass[t].queued[e] # 0 => OpenDate[e] < time + Opens[S!Ranges[pass[t].at]]
    BY <2>4 DEF PassInv
  <2>6. \A e \in Events : e \in es =>
           /\ pass[t].queued[e] = 0
           /\ OpenDate[e] < time + S!Closes(pass[t].at)
    BY <1>0, <2>5, Windows DEF S!Starting
  <2>7. S!Closes(pass[t].at) = IF pass[t].at = 4 THEN Horizon ELSE Opens[S!Ranges[pass[t].at + 1]]
    BY DEF S!Closes
  <2>8. Opens[S!Ranges[pass[t].at]] <= S!Closes(pass[t].at) /\ S!Closes(pass[t].at) \in Nat
    <3>1. CASE pass[t].at = 4
      BY <2>7, <3>1, Windows DEF S!ScheduleAssumption, S!Ranges
    <3>2. CASE pass[t].at \in 1..3
      BY <2>7, <3>2, Windows
    <3> QED BY <2>5, <3>1, <3>2
  <2> HIDE DEF es
  <2>9. ASSUME NEW e \in Events
        PROVE  /\ p.queued[e] <= 1
               /\ p.queued[e] # 0 => OpenDate[e] < time + S!Closes(pass[t].at)
    <3>1. pass[t].queued[e] \in Nat /\ OpenDate[e] \in Int /\ Opens[S!Ranges[pass[t].at]] \in Nat
      BY <1>0, <2>5, Windows
    <3>2. CASE e \in es
      BY <2>1, <2>3, <2>6, <3>1, <3>2
    <3>3. CASE e \notin es
      <4>1. p.queued[e] = pass[t].queued[e]
        BY <2>1, <2>3, <3>1, <3>3
      <4> QED BY <1>0, <2>5, <2>8, <3>1, <4>1
    <3> QED BY <3>2, <3>3
  <2>10. S!Advance(p) \in PassType /\ PassInv(t)'
    BY <1>0, <2>3, <2>4, <2>5, <2>7, <2>9, AdvanceKeeps
  <2>11. swept' \in Seq(0..time) /\ Len(swept') <= 2
    BY <1>5, SweptType
  <2> QED BY <2>4, <2>10, <2>11, PassStep
<1>8. ASSUME NEW t \in Threads, S!EndPass(t) PROVE S!TypeOK' /\ \A u \in Threads : PassInv(u)'
  <2>1. S!Idle \in PassType /\ S!Idle.pc = "idle" /\ \A e \in Events : S!Idle.queued[e] = 0
    BY DEF S!Idle, PassType
  <2>2. /\ pass' = [pass EXCEPT ![t] = S!Idle] /\ pass'[t] = S!Idle /\ time' = time
        /\ stamp' \in [S!Range -> 0..time] /\ tracked' = tracked /\ swept' = swept
    BY <1>0, <1>8 DEF S!EndPass, S!TypeOK
  <2>3. PassInv(t)'
    BY <2>1, <2>2 DEF PassInv
  <2> QED BY <1>w, <2>1, <2>2, <2>3, PassStep
<1>6. CASE S!Boot
  <2>1. /\ time' = time /\ pass' = pass /\ stamp' \in [S!Range -> 0..time]
        /\ tracked' = tracked /\ swept' = << >>
    BY <1>0, <1>6 DEF S!Boot
  <2>2. swept' \in Seq(0..time) /\ Len(swept') = 0
    BY <2>1
  <2> QED BY <2>1, <2>2 DEF S!TypeOK, PassInv
<1>7. CASE UNCHANGED S!vars
  BY <1>7 DEF S!vars, S!TypeOK, PassInv
<1> QED BY <1>1, <1>2, <1>3, <1>4, <1>5, <1>6, <1>7, <1>8 DEF S!Next

(* A step that leaves no pass about to write a stamp or to sweep. *)
LEMMA SweptKeep ==
    ASSUME S!ScheduleAssumption, S!TypeOK, SweptInv, NEW t \in Threads,
           \A u \in Threads \ {t} : pass'[u] = pass[u], pass'[t].pc \notin {"set", "sweep"},
           UNCHANGED <<time, stamp, tracked, swept>>
    PROVE  SweptInv'
<1>1. CASE tracked.thread = t
  BY <1>1 DEF SweptInv, At
<1>2. CASE tracked.thread # t
  <2>1. pass'[tracked.thread] = pass[tracked.thread]
    BY <1>2, ScheduleTypes
  <2> QED BY <2>1 DEF SweptInv, At, S!IsTracked
<1> QED BY <1>1, <1>2

LEMMA SweptNext ==
    ASSUME S!ScheduleAssumption, S!TypeOK, \A t \in Threads : PassInv(t), SweptInv, [S!Next]_S!vars
    PROVE  S!ThrottledStep /\ SweptInv'
<1> DEFINE T == tracked.thread
           r == tracked.range
<1>0. /\ time \in Nat /\ pass \in [Threads -> PassType]
      /\ stamp \in [S!Range -> 0..time] /\ Period \in [S!Range -> Nat]
      /\ \A t \in Threads : pass[t] \in PassType
      /\ T \in Threads /\ r \in S!Range
  BY ScheduleTypes
<1>a. \A t \in Threads : pass[t].pc # "idle" => S!Ranges[pass[t].at] \in S!Range
  BY Windows DEF PassInv
<1>b. \A t \in Threads : S!IsTracked(t) => t = T /\ S!Ranges[pass[t].at] = r
  BY DEF S!IsTracked
<1>c. (Len(swept) = 2 => swept[1] \in 0..time) /\ (swept # << >> => swept[Len(swept)] \in 0..time)
  <2> DEFINE N == 0..time
  <2>1. swept \in Seq(N) /\ Len(swept) \in 0..2
    BY ScheduleTypes
  <2> HIDE DEF N
  <2>2. swept # << >> => Len(swept) # 0
    BY <2>1, EmptySeq
  <2>3. (Len(swept) = 2 => swept[1] \in N) /\ (Len(swept) # 0 => swept[Len(swept)] \in N)
    BY <2>1, ElementOfSeq
  <2> QED BY <2>2, <2>3 DEF N
<1>d. S!ThrottledStep
  BY DEF S!ThrottledStep, S!Sweep, SweptInv, At
<1>1. ASSUME S!Tick PROVE SweptInv'
  <2>1. time' = time + 1 /\ pass' = pass /\ stamp' = stamp /\ tracked' = tracked /\ swept' = swept
    BY <1>1 DEF S!Tick
  <2>2. Len(swept) = 2 => time + 1 - swept[1] > time - swept[1]
    BY <1>0, <1>c
  <2>3. Period[r] \in Nat
    BY <1>0
  <2> QED BY <1>0, <1>c, <2>1, <2>2, <2>3 DEF SweptInv, At, S!IsTracked
<1>2. ASSUME NEW t \in Threads, S!SweepNow(t) \/ S!EndPass(t) PROVE SweptInv'
  <2>1. /\ \A u \in Threads \ {t} : pass'[u] = pass[u]
        /\ UNCHANGED <<time, stamp, tracked, swept>>
    BY <1>0, <1>2 DEF S!SweepNow, S!EndPass
  <2>2. pass'[t].pc \in {"check", "idle"}
    BY <1>0, <1>2 DEF S!SweepNow, S!EndPass, S!Idle
  <2> QED BY <2>1, <2>2, SweptKeep
<1>3. ASSUME NEW t \in Threads, S!Check(t) PROVE SweptInv'
  <2>1. /\ \A u \in Threads \ {t} : pass'[u] = pass[u]
        /\ UNCHANGED <<time, stamp, tracked, swept>>
    BY <1>0, <1>3 DEF S!Check
  <2>2. CASE S!Due(S!Ranges[pass[t].at])
    <3>1. pass'[t].at = pass[t].at /\ pass'[t].pc = "set"
      BY <1>0, <1>3, <2>2 DEF S!Check, PassType
    <3>2. CASE T = t
      <4>1. S!IsTracked(T)' <=> S!IsTracked(T)
        BY <2>1, <3>1, <3>2 DEF S!IsTracked
      <4>2. ASSUME S!IsTracked(T), Len(swept) = 2 PROVE time - swept[1] > Period[r]
        <5>1. time - stamp[r] > Period[r]
          BY <1>b, <2>2, <3>2, <4>2 DEF S!Due
        <5>2. swept[1] <= stamp[r]
          BY <4>2 DEF SweptInv
        <5>3. stamp[r] \in Nat /\ Period[r] \in Nat /\ swept[1] \in Nat
          BY <1>0, <1>c, <4>2
        <5> QED BY <1>0, <5>1, <5>2, <5>3
      <4> QED BY <2>1, <3>1, <3>2, <4>1, <4>2 DEF SweptInv, At
    <3>3. CASE T # t
      <4>1. pass'[T] = pass[T]
        BY <1>0, <2>1, <3>3
      <4> QED BY <2>1, <4>1 DEF SweptInv, At, S!IsTracked
    <3> QED BY <3>2, <3>3
  <2>3. CASE ~S!Due(S!Ranges[pass[t].at])
    <3>1. pass'[t].pc \in {"check", "done"}
      BY <1>0, <1>3, <2>3 DEF S!Check, S!Advance, PassType
    <3> QED BY <2>1, <3>1, SweptKeep
  <2> QED BY <2>2, <2>3
<1>4. ASSUME NEW t \in Threads, S!SetStamp(t) PROVE SweptInv'
  <2> DEFINE x == S!Ranges[pass[t].at]
  <2>1. /\ x \in S!Range /\ pass[t].pc = "set" /\ stamp' = [stamp EXCEPT ![x] = time]
        /\ \A u \in Threads \ {t} : pass'[u] = pass[u]
        /\ UNCHANGED <<time, tracked, swept>>
    BY <1>0, <1>4, <1>a DEF S!SetStamp
  <2>2. pass'[t].pc = "sweep" /\ pass'[t].at = pass[t].at
    BY <1>0, <1>4 DEF S!SetStamp, PassType
  <2>3. stamp'[r] \in 0..time /\ stamp[r] <= stamp'[r] /\ (x = r => stamp'[r] = time)
    BY <1>0, <2>1
  <2>4. stamp[r] \in Nat /\ Period[r] \in Nat
    BY <1>0
  <2>5. Len(swept) = 2 => swept[1] <= stamp'[r]
    BY <1>0, <1>c, <2>3, <2>4 DEF SweptInv
  <2>6. CASE T = t
    <3>1. S!IsTracked(T)' <=> S!IsTracked(T)
      BY <2>1, <2>2, <2>6 DEF S!IsTracked
    <3>2. S!IsTracked(T) => x = r
      BY <1>b, <2>6
    <3>3. S!IsTracked(T) /\ swept # << >> => swept[Len(swept)] <= stamp'[r]
      BY <1>0, <1>c, <2>3, <3>2
    <3>4. S!IsTracked(T) /\ Len(swept) = 2 => time - swept[1] > Period[r]
      BY <2>1, <2>6 DEF SweptInv, At
    <3> QED BY <2>1, <2>5, <2>6, <3>1, <3>3, <3>4 DEF SweptInv, At
  <2>7. CASE T # t
    <3>1. pass'[T] = pass[T]
      BY <1>0, <2>1, <2>7
    <3>2. At("sweep") /\ swept # << >> => swept[Len(swept)] <= stamp'[r]
      BY <1>0, <1>c, <2>3, <2>4 DEF SweptInv
    <3> QED BY <2>1, <2>5, <3>1, <3>2 DEF SweptInv, At, S!IsTracked
  <2> QED BY <2>6, <2>7
<1>5. ASSUME NEW t \in Threads, S!Sweep(t) PROVE SweptInv'
  <2>1. /\ \A u \in Threads \ {t} : pass'[u] = pass[u]
        /\ pass[t].pc = "sweep"
        /\ UNCHANGED <<time, stamp, tracked>>
    BY <1>0, <1>5 DEF S!Sweep
  <2>2. pass'[t].pc \in {"check", "done"}
    <3> DEFINE es == {e \in Events : S!Starting(pass[t].at, e)}
               p == [pass[t] EXCEPT !.queued = S!Queue(t, es)]
    <3>1. pass'[t] = S!Advance(p)
      BY <1>0, <1>5 DEF S!Sweep
    <3> HIDE DEF es
    <3>2. p = [at |-> pass[t].at, pc |-> pass[t].pc, queued |-> S!Queue(t, es)]
      <4>1. pass[t] \in PassType
        BY <1>0
      <4> QED BY <4>1 DEF PassType
    <3> HIDE DEF p
    <3> QED BY <3>1, <3>2 DEF S!Advance
  <2>3. CASE ~S!IsTracked(t)
    <3>1. swept' = swept
      BY <1>5, <2>3 DEF S!Sweep
    <3> QED BY <2>1, <2>2, <3>1, SweptKeep
  <2>4. CASE S!IsTracked(t)
    <3>1. T = t /\ At("sweep")
      BY <1>b, <2>1, <2>4 DEF At
    <3>2. ~At("set")' /\ ~At("sweep")'
      BY <2>1, <2>2, <3>1 DEF At
    <3>3. CASE swept = << >>
      <4>1. swept' = <<time>> /\ Len(swept') = 1
        BY <1>5, <2>4, <3>3 DEF S!Sweep
      <4> QED BY <3>2, <4>1 DEF SweptInv
    <3>4. CASE swept # << >>
      <4>1. swept' = <<swept[Len(swept)], time>> /\ swept'[1] = swept[Len(swept)]
        BY <1>5, <2>4, <3>4 DEF S!Sweep
      <4>2. swept'[1] <= stamp[r]
        BY <3>1, <3>4, <4>1 DEF SweptInv
      <4> QED BY <2>1, <3>2, <4>2 DEF SweptInv
    <3> QED BY <3>3, <3>4
  <2> QED BY <2>3, <2>4
<1>6. ASSUME S!Boot PROVE SweptInv'
  <2>1. swept' = << >> /\ Len(swept') = 0
    BY <1>6 DEF S!Boot
  <2> QED BY <2>1 DEF SweptInv
<1>7. ASSUME UNCHANGED S!vars PROVE SweptInv'
  BY <1>7 DEF S!vars, SweptInv, At, S!IsTracked
<1> QED BY <1>d, <1>1, <1>2, <1>3, <1>4, <1>5, <1>6, <1>7 DEF S!Next

LEMMA QueuedOnce == ASSUME S!TypeOK, \A t \in Threads : PassInv(t) PROVE S!OncePerPass
<1>1. \A t \in Threads : pass[t].pc = "idle" \/ pass[t].pc # "idle"
  OBVIOUS
<1> QED BY <1>1 DEF PassInv, S!OncePerPass

(* OddsSchedule: for any events, any windows that follow one another and   *)
(* any number of threads, a pass queues no event twice, though the clock   *)
(* runs between any two of its steps.                                      *)
THEOREM NoneQueuedTwice ==
    ASSUME S!ScheduleAssumption
    PROVE  S!Spec => []S!OncePerPass
<1> DEFINE Inv == S!TypeOK /\ \A t \in Threads : PassInv(t)
<1>1. S!Init => Inv
  BY PassInit
<1>2. Inv /\ [S!Next]_S!vars => Inv'
  BY PassNext
<1>3. Inv => S!OncePerPass
  BY QueuedOnce
<1> HIDE DEF Inv
<1> QED BY <1>1, <1>2, <1>3, PTL DEF S!Spec

(* OddsSchedule: moreover, for any periods, however passes of any number   *)
(* of threads race for the stamp and however long after writing it they    *)
(* sweep: when a thread sweeps a window, its last sweep but one is more    *)
(* than the period ago, unless a process was started since.                *)
THEOREM SweepsAreSpaced ==
    ASSUME S!ScheduleAssumption
    PROVE  S!Spec => SweepsSpaced
<1> DEFINE Inv == S!TypeOK /\ SweptInv /\ \A t \in Threads : PassInv(t)
<1>1. S!Init => Inv
  BY PassInit
<1>2. Inv /\ [S!Next]_S!vars => Inv' /\ (S!OncePerPass' /\ S!ThrottledStep)
  <2> SUFFICES ASSUME Inv, [S!Next]_S!vars PROVE Inv' /\ (S!OncePerPass' /\ S!ThrottledStep)
    OBVIOUS
  <2>1. S!TypeOK' /\ \A t \in Threads : PassInv(t)'
    BY PassNext
  <2>2. S!ThrottledStep /\ SweptInv'
    BY SweptNext
  <2>3. S!OncePerPass'
    BY <2>1 DEF PassInv, S!OncePerPass
  <2> QED BY <2>1, <2>2, <2>3
<1> HIDE DEF Inv
<1> QED BY <1>1, <1>2, PTL DEF S!Spec, SweepsSpaced, S!SweepsSpaced

-----------------------------------------------------------------------------
(* The catalogue *)

Perform == [pc : {"idle", "collect", "EVENT", "market", "MARKET", "selection", "SELECTION"},
            todo : SUBSET Listed, evs : SUBSET Listed,
            mks : SUBSET Markets, sels : SUBSET Selections]

(* What a perform with the record r has collected: markets of well-named   *)
(* events and selections of those markets, whose event and market will be  *)
(* stored before them.                                                     *)
Stored == {"market", "MARKET", "selection", "SELECTION"}
Good(r) ==
    /\ \A m \in r.mks : EventOf[m] \in Named
    /\ r.pc = "collect" => /\ r.todo \subseteq r.evs /\ r.evs \subseteq Named
                           /\ \A m \in r.mks : EventOf[m] \in r.evs
    /\ r.pc = "EVENT" => \A m \in r.mks : EventOf[m] \in WithCc => EventOf[m] \in r.evs \cup events
    /\ r.pc \in Stored => \A m \in r.mks : EventOf[m] \in WithCc => EventOf[m] \in events
    /\ r.pc \in {"collect", "EVENT", "market"} => \A s \in r.sels : MarketOf[s] \in r.mks
    /\ r.pc = "MARKET" => \A s \in r.sels : MarketOf[s] \in r.mks \/ markets[MarketOf[s]] > 0
    /\ r.pc \in {"selection", "SELECTION"} => \A s \in r.sels : markets[MarketOf[s]] > 0

(* What the validation of a perform that runs alone still says when the    *)
(* rows are written                                                        *)
Lone(r) == r.pc = "SELECTION" => \A s \in r.sels : ~C!UniqStored(s)

Alone == \A v, w \in Workers : work[v].pc # "idle" /\ work[w].pc # "idle" => v = w

ImportInv ==
    /\ \A w \in Workers : Good(work[w])
    /\ C!SelectionsHaveMarket /\ C!MarketsHaveEvent
    /\ overlaps = 0 => Alone /\ \A w \in Workers : Lone(work[w])

(* A perform writes a row that its validation did not find: with the rows  *)
(* that are there, at most one for every perform that runs.                *)
Running == {w \in Workers : work[w].pc # "idle"}
MarketWriters(m) == {w \in Workers : work[w].pc = "MARKET" /\ m \in work[w].mks}
SelectionWriters(s) == {w \in Workers : work[w].pc = "SELECTION" /\ s \in work[w].sels}

CountInv ==
    overlaps < MaxOverlaps =>
        /\ Cardinality(Running) <= 1 + overlaps
        /\ \A m \in Markets : markets[m] + Cardinality(MarketWriters(m)) <= 1 + overlaps
        /\ \A s \in Selections : selections[s] + Cardinality(SelectionWriters(s)) <= 1 + overlaps

-----------------------------------------------------------------------------
(* Types of the catalogue *)

LEMMA ImportTypeInit == ASSUME C!CatalogueAssumption PROVE C!Init => C!TypeOK
<1> SUFFICES ASSUME C!Init PROVE C!TypeOK
  OBVIOUS
<1>1. C!NoWork \in Perform /\ C!NoWork.todo = {}
  BY DEF C!NoWork, Perform
<1>2. work \in [Workers -> Perform] /\ \A w \in Workers : work[w].todo = {}
  BY <1>1 DEF C!Init
<1>3. raises \in 0..MaxRaises /\ overlaps \in 0..MaxOverlaps /\ offered.events \subseteq Listed
  BY DEF C!CatalogueAssumption, C!Init
<1> QED BY <1>2, <1>3 DEF C!Init, C!TypeOK, Perform

(* A perform goes on to the record r. *)
LEMMA ImportTypeWork ==
    ASSUME C!TypeOK, NEW w \in Workers, NEW r \in Perform, r.todo # {} => r.pc = "collect",
           work' = [work EXCEPT ![w] = r],
           offered' = offered, events' \subseteq Listed, markets' \in [Markets -> Nat],
           selections' \in [Selections -> Nat], raises' \in 0..MaxRaises, overlaps' \in 0..MaxOverlaps
    PROVE  C!TypeOK'
<1>1. work' \in [Workers -> Perform] /\ \A v \in Workers : work'[v].todo # {} => work'[v].pc = "collect"
  BY DEF C!TypeOK, Perform
<1> QED BY <1>1 DEF C!TypeOK, Perform

LEMMA ImportTypeStep ==
    ASSUME C!CatalogueAssumption, C!TypeOK, [C!Next]_C!vars
    PROVE  C!TypeOK'
<1>0. /\ work \in [Workers -> Perform] /\ events \subseteq Listed
      /\ markets \in [Markets -> Nat] /\ selections \in [Selections -> Nat]
      /\ raises \in 0..MaxRaises /\ overlaps \in 0..MaxOverlaps
      /\ \A w \in Workers : work[w].todo # {} => work[w].pc = "collect"
      /\ offered \in [events : SUBSET Listed, markets : SUBSET Markets, selections : SUBSET Selections]
  BY DEF C!TypeOK, Perform
<1>a. C!NoWork \in Perform /\ C!NoWork.todo = {}
  BY DEF C!NoWork, Perform
<1>1. ASSUME NEW e \in Listed, C!ListEvent(e) PROVE C!TypeOK'
  BY <1>1 DEF C!ListEvent, C!TypeOK
<1>2. ASSUME NEW m \in Markets, C!OpenMarket(m) PROVE C!TypeOK'
  BY <1>2 DEF C!OpenMarket, C!TypeOK
<1>3. ASSUME NEW s \in Selections, C!AddRunner(s) PROVE C!TypeOK'
  BY <1>3 DEF C!AddRunner, C!TypeOK
<1>4. ASSUME NEW w \in Workers, C!ListEvents(w) PROVE C!TypeOK'
  <2> DEFINE valid == {e \in offered.events : C!ValidEvent(e)}
             todo == valid \cap {EventOf[m] : m \in offered.markets}
             r == [C!NoWork EXCEPT !.pc = "collect", !.evs = valid, !.todo = todo]
  <2>1. valid \in SUBSET Listed /\ todo \in SUBSET Listed
    BY <1>0
  <2>2. work' = [work EXCEPT ![w] = r] /\ UNCHANGED <<offered, events, markets, selections, raises>>
    BY <1>4 DEF C!ListEvents
  <2>3. overlaps' \in 0..MaxOverlaps
    BY <1>0, <1>4 DEF C!ListEvents, C!CatalogueAssumption
  <2> HIDE DEF valid, todo
  <2>4. r \in Perform /\ r.pc = "collect"
    BY <2>1 DEF C!NoWork, Perform
  <2> HIDE DEF r
  <2> QED BY <1>0, <2>2, <2>3, <2>4, ImportTypeWork
<1>5. ASSUME NEW w \in Workers, NEW e \in Listed, C!Catalogue(w, e) PROVE C!TypeOK'
  <2> DEFINE mks == {m \in offered.markets : EventOf[m] = e}
             sels == {s \in offered.selections : MarketOf[s] \in mks}
             r == [work[w] EXCEPT !.todo = @ \ {e}, !.mks = @ \cup mks, !.sels = @ \cup sels]
  <2>1. mks \in SUBSET Markets /\ sels \in SUBSET Selections
    BY <1>0
  <2>2. /\ work' = [work EXCEPT ![w] = r] /\ work[w].pc = "collect"
        /\ UNCHANGED <<offered, events, markets, selections, raises, overlaps>>
    BY <1>5 DEF C!Catalogue
  <2> HIDE DEF mks, sels
  <2>a. /\ work[w] \in Perform /\ work[w].todo \ {e} \in SUBSET Listed
        /\ work[w].mks \cup mks \in SUBSET Markets /\ work[w].sels \cup sels \in SUBSET Selections
    BY <1>0, <2>1 DEF Perform
  <2>3. r \in Perform /\ r.pc = "collect"
    BY <2>2, <2>a DEF Perform
  <2> HIDE DEF r
  <2> QED BY <1>0, <2>2, <2>3, ImportTypeWork
<1>6. ASSUME NEW w \in Workers, C!ValidateEvents(w) PROVE C!TypeOK'
  <2> DEFINE r == [work[w] EXCEPT !.pc = "EVENT", !.evs = (@ \cap WithCc) \ events]
  <2>1. /\ work' = [work EXCEPT ![w] = r] /\ work[w].todo = {}
        /\ UNCHANGED <<offered, events, markets, selections, raises, overlaps>>
    BY <1>6 DEF C!ValidateEvents
  <2>2. r \in Perform /\ r.todo = {}
    BY <1>0, <2>1 DEF Perform
  <2> HIDE DEF r
  <2> QED BY <1>0, <2>1, <2>2, ImportTypeWork
<1>7. ASSUME NEW w \in Workers, C!InsertEvents(w) PROVE C!TypeOK'
  <2> DEFINE r == [work[w] EXCEPT !.pc = "market"]
  <2>1. /\ work' = [work EXCEPT ![w] = r] /\ work[w].pc = "EVENT"
        /\ events' = events \cup work[w].evs
        /\ UNCHANGED <<offered, markets, selections, raises, overlaps>>
    BY <1>7 DEF C!InsertEvents
  <2>2. r \in Perform /\ r.todo = {} /\ work[w].evs \subseteq Listed
    BY <1>0, <2>1 DEF Perform
  <2> HIDE DEF r
  <2> QED BY <1>0, <2>1, <2>2, ImportTypeWork
<1>8. ASSUME NEW w \in Workers, C!ValidateMarkets(w) PROVE C!TypeOK'
  <2> DEFINE mks == {m \in work[w].mks : markets[m] = 0}
             r == [work[w] EXCEPT !.pc = "MARKET", !.mks = mks]
  <2>1. /\ work' = [work EXCEPT ![w] = r] /\ work[w].pc = "market"
        /\ UNCHANGED <<offered, events, markets, selections, raises, overlaps>>
    BY <1>8 DEF C!ValidateMarkets
  <2>2. mks \in SUBSET Markets
    BY <1>0 DEF Perform
  <2> HIDE DEF mks
  <2>3. r \in Perform /\ r.todo = {}
    BY <1>0, <2>1, <2>2 DEF Perform
  <2> HIDE DEF r
  <2> QED BY <1>0, <2>1, <2>3, ImportTypeWork
<1>9. ASSUME NEW w \in Workers, C!InsertMarkets(w) PROVE C!TypeOK'
  <2> DEFINE r == [work[w] EXCEPT !.pc = "selection"]
  <2>1. /\ work' = [work EXCEPT ![w] = r] /\ work[w].pc = "MARKET"
        /\ markets' \in [Markets -> Nat]
        /\ UNCHANGED <<offered, events, selections, raises, overlaps>>
    BY <1>0, <1>9 DEF C!InsertMarkets
  <2>2. r \in Perform /\ r.todo = {}
    BY <1>0, <2>1 DEF Perform
  <2> HIDE DEF r
  <2> QED BY <1>0, <2>1, <2>2, ImportTypeWork
<1>10. ASSUME NEW w \in Workers, C!ValidateSelections(w) PROVE C!TypeOK'
  <2> DEFINE sels == {s \in work[w].sels : ~C!UniqStored(s)}
             r == [work[w] EXCEPT !.pc = "SELECTION", !.sels = sels]
  <2>1. /\ work' = [work EXCEPT ![w] = r] /\ work[w].pc = "selection"
        /\ UNCHANGED <<offered, events, markets, selections, raises, overlaps>>
    BY <1>10 DEF C!ValidateSelections
  <2>2. sels \in SUBSET Selections
    BY <1>0 DEF Perform
  <2> HIDE DEF sels
  <2>3. r \in Perform /\ r.todo = {}
    BY <1>0, <2>1, <2>2 DEF Perform
  <2> HIDE DEF r
  <2> QED BY <1>0, <2>1, <2>3, ImportTypeWork
<1>11. ASSUME NEW w \in Workers, C!InsertSelections(w) PROVE C!TypeOK'
  <2>1. /\ work' = [work EXCEPT ![w] = C!NoWork] /\ selections' \in [Selections -> Nat]
        /\ UNCHANGED <<offered, events, markets, raises, overlaps>>
    BY <1>0, <1>11 DEF C!InsertSelections
  <2> QED BY <1>0, <1>a, <2>1, ImportTypeWork
<1>12. ASSUME NEW w \in Workers, C!Raise(w) \/ C!DuplicateKey(w) PROVE C!TypeOK'
  <2>1. /\ work' = [work EXCEPT ![w] = C!NoWork] /\ raises' \in 0..MaxRaises
        /\ UNCHANGED <<offered, events, markets, selections, overlaps>>
    BY <1>0, <1>12 DEF C!Raise, C!DuplicateKey, C!CatalogueAssumption
  <2> QED BY <1>0, <1>a, <2>1, ImportTypeWork
<1>13. CASE UNCHANGED C!vars
  BY <1>13 DEF C!vars, C!TypeOK
<1> QED BY <1>1, <1>2, <1>3, <1>4, <1>5, <1>6, <1>7, <1>8, <1>9, <1>10, <1>11, <1>12, <1>13
        DEF C!Next, C!Step

-----------------------------------------------------------------------------
(* The import *)

(* The perform of w goes on; the tables only grow. *)
LEMMA ImportMove ==
    ASSUME C!TypeOK, C!TypeOK', ImportInv, NEW w \in Workers,
           \A v \in Workers : v # w => work'[v] = work[v],
           events \subseteq events', \A m \in Markets : markets[m] > 0 => markets'[m] > 0,
           Good(work[w])', C!SelectionsHaveMarket', C!MarketsHaveEvent',
           MarketOf \in [Selections -> Markets],
           work[w].pc # "idle" \/ work'[w].pc # "idle",
           overlaps' = 0 => /\ overlaps = 0 /\ Lone(work[w])'
                            /\ work[w].pc = "idle" => \A v \in Workers : v # w => work[v].pc = "idle"
    PROVE  ImportInv'
<1>0. \A v \in Workers : Good(work[v]) /\ work[v] \in Perform
  BY DEF ImportInv, C!TypeOK, Perform
<1>1. ASSUME NEW v \in Workers PROVE Good(work[v])'
  <2>1. CASE v = w
    BY <2>1
  <2>2. CASE v # w
    <3> DEFINE r == work[v]
    <3>1. work'[v] = r /\ r \in Perform
      BY <1>0, <2>2
    <3>2. \A m \in r.mks : EventOf[m] \in Named
      BY <1>0 DEF Good
    <3>3. r.pc = "collect" => /\ r.todo \subseteq r.evs /\ r.evs \subseteq Named
                              /\ \A m \in r.mks : EventOf[m] \in r.evs
      BY <1>0 DEF Good
    <3>4. /\ r.pc = "EVENT" => \A m \in r.mks : EventOf[m] \in WithCc => EventOf[m] \in r.evs \cup events'
          /\ r.pc \in Stored => \A m \in r.mks : EventOf[m] \in WithCc => EventOf[m] \in events'
      BY <1>0 DEF Good
    <3>5. \A s \in r.sels : MarketOf[s] \in Markets
      BY <3>1 DEF Perform
    <3>6. /\ r.pc \in {"collect", "EVENT", "market"} => \A s \in r.sels : MarketOf[s] \in r.mks
          /\ r.pc = "MARKET" => \A s \in r.sels : MarketOf[s] \in r.mks \/ markets'[MarketOf[s]] > 0
          /\ r.pc \in {"selection", "SELECTION"} => \A s \in r.sels : markets'[MarketOf[s]] > 0
      BY <1>0, <3>5 DEF Good
    <3> HIDE DEF r
    <3> QED BY <3>1, <3>2, <3>3, <3>4, <3>6 DEF Good
  <2> QED BY <2>1, <2>2
<1>3. ASSUME overlaps' = 0 PROVE Alone' /\ \A v \in Workers : Lone(work[v])'
  <2>1. \A v \in Workers : v # w => work[v].pc = "idle"
    BY <1>3 DEF ImportInv, Alone
  <2>2. ASSUME NEW v \in Workers PROVE Lone(work[v])'
    BY <1>3, <2>1 DEF Lone
  <2> QED BY <2>1, <2>2 DEF Alone
<1> QED BY <1>1, <1>3 DEF ImportInv

(* Nothing that ImportInv is about changes. *)
LEMMA ImportUnchanged ==
    ASSUME ImportInv, UNCHANGED <<events, markets, selections, work, overlaps>>
    PROVE  ImportInv'
BY DEF ImportInv, C!SelectionsHaveMarket, C!MarketsHaveEvent, C!UniqStored, Good, Lone, Alone

(* The tables do not change. *)
LEMMA ImportSameRows ==
    ASSUME C!TypeOK, C!TypeOK', ImportInv, C!CatalogueAssumption, NEW w \in Workers,
           UNCHANGED <<events, markets, selections>>,
           \A v \in Workers : v # w => work'[v] = work[v],
           Good(work[w])', work[w].pc # "idle" \/ work'[w].pc # "idle",
           overlaps' = 0 => /\ overlaps = 0 /\ Lone(work[w])'
                            /\ work[w].pc = "idle" => \A v \in Workers : v # w => work[v].pc = "idle"
    PROVE  ImportInv'
<1>1. C!SelectionsHaveMarket' /\ C!MarketsHaveEvent'
  BY DEF ImportInv, C!SelectionsHaveMarket, C!MarketsHaveEvent
<1> QED BY <1>1, ImportMove DEF C!CatalogueAssumption

LEMMA ImportStep ==
    ASSUME C!CatalogueAssumption, C!TypeOK, ImportInv, [C!Next]_C!vars
    PROVE  ImportInv'
<1>t. C!TypeOK'
  BY ImportTypeStep
<1>c. EventOf \in [Markets -> Listed] /\ MarketOf \in [Selections -> Markets]
  BY DEF C!CatalogueAssumption
<1>0. /\ work \in [Workers -> Perform] /\ \A w \in Workers : Good(work[w])
      /\ markets \in [Markets -> Nat] /\ selections \in [Selections -> Nat]
      /\ \A w \in Workers : work[w].todo # {} => work[w].pc = "collect"
  BY DEF C!TypeOK, Perform, ImportInv
<1>n. C!NoWork.pc = "idle" /\ C!NoWork.mks = {} /\ C!NoWork.sels = {}
  BY DEF C!NoWork
<1>g. ASSUME NEW w \in Workers, work'[w] = C!NoWork PROVE Good(work[w])' /\ Lone(work[w])'
  BY <1>g, <1>n DEF Good, Lone, Stored
<1>1. CASE \/ \E e \in Listed : C!ListEvent(e)
           \/ \E m \in Markets : C!OpenMarket(m)
           \/ \E s \in Selections : C!AddRunner(s)
           \/ UNCHANGED C!vars
  BY <1>1, ImportUnchanged DEF C!ListEvent, C!OpenMarket, C!AddRunner, C!vars
<1>2. ASSUME NEW w \in Workers, C!ListEvents(w) PROVE ImportInv'
  <2> DEFINE valid == {e \in offered.events : C!ValidEvent(e)}
             todo == valid \cap {EventOf[m] : m \in offered.markets}
             r == [C!NoWork EXCEPT !.pc = "collect", !.evs = valid, !.todo = todo]
  <2>1. /\ work' = [work EXCEPT ![w] = r] /\ work[w].pc = "idle"
        /\ UNCHANGED <<events, markets, selections>>
        /\ overlaps' = IF C!OthersRun(w) /\ overlaps < MaxOverlaps THEN overlaps + 1 ELSE overlaps
    BY <1>2 DEF C!ListEvents
  <2>2. valid \subseteq Named /\ todo \subseteq valid
    BY DEF C!ValidEvent
  <2> HIDE DEF valid, todo
  <2>3. r.pc = "collect" /\ r.evs = valid /\ r.todo = todo /\ r.mks = {} /\ r.sels = {}
    BY DEF C!NoWork
  <2> HIDE DEF r
  <2>4. work'[w] = r /\ \A v \in Workers : v # w => work'[v] = work[v]
    BY <1>0, <2>1
  <2>5. Good(work[w])' /\ Lone(work[w])'
    BY <2>2, <2>3, <2>4 DEF Good, Lone, Stored
  <2>6. overlaps' = 0 => overlaps = 0 /\ \A v \in Workers : v # w => work[v].pc = "idle"
    <3>1. overlaps \in Nat /\ MaxOverlaps \in Nat \ {0} /\ overlaps <= MaxOverlaps
      BY DEF C!TypeOK, C!CatalogueAssumption
    <3>2. ASSUME overlaps' = 0 PROVE overlaps = 0 /\ ~C!OthersRun(w)
      BY <2>1, <3>1, <3>2
    <3> QED BY <3>2 DEF C!OthersRun
  <2> QED BY <1>t, <2>1, <2>3, <2>4, <2>5, <2>6, ImportSameRows
<1>3. ASSUME NEW w \in Workers, NEW e \in Listed, C!Catalogue(w, e) PROVE ImportInv'
  <2> DEFINE mks == {m \in offered.markets : EventOf[m] = e}
             sels == {s \in offered.selections : MarketOf[s] \in mks}
             r == [work[w] EXCEPT !.todo = @ \ {e}, !.mks = @ \cup mks, !.sels = @ \cup sels]
  <2>1. /\ work' = [work EXCEPT ![w] = r] /\ work[w].pc = "collect" /\ e \in work[w].todo
        /\ UNCHANGED <<events, markets, selections, overlaps>>
    BY <1>3 DEF C!Catalogue
  <2>2. (\A m \in mks : EventOf[m] = e) /\ (\A s \in sels : MarketOf[s] \in mks)
    OBVIOUS
  <2> HIDE DEF mks, sels
  <2>3. /\ r.pc = "collect" /\ r.evs = work[w].evs /\ r.todo = work[w].todo \ {e}
        /\ r.mks = work[w].mks \cup mks /\ r.sels = work[w].sels \cup sels
    BY <1>0, <2>1 DEF Perform
  <2> HIDE DEF r
  <2>4. work'[w] = r /\ \A v \in Workers : v # w => work'[v] = work[v]
    BY <1>0, <2>1
  <2>5. /\ work[w].todo \subseteq work[w].evs /\ work[w].evs \subseteq Named
        /\ \A m \in work[w].mks : EventOf[m] \in work[w].evs
        /\ \A s \in work[w].sels : MarketOf[s] \in work[w].mks
    BY <1>0, <2>1 DEF Good
  <2>6. Good(work[w])' /\ Lone(work[w])'
    BY <2>1, <2>2, <2>3, <2>4, <2>5 DEF Good, Lone, Stored
  <2> QED BY <1>t, <2>1, <2>4, <2>6, ImportSameRows
<1>4. ASSUME NEW w \in Workers, C!ValidateEvents(w) PROVE ImportInv'
  <2> DEFINE r == [work[w] EXCEPT !.pc = "EVENT", !.evs = (@ \cap WithCc) \ events]
  <2>1. /\ work' = [work EXCEPT ![w] = r] /\ work[w].pc = "collect"
        /\ UNCHANGED <<events, markets, selections, overlaps>>
    BY <1>4 DEF C!ValidateEvents
  <2>2. /\ r.pc = "EVENT" /\ r.evs = (work[w].evs \cap WithCc) \ events
        /\ r.mks = work[w].mks /\ r.sels = work[w].sels
    BY <1>0 DEF Perform
  <2> HIDE DEF r
  <2>3. work'[w] = r /\ \A v \in Workers : v # w => work'[v] = work[v]
    BY <1>0, <2>1
  <2>4. /\ \A m \in work[w].mks : EventOf[m] \in work[w].evs /\ EventOf[m] \in Named
        /\ \A s \in work[w].sels : MarketOf[s] \in work[w].mks
    BY <1>0, <2>1 DEF Good
  <2>5. Good(work[w])' /\ Lone(work[w])'
    BY <2>1, <2>2, <2>3, <2>4 DEF Good, Lone, Stored
  <2> QED BY <1>t, <2>1, <2>3, <2>5, ImportSameRows
<1>5. ASSUME NEW w \in Workers, C!InsertEvents(w) PROVE ImportInv'
  <2> DEFINE r == [work[w] EXCEPT !.pc = "market"]
  <2>1. /\ work' = [work EXCEPT ![w] = r] /\ work[w].pc = "EVENT"
        /\ events' = events \cup work[w].evs
        /\ UNCHANGED <<markets, selections, overlaps>>
    BY <1>5 DEF C!InsertEvents
  <2>2. r.pc = "market" /\ r.mks = work[w].mks /\ r.sels = work[w].sels
    BY <1>0 DEF Perform
  <2> HIDE DEF r
  <2>3. work'[w] = r /\ \A v \in Workers : v # w => work'[v] = work[v]
    BY <1>0, <2>1
  <2>4. /\ \A m \in work[w].mks : EventOf[m] \in WithCc => EventOf[m] \in work[w].evs \cup events
        /\ \A m \in work[w].mks : EventOf[m] \in Named
        /\ \A s \in work[w].sels : MarketOf[s] \in work[w].mks
    BY <1>0, <2>1 DEF Good
  <2>5. Good(work[w])' /\ Lone(work[w])'
    BY <2>1, <2>2, <2>3, <2>4 DEF Good, Lone, Stored
  <2>6. C!SelectionsHaveMarket' /\ C!MarketsHaveEvent'
    BY <2>1 DEF ImportInv, C!SelectionsHaveMarket, C!MarketsHaveEvent
  <2> QED BY <1>c, <1>t, <2>1, <2>3, <2>5, <2>6, ImportMove
<1>6. ASSUME NEW w \in Workers, C!ValidateMarkets(w) PROVE ImportInv'
  <2> DEFINE mks == {m \in work[w].mks : markets[m] = 0}
             r == [work[w] EXCEPT !.pc = "MARKET", !.mks = mks]
  <2>1. /\ work' = [work EXCEPT ![w] = r] /\ work[w].pc = "market"
        /\ UNCHANGED <<events, markets, selections, overlaps>>
    BY <1>6 DEF C!ValidateMarkets
  <2>2. \A m \in work[w].mks : m \in Markets /\ (m \in mks \/ markets[m] > 0)
    BY <1>0 DEF Perform
  <2>3. mks \subseteq work[w].mks /\ \A m \in mks : markets[m] = 0
    OBVIOUS
  <2> HIDE DEF mks
  <2>4. r.pc = "MARKET" /\ r.mks = mks /\ r.sels = work[w].sels
    BY <1>0 DEF Perform
  <2> HIDE DEF r
  <2>5. work'[w] = r /\ \A v \in Workers : v # w => work'[v] = work[v]
    BY <1>0, <2>1
  <2>6. /\ \A m \in work[w].mks : EventOf[m] \in Named /\ (EventOf[m] \in WithCc => EventOf[m] \in events)
        /\ \A s \in work[w].sels : MarketOf[s] \in work[w].mks
    BY <1>0, <2>1 DEF Good, Stored
  <2>7. Good(work[w])' /\ Lone(work[w])'
    BY <2>1, <2>2, <2>3, <2>4, <2>5, <2>6 DEF Good, Lone, Stored
  <2> QED BY <1>t, <2>1, <2>5, <2>7, ImportSameRows
<1>7. ASSUME NEW w \in Workers, C!InsertMarkets(w) PROVE ImportInv'
  <2> DEFINE r == [work[w] EXCEPT !.pc = "selection"]
  <2>1. /\ work' = [work EXCEPT ![w] = r] /\ work[w].pc = "MARKET"
        /\ \A m \in Markets : markets'[m] = markets[m] + IF m \in work[w].mks THEN 1 ELSE 0
        /\ UNCHANGED <<events, selections, overlaps>>
    BY <1>7 DEF C!InsertMarkets
  <2>2. r.pc = "selection" /\ r.mks = work[w].mks /\ r.sels = work[w].sels
    BY <1>0 DEF Perform
  <2> HIDE DEF r
  <2>3. work'[w] = r /\ \A v \in Workers : v # w => work'[v] = work[v]
    BY <1>0, <2>1
  <2>4. /\ \A m \in work[w].mks : EventOf[m] \in Named /\ (EventOf[m] \in WithCc => EventOf[m] \in events)
        /\ \A s \in work[w].sels : MarketOf[s] \in work[w].mks \/ markets[MarketOf[s]] > 0
        /\ \A s \in work[w].sels : MarketOf[s] \in Markets
        /\ work[w].mks \subseteq Markets
    BY <1>0, <1>c, <2>1 DEF Good, Stored, Perform
  <2>5. /\ \A m \in Markets : markets[m] > 0 => markets'[m] > 0
        /\ \A m \in work[w].mks : markets'[m] > 0
        /\ \A m \in Markets : markets'[m] > 0 => markets[m] > 0 \/ m \in work[w].mks
    BY <1>0, <2>1, <2>4
  <2>6. Good(work[w])' /\ Lone(work[w])'
    BY <2>1, <2>2, <2>3, <2>4, <2>5 DEF Good, Lone, Stored
  <2>7. C!SelectionsHaveMarket'
    BY <1>c, <2>1, <2>5 DEF ImportInv, C!SelectionsHaveMarket
  <2>8. C!MarketsHaveEvent'
    BY <2>1, <2>4, <2>5 DEF ImportInv, C!MarketsHaveEvent
  <2> QED BY <1>c, <1>t, <2>1, <2>3, <2>5, <2>6, <2>7, <2>8, ImportMove
<1>8. ASSUME NEW w \in Workers, C!ValidateSelections(w) PROVE ImportInv'
  <2> DEFINE sels == {s \in work[w].sels : ~C!UniqStored(s)}
             r == [work[w] EXCEPT !.pc = "SELECTION", !.sels = sels]
  <2>1. /\ work' = [work EXCEPT ![w] = r] /\ work[w].pc = "selection"
        /\ UNCHANGED <<events, markets, selections, overlaps>>
    BY <1>8 DEF C!ValidateSelections
  <2>2. sels \subseteq work[w].sels /\ \A s \in sels : ~C!UniqStored(s)
    OBVIOUS
  <2> HIDE DEF sels
  <2>3. r.pc = "SELECTION" /\ r.mks = work[w].mks /\ r.sels = sels
    BY <1>0 DEF Perform
  <2> HIDE DEF r
  <2>4. work'[w] = r /\ \A v \in Workers : v # w => work'[v] = work[v]
    BY <1>0, <2>1
  <2>5. /\ \A m \in work[w].mks : EventOf[m] \in Named /\ (EventOf[m] \in WithCc => EventOf[m] \in events)
        /\ \A s \in work[w].sels : markets[MarketOf[s]] > 0
    BY <1>0, <2>1 DEF Good, Stored
  <2>6. Good(work[w])' /\ Lone(work[w])'
    BY <2>1, <2>2, <2>3, <2>4, <2>5 DEF Good, Lone, Stored, C!UniqStored
  <2> QED BY <1>t, <2>1, <2>4, <2>6, ImportSameRows
<1>9. ASSUME NEW w \in Workers, C!InsertSelections(w) PROVE ImportInv'
  <2>1. /\ work' = [work EXCEPT ![w] = C!NoWork] /\ work[w].pc = "SELECTION"
        /\ \A s \in Selections : selections'[s] = selections[s] + IF s \in work[w].sels THEN 1 ELSE 0
        /\ UNCHANGED <<events, markets, overlaps>>
    BY <1>9 DEF C!InsertSelections
  <2>2. work'[w] = C!NoWork /\ \A v \in Workers : v # w => work'[v] = work[v]
    BY <1>0, <2>1
  <2>3. Good(work[w])' /\ Lone(work[w])'
    BY <1>g, <2>2
  <2>4. \A s \in work[w].sels : s \in Selections /\ markets[MarketOf[s]] > 0
    BY <1>0, <2>1 DEF Good, Perform
  <2>5. \A s \in Selections : selections'[s] > 0 => selections[s] > 0 \/ s \in work[w].sels
    BY <1>0, <2>1
  <2>6. C!SelectionsHaveMarket' /\ C!MarketsHaveEvent'
    BY <2>1, <2>4, <2>5 DEF ImportInv, C!SelectionsHaveMarket, C!MarketsHaveEvent
  <2> QED BY <1>c, <1>t, <2>1, <2>2, <2>3, <2>6, ImportMove
<1>10. ASSUME NEW w \in Workers, C!Raise(w) \/ C!DuplicateKey(w) PROVE ImportInv'
  <2>1. /\ work' = [work EXCEPT ![w] = C!NoWork] /\ work[w].pc # "idle"
        /\ UNCHANGED <<events, markets, selections, overlaps>>
    BY <1>10 DEF C!Raise, C!DuplicateKey
  <2>2. work'[w] = C!NoWork /\ \A v \in Workers : v # w => work'[v] = work[v]
    BY <1>0, <2>1
  <2> QED BY <1>g, <1>t, <2>1, <2>2, ImportSameRows
<1> QED BY <1>1, <1>2, <1>3, <1>4, <1>5, <1>6, <1>7, <1>8, <1>9, <1>10 DEF C!Next, C!Step

-----------------------------------------------------------------------------
(* How many rows there are *)

LEMMA WritersFinite ==
    ASSUME C!CatalogueAssumption
    PROVE  /\ IsFiniteSet(Running) /\ Cardinality(Running) \in Nat
           /\ \A m \in Markets : IsFiniteSet(MarketWriters(m)) /\ Cardinality(MarketWriters(m)) \in Nat
           /\ \A s \in Selections :
                 IsFiniteSet(SelectionWriters(s)) /\ Cardinality(SelectionWriters(s)) \in Nat
<1>1. /\ Running \subseteq Workers
      /\ \A m \in Markets : MarketWriters(m) \subseteq Workers
      /\ \A s \in Selections : SelectionWriters(s) \subseteq Workers
  BY DEF Running, MarketWriters, SelectionWriters
<1>a. IsFiniteSet(Workers)
  BY DEF C!CatalogueAssumption, C!IsFiniteSet, IsFiniteSet
<1>2. ASSUME NEW A \in SUBSET Workers PROVE IsFiniteSet(A)
  BY <1>a, FS_Subset
<1>3. \A A \in SUBSET Workers : Cardinality(A) \in Nat
  BY <1>2, FS_CardinalityType
<1> QED BY <1>1, <1>2, <1>3

(* No perform is about to write more than before, and no row is written. *)
LEMMA CountFewer ==
    ASSUME C!CatalogueAssumption, C!TypeOK, CountInv,
           Running' \subseteq Running,
           \A m \in Markets : MarketWriters(m)' \subseteq MarketWriters(m),
           \A s \in Selections : SelectionWriters(s)' \subseteq SelectionWriters(s),
           UNCHANGED <<markets, selections, overlaps>>
    PROVE  CountInv'
<1> SUFFICES ASSUME overlaps < MaxOverlaps
             PROVE  /\ Cardinality(Running)' <= 1 + overlaps
                    /\ \A m \in Markets : markets[m] + Cardinality(MarketWriters(m))' <= 1 + overlaps
                    /\ \A s \in Selections :
                          selections[s] + Cardinality(SelectionWriters(s))' <= 1 + overlaps
  BY DEF CountInv
<1>0. /\ overlaps \in Nat
      /\ \A m \in Markets : markets[m] \in Nat
      /\ \A s \in Selections : selections[s] \in Nat
  BY DEF C!TypeOK
<1>1. /\ Cardinality(Running') \in Nat /\ Cardinality(Running') <= Cardinality(Running)
  BY WritersFinite, FS_Subset, FS_CardinalityType
<1>2. ASSUME NEW m \in Markets
      PROVE  markets[m] + Cardinality(MarketWriters(m)') <= 1 + overlaps
  <2>1. /\ Cardinality(MarketWriters(m)') \in Nat
        /\ Cardinality(MarketWriters(m)') <= Cardinality(MarketWriters(m))
    BY WritersFinite, FS_Subset, FS_CardinalityType
  <2> QED BY <1>0, <2>1, WritersFinite DEF CountInv
<1>3. ASSUME NEW s \in Selections
      PROVE  selections[s] + Cardinality(SelectionWriters(s)') <= 1 + overlaps
  <2>1. /\ Cardinality(SelectionWriters(s)') \in Nat
        /\ Cardinality(SelectionWriters(s)') <= Cardinality(SelectionWriters(s))
    BY WritersFinite, FS_Subset, FS_CardinalityType
  <2> QED BY <1>0, <2>1, WritersFinite DEF CountInv
<1> QED BY <1>0, <1>1, <1>2, <1>3, WritersFinite DEF CountInv

LEMMA CountStep ==
    ASSUME C!CatalogueAssumption, C!TypeOK, CountInv, [C!Next]_C!vars
    PROVE  CountInv'
<1>0. /\ work \in [Workers -> Perform] /\ overlaps \in Nat
      /\ markets \in [Markets -> Nat] /\ selections \in [Selections -> Nat]
  BY DEF C!TypeOK, Perform
<1>n. C!NoWork.pc = "idle"
  BY DEF C!NoWork
<1>s. CASE UNCHANGED <<markets, selections, work, overlaps>>
  BY <1>s DEF CountInv, Running, MarketWriters, SelectionWriters
<1>1. CASE \/ \E e \in Listed : C!ListEvent(e)
           \/ \E m \in Markets : C!OpenMarket(m)
           \/ \E s \in Selections : C!AddRunner(s)
           \/ UNCHANGED C!vars
  BY <1>1, <1>s DEF C!ListEvent, C!OpenMarket, C!AddRunner, C!vars
<1>2. ASSUME NEW w \in Workers, C!ListEvents(w) PROVE CountInv'
  <2>1. /\ \A v \in Workers \ {w} : work'[v] = work[v]
        /\ work'[w].pc = "collect" /\ work[w].pc = "idle"
        /\ markets' = markets /\ selections' = selections
        /\ overlaps' = IF C!OthersRun(w) /\ overlaps < MaxOverlaps THEN overlaps + 1 ELSE overlaps
    BY <1>0, <1>2 DEF C!ListEvents, C!NoWork
  <2>2. /\ \A m \in Markets : MarketWriters(m)' = MarketWriters(m)
        /\ \A s \in Selections : SelectionWriters(s)' = SelectionWriters(s)
        /\ Running' = Running \cup {w} /\ w \notin Running
    BY <2>1 DEF MarketWriters, SelectionWriters, Running
  <2>3. Cardinality(Running') = Cardinality(Running) + 1
    BY <2>2, WritersFinite, FS_AddElement
  <2>4. CASE C!OthersRun(w)
    <3> SUFFICES ASSUME overlaps' < MaxOverlaps PROVE CountInv'
      BY DEF CountInv
    <3>1. overlaps < MaxOverlaps /\ overlaps' = overlaps + 1
      BY <1>0, <2>1, <2>4 DEF C!CatalogueAssumption
    <3> QED BY <1>0, <2>1, <2>2, <2>3, <3>1, WritersFinite DEF CountInv
  <2>5. CASE ~C!OthersRun(w)
    <3>1. Running = {} /\ Cardinality(Running) = 0
      BY <2>1, <2>5, FS_EmptySet DEF C!OthersRun, Running
    <3> QED BY <1>0, <2>1, <2>2, <2>3, <2>5, <3>1, WritersFinite DEF CountInv
  <2> QED BY <2>4, <2>5
<1>3. ASSUME NEW w \in Workers,
             \/ \E e \in Listed : C!Catalogue(w, e)
             \/ C!ValidateEvents(w) \/ C!InsertEvents(w)
             \/ C!Raise(w) \/ C!DuplicateKey(w)
      PROVE  CountInv'
  <2>1. /\ \A v \in Workers \ {w} : work'[v] = work[v]
        /\ work[w].pc # "idle" /\ work'[w].pc \notin {"MARKET", "SELECTION"}
        /\ UNCHANGED <<markets, selections, overlaps>>
    <3>1. ASSUME NEW e \in Listed, C!Catalogue(w, e)
          PROVE  /\ \A v \in Workers \ {w} : work'[v] = work[v]
                 /\ work[w].pc = "collect" /\ work'[w].pc = "collect"
                 /\ UNCHANGED <<markets, selections, overlaps>>
      BY <1>0, <3>1 DEF C!Catalogue, Perform
    <3>2. CASE C!ValidateEvents(w)
      BY <1>0, <3>2 DEF C!ValidateEvents, Perform
    <3>3. CASE C!InsertEvents(w)
      BY <1>0, <3>3 DEF C!InsertEvents, Perform
    <3>4. CASE C!Raise(w) \/ C!DuplicateKey(w)
      BY <1>0, <1>n, <3>4 DEF C!Raise, C!DuplicateKey
    <3> QED BY <1>3, <3>1, <3>2, <3>3, <3>4
  <2>2. /\ \A m \in Markets : MarketWriters(m)' \subseteq MarketWriters(m)
        /\ \A s \in Selections : SelectionWriters(s)' \subseteq SelectionWriters(s)
        /\ Running' \subseteq Running
    BY <2>1 DEF MarketWriters, SelectionWriters, Running
  <2> QED BY <2>1, <2>2, CountFewer
<1>4. ASSUME NEW w \in Workers, C!ValidateMarkets(w) PROVE CountInv'
  <2>1. /\ \A v \in Workers \ {w} : work'[v] = work[v]
        /\ work[w].pc = "market" /\ work'[w].pc = "MARKET"
        /\ work'[w].mks = {m \in work[w].mks : markets[m] = 0}
        /\ UNCHANGED <<markets, selections, overlaps>>
    BY <1>0, <1>4 DEF C!ValidateMarkets, Perform
  <2>2. /\ \A m \in Markets : MarketWriters(m)' \subseteq Running
        /\ \A m \in Markets : markets[m] # 0 => MarketWriters(m)' = MarketWriters(m)
        /\ \A s \in Selections : SelectionWriters(s)' = SelectionWriters(s)
        /\ Running' = Running
    BY <2>1 DEF MarketWriters, SelectionWriters, Running
  <2>3. ASSUME overlaps < MaxOverlaps, NEW m \in Markets
        PROVE  markets[m] + Cardinality(MarketWriters(m)') <= 1 + overlaps
    <3>1. CASE markets[m] = 0
      <4>1. /\ Cardinality(MarketWriters(m)') \in Nat
            /\ Cardinality(MarketWriters(m)') <= Cardinality(Running)
        BY <2>2, WritersFinite, FS_Subset, FS_CardinalityType
      <4> QED BY <1>0, <2>3, <3>1, <4>1, WritersFinite DEF CountInv
    <3>2. CASE markets[m] # 0
      BY <2>2, <2>3, <3>2 DEF CountInv
    <3> QED BY <3>1, <3>2
  <2> QED BY <2>1, <2>2, <2>3 DEF CountInv
<1>5. ASSUME NEW w \in Workers, C!InsertMarkets(w) PROVE CountInv'
  <2>1. /\ \A v \in Workers \ {w} : work'[v] = work[v]
        /\ work[w].pc = "MARKET" /\ work'[w].pc = "selection"
        /\ \A m \in Markets : markets'[m] = markets[m] + IF m \in work[w].mks THEN 1 ELSE 0
        /\ UNCHANGED <<selections, overlaps>>
    BY <1>0, <1>5 DEF C!InsertMarkets, Perform
  <2>2. /\ \A m \in Markets : MarketWriters(m)' = MarketWriters(m) \ {w}
        /\ \A m \in Markets : w \in MarketWriters(m) <=> m \in work[w].mks
        /\ \A s \in Selections : SelectionWriters(s)' = SelectionWriters(s)
        /\ Running' = Running
    BY <2>1 DEF MarketWriters, SelectionWriters, Running
  <2>3. ASSUME overlaps < MaxOverlaps, NEW m \in Markets
        PROVE  markets'[m] + Cardinality(MarketWriters(m)') <= 1 + overlaps
    <3>1. CASE m \in work[w].mks
      <4>1. Cardinality(MarketWriters(m)') = Cardinality(MarketWriters(m)) - 1
        BY <2>2, <3>1, WritersFinite, FS_RemoveElement
      <4> QED BY <1>0, <2>1, <2>3, <3>1, <4>1, WritersFinite DEF CountInv
    <3>2. CASE m \notin work[w].mks
      <4>1. MarketWriters(m)' = MarketWriters(m)
        BY <2>2, <3>2
      <4> QED BY <1>0, <2>1, <2>3, <3>2, <4>1, WritersFinite DEF CountInv
    <3> QED BY <3>1, <3>2
  <2> QED BY <2>1, <2>2, <2>3 DEF CountInv
<1>6. ASSUME NEW w \in Workers, C!ValidateSelections(w) PROVE CountInv'
  <2>1. /\ \A v \in Workers \ {w} : work'[v] = work[v]
        /\ work[w].pc = "selection" /\ work'[w].pc = "SELECTION"
        /\ work'[w].sels = {s \in work[w].sels : ~C!UniqStored(s)}
        /\ UNCHANGED <<markets, selections, overlaps>>
    BY <1>0, <1>6 DEF C!ValidateSelections, Perform
  <2>a. \A s \in Selections : selections[s] # 0 => C!UniqStored(s)
    BY <1>0 DEF C!UniqStored
  <2>2. /\ \A s \in Selections : SelectionWriters(s)' \subseteq Running
        /\ \A s \in Selections : selections[s] # 0 => SelectionWriters(s)' = SelectionWriters(s)
        /\ \A m \in Markets : MarketWriters(m)' = MarketWriters(m)
        /\ Running' = Running
    BY <2>1, <2>a DEF MarketWriters, SelectionWriters, Running
  <2>3. ASSUME overlaps < MaxOverlaps, NEW s \in Selections
        PROVE  selections[s] + Cardinality(SelectionWriters(s)') <= 1 + overlaps
    <3>1. CASE selections[s] = 0
      <4>1. /\ Cardinality(SelectionWriters(s)') \in Nat
            /\ Cardinality(SelectionWriters(s)') <= Cardinality(Running)
        BY <2>2, WritersFinite, FS_Subset, FS_CardinalityType
      <4> QED BY <1>0, <2>3, <3>1, <4>1, WritersFinite DEF CountInv
    <3>2. CASE selections[s] # 0
      BY <2>2, <2>3, <3>2 DEF CountInv
    <3> QED BY <3>1, <3>2
  <2> QED BY <2>1, <2>2, <2>3 DEF CountInv
<1>7. ASSUME NEW w \in Workers, C!InsertSelections(w) PROVE CountInv'
  <2>1. /\ \A v \in Workers \ {w} : work'[v] = work[v]
        /\ work[w].pc = "SELECTION" /\ work'[w].pc = "idle"
        /\ \A s \in Selections : selections'[s] = selections[s] + IF s \in work[w].sels THEN 1 ELSE 0
        /\ UNCHANGED <<markets, overlaps>>
    BY <1>0, <1>7, <1>n DEF C!InsertSelections
  <2>2. /\ \A s \in Selections : SelectionWriters(s)' = SelectionWriters(s) \ {w}
        /\ \A s \in Selections : w \in SelectionWriters(s) <=> s \in work[w].sels
        /\ \A m \in Markets : MarketWriters(m)' = MarketWriters(m)
        /\ Running' \subseteq Running
    BY <2>1 DEF MarketWriters, SelectionWriters, Running
  <2>3. ASSUME overlaps < MaxOverlaps, NEW s \in Selections
        PROVE  selections'[s] + Cardinality(SelectionWriters(s)') <= 1 + overlaps
    <3>1. CASE s \in work[w].sels
      <4>1. Cardinality(SelectionWriters(s)') = Cardinality(SelectionWriters(s)) - 1
        BY <2>2, <3>1, WritersFinite, FS_RemoveElement
      <4> QED BY <1>0, <2>1, <2>3, <3>1, <4>1, WritersFinite DEF CountInv
    <3>2. CASE s \notin work[w].sels
      <4>1. SelectionWriters(s)' = SelectionWriters(s)
        BY <2>2, <3>2
      <4> QED BY <1>0, <2>1, <2>3, <3>2, <4>1, WritersFinite DEF CountInv
    <3> QED BY <3>1, <3>2
  <2>4. overlaps < MaxOverlaps => Cardinality(Running') <= 1 + overlaps
    <3>1. Cardinality(Running') \in Nat /\ Cardinality(Running') <= Cardinality(Running)
      BY <2>2, WritersFinite, FS_Subset, FS_CardinalityType
    <3> QED BY <1>0, <3>1, WritersFinite DEF CountInv
  <2> QED BY <2>1, <2>2, <2>3, <2>4 DEF CountInv
<1> QED BY <1>1, <1>2, <1>3, <1>4, <1>5, <1>6, <1>7 DEF C!Next, C!Step

(* As many rows as that. *)
LEMMA CountBounds ==
    ASSUME C!CatalogueAssumption, C!TypeOK, CountInv
    PROVE  C!RowsBounded
<1>1. /\ overlaps \in Nat
      /\ \A m \in Markets : markets[m] \in Nat
      /\ \A s \in Selections : selections[s] \in Nat
  BY DEF C!TypeOK
<1> QED BY <1>1, WritersFinite DEF CountInv, C!RowsBounded

(* Only an import of selections adds rows with a uniq. *)
LEMMA UniqStep ==
    ASSUME C!TypeOK, ImportInv, [C!Next]_C!vars
    PROVE  C!UniqWrittenOnce
<1>1. CASE selections' = selections
  BY <1>1 DEF C!UniqWrittenOnce, C!TypeOK
<1>2. ASSUME NEW w \in Workers, C!InsertSelections(w) PROVE C!UniqWrittenOnce
  <2> SUFFICES ASSUME NEW s \in Selections, overlaps = 0, selections'[s] > selections[s]
               PROVE  ~C!UniqStored(s)
    BY DEF C!UniqWrittenOnce
  <2>1. work[w].pc = "SELECTION" /\ s \in work[w].sels
    BY <1>2 DEF C!InsertSelections, C!TypeOK
  <2> QED BY <2>1 DEF ImportInv, Lone
<1> QED BY <1>1, <1>2
        DEF C!Next, C!Step, C!vars, C!ListEvent, C!OpenMarket, C!AddRunner, C!ListEvents, C!Catalogue,
            C!ValidateEvents, C!InsertEvents, C!DuplicateKey, C!ValidateMarkets, C!InsertMarkets,
            C!ValidateSelections, C!Raise

(* The tables hold together whatever perform raises at whatever point and  *)
(* however performs overlap: every selection has its market, every market  *)
(* a well-named event, which is in its table unless it has no country code *)
(* (the imports of events.rb:64-66 in their order). Performs that overlap, *)
(* any number of them, add at most a row each time one is started while    *)
(* another runs; without overlap the rows of a uniq are of one import.     *)
THEOREM ImportsAreSound ==
    ASSUME C!CatalogueAssumption
    PROVE  C!Spec => ImportsSound
<1> DEFINE Inv == C!TypeOK /\ ImportInv /\ CountInv
<1>1. C!Init => Inv
  <2> SUFFICES ASSUME C!Init PROVE Inv
    OBVIOUS
  <2>1. \A w \in Workers : work[w].pc = "idle" /\ work[w].mks = {} /\ work[w].sels = {}
    BY DEF C!Init, C!NoWork
  <2>2. \A w \in Workers : Good(work[w]) /\ Lone(work[w])
    BY <2>1 DEF Good, Lone, Stored
  <2>3. (\A m \in Markets : markets[m] = 0) /\ (\A s \in Selections : selections[s] = 0)
    BY DEF C!Init
  <2>4. C!SelectionsHaveMarket /\ C!MarketsHaveEvent
    BY <2>3 DEF C!SelectionsHaveMarket, C!MarketsHaveEvent
  <2>5. ImportInv
    BY <2>1, <2>2, <2>4 DEF ImportInv, Alone
  <2>6. CountInv
    <3>1. /\ Running = {}
          /\ \A m \in Markets : MarketWriters(m) = {}
          /\ \A s \in Selections : SelectionWriters(s) = {}
      BY <2>1 DEF Running, MarketWriters, SelectionWriters
    <3>2. Cardinality({}) = 0
      BY FS_EmptySet
    <3>3. /\ Cardinality(Running) = 0
          /\ \A m \in Markets : Cardinality(MarketWriters(m)) = 0
          /\ \A s \in Selections : Cardinality(SelectionWriters(s)) = 0
      BY <3>1, <3>2
    <3>4. overlaps = 0
      BY DEF C!Init
    <3> QED BY <2>3, <3>3, <3>4 DEF CountInv
  <2> QED BY <2>5, <2>6, ImportTypeInit
<1>2. Inv /\ [C!Next]_C!vars
        => Inv' /\ C!SelectionsHaveMarket' /\ C!MarketsHaveEvent' /\ C!UniqWrittenOnce
  BY ImportTypeStep, ImportStep, CountStep, UniqStep DEF ImportInv
<1>3. Inv => C!RowsBounded
  BY CountBounds
<1> HIDE DEF Inv
<1> QED BY <1>1, <1>2, <1>3, PTL DEF C!Spec, ImportsSound, C!ImportsSound
=============================================================================
