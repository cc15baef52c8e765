------------------------- MODULE CronServiceProofs -------------------------
(* Claims on scheduled jobs, for any number of processes and jobs: CronInv   *)
(* is inductive.  The actions fall into three kinds, with a lemma each: a    *)
(* task claims jobs, tasks are done with some of their claims, or jobs are   *)
(* edited and no claim changes hands; the save of start is by itself.        *)
EXTENDS CronService, TLAPS

USE DEF File, Every, None, runVars

LEMMA RecordFacts ==
  ASSUME TypeOK, NEW j \in Jobs, store[j] # Missing
  PROVE  store[j] \in Record
BY DEF TypeOK

LEMMA NextRunNat == ASSUME now \in Nat, NEW schedule \in Nat PROVE NextRun(schedule) \in Nat
BY CronAssumption DEF NextRun

LEMMA NewRecordIsRecord ==
  ASSUME now \in Nat, NEW schedule \in Nat, NEW tag \in Tags
  PROVE  NewRecord(schedule, tag) \in Record
BY NextRunNat DEF NewRecord, Record

LEMMA InitCronInv == Init => CronInv
<1> SUFFICES ASSUME Init PROVE CronInv
  OBVIOUS
<1>1. store \in File
  <2>1. \A j \in DOMAIN Stored : Stored[j].schedule \in Nat /\ Stored[j].topic \in Tags
    BY CronAssumption
  <2> QED
    BY <2>1, NewRecordIsRecord DEF Init
<1>2. TypeOK
  BY <1>1 DEF Init, TypeOK, Empty
<1>3. \A j \in Present : store[j].by = Nobody
  BY DEF Init, Present, NewRecord
<1>4. now = 1 /\ settled = {} /\ \A w \in Tasks : claimed[w] = {} /\ since[w] = 0
  BY DEF Init
<1>5. NoFutureClaims /\ IdleBeforeStart /\ CopiesAtHand
  BY <1>4 DEF NoFutureClaims, IdleBeforeStart, CopiesAtHand
<1>6. ClaimsAreKnown /\ ExclusiveClaims /\ ClaimsAreHeld /\ SettledCopies /\ SettledStaysSettled
  BY <1>3, <1>4 DEF ClaimsAreKnown, ExclusiveClaims, ClaimsAreHeld, SettledCopies, SettledStaysSettled
<1> QED
  BY <1>2, <1>5, <1>6 DEF CronInv
-----------------------------------------------------------------------------
\* A task that holds no claim takes jobs that are free or whose claim is old.
LEMMA ClaimKeeps ==
  ASSUME CronInv, NEW w \in Tasks, NEW J \in SUBSET Jobs,
         claimed[w] = {}, \A j \in J : store[j] # Missing /\ Claimable(store[j]),
         Claim(w, J), UNCHANGED <<now, loaded, cancelling, settled, overwritten>>,
         calls' \in Nat, life' \in [Processes -> {"new", "loading", "running", "stopped", "dead"}],
         life'[Pid[w]] = "running", \A s \in Processes \ {Pid[w]} : life'[s] = life[s],
         life[Pid[w]] # "dead"
  PROVE  CronInv'
<1>1. /\ TypeOK /\ NoFutureClaims /\ IdleBeforeStart /\ CopiesAtHand
      /\ ClaimsAreKnown /\ ExclusiveClaims /\ ClaimsAreHeld
      /\ SettledCopies /\ SettledStaysSettled
  BY DEF CronInv
<1>2. \A j \in J : [store[j] EXCEPT !.by = Pid[w], !.since = now] \in Record
  <2> TAKE j \in J
  <2>1. store[j] \in Record /\ now \in Nat \ {0} /\ Pid[w] \in Processes /\ Pid[w] # Nobody
    BY <1>1, RecordFacts, CronAssumption DEF TypeOK
  <2> QED
    BY <2>1 DEF Record
<1>3. \A j \in Jobs : store'[j] = IF j \in J THEN [store[j] EXCEPT !.by = Pid[w], !.since = now]
                                             ELSE store[j]
  BY DEF Claim
<1>4. \A j \in J : /\ store'[j] \in Record /\ store'[j] # Missing
                   /\ store'[j].by = Pid[w] /\ store'[j].since = now
                   /\ store'[j].enabled = store[j].enabled
                   /\ copy'[w][j] = store'[j]
  <2> TAKE j \in J
  <2>1. store[j] \in Record
    BY <1>1, RecordFacts
  <2>2. store'[j] = [store[j] EXCEPT !.by = Pid[w], !.since = now]
    BY <1>3
  <2>3. copy'[w][j] = store'[j]
    BY <1>1, <2>2 DEF Claim, TypeOK
  <2>4. /\ store'[j].by = Pid[w] /\ store'[j].since = now
        /\ store'[j].enabled = store[j].enabled
    BY <2>1, <2>2 DEF Record
  <2>5. store'[j] \in Record
    BY <1>2, <2>2
  <2>6. store'[j] # Missing
    BY <2>5, MissingAssumption
  <2> QED
    BY <2>3, <2>4, <2>5, <2>6
<1>5. /\ claimed' = [claimed EXCEPT ![w] = J] /\ since' = [since EXCEPT ![w] = now]
      /\ \A r \in Tasks \ {w} : copy'[r] = copy[r]
  BY <1>1 DEF Claim, TypeOK
<1>6. TypeOK'
  <2>1. store' \in File
    BY <1>1, <1>2 DEF TypeOK, Claim
  <2>2. copy' \in [Tasks -> File]
    BY <1>1, <1>2 DEF TypeOK, Claim
  <2> QED
    BY <1>1, <1>5, <2>1, <2>2 DEF TypeOK
<1>7. NoFutureClaims' /\ IdleBeforeStart' /\ CopiesAtHand'
  <2>1. NoFutureClaims'
    BY <1>1, <1>5 DEF NoFutureClaims, TypeOK
  <2>2. IdleBeforeStart'
    BY <1>1, <1>5, CronAssumption DEF IdleBeforeStart, TypeOK
  <2>3. CopiesAtHand'
    <3> SUFFICES ASSUME NEW r \in Tasks, NEW j \in claimed'[r]
                 PROVE  copy'[r][j] # Missing
      BY DEF CopiesAtHand
    <3>1. CASE r = w
      BY <1>1, <1>4, <1>5, <3>1 DEF TypeOK
    <3>2. CASE r # w
      BY <1>1, <1>5, <3>2 DEF CopiesAtHand, TypeOK
    <3> QED
      BY <3>1, <3>2
  <2> QED
    BY <2>1, <2>2, <2>3
\* Any other claim on a job of J is out of date.
<1>8. \A r \in Tasks \ {w} : \A j \in (claimed[r] \cap J) \ overwritten : now >= since[r] + TTL
  <2> SUFFICES ASSUME NEW r \in Tasks \ {w}, NEW j \in (claimed[r] \cap J) \ overwritten
               PROVE  now >= since[r] + TTL
    OBVIOUS
  <2>1. store[j] # Missing /\ (store[j].by = Nobody \/ now >= store[j].since + TTL)
    BY DEF Claimable
  <2>2. Owns(r, j) => now >= since[r] + TTL
    BY <2>1, CronAssumption DEF Owns
  <2> QED
    BY <1>1, <2>1, <2>2 DEF ClaimsAreKnown
<1>9. ClaimsAreKnown'
  <2> SUFFICES ASSUME NEW r \in Tasks, NEW j \in claimed'[r] \ overwritten
               PROVE  \/ store'[j] = Missing /\ j \in settled
                      \/ Owns(r, j)'
                      \/ now >= since'[r] + TTL
    BY DEF ClaimsAreKnown
  <2>1. CASE r = w
    BY <1>1, <1>4, <1>5, <2>1 DEF Owns, TypeOK
  <2>2. CASE r # w /\ j \in J
    BY <1>1, <1>5, <1>8, <2>2 DEF TypeOK
  <2>3. CASE r # w /\ j \notin J
    BY <1>1, <1>3, <1>5, <2>3 DEF ClaimsAreKnown, Owns, TypeOK
  <2> QED
    BY <2>1, <2>2, <2>3
<1>10. ExclusiveClaims'
  <2> SUFFICES ASSUME NEW p \in Tasks, NEW r \in Tasks, p # r,
                      NEW j \in (claimed'[p] \cap claimed'[r]) \ overwritten
               PROVE  since'[p] >= since'[r] + TTL \/ since'[r] >= since'[p] + TTL
    BY DEF ExclusiveClaims
  <2>1. CASE p # w /\ r # w
    BY <1>1, <1>5, <2>1 DEF ExclusiveClaims, TypeOK
  <2>2. CASE p = w
    BY <1>1, <1>5, <1>8, <2>2 DEF TypeOK
  <2>3. CASE r = w
    BY <1>1, <1>5, <1>8, <2>3 DEF TypeOK
  <2> QED
    BY <2>1, <2>2, <2>3
<1>11. ClaimsAreHeld'
  <2> SUFFICES ASSUME NEW j \in Jobs, store'[j] # Missing, j \notin overwritten,
                      store'[j].by # Nobody, life'[store'[j].by] # "dead"
               PROVE  \E v \in Tasks : /\ Pid[v] = store'[j].by /\ j \in claimed'[v]
                                       /\ store'[j].since = since'[v]
    BY DEF ClaimsAreHeld, Present, TasksOf
  <2>1. CASE j \in J
    BY <1>1, <1>4, <1>5, <2>1 DEF TypeOK
  <2>2. CASE j \notin J
    <3>1. /\ store'[j] = store[j] /\ store[j] \in Record
      BY <1>1, <1>3, <2>2, RecordFacts
    <3>2. store[j].by \in Processes /\ life[store[j].by] # "dead"
      BY <3>1 DEF Record
    <3>3. PICK v \in Tasks : Pid[v] = store[j].by /\ j \in claimed[v] /\ store[j].since = since[v]
      BY <1>1, <3>1, <3>2 DEF ClaimsAreHeld, Present, TasksOf
    <3> QED
      BY <1>1, <1>5, <3>1, <3>3 DEF TypeOK
  <2> QED
    BY <2>1, <2>2
<1>12. SettledCopies'
  <2> SUFFICES ASSUME NEW r \in Tasks, NEW j \in (claimed'[r] \cap settled) \ overwritten,
                      Owns(r, j)'
               PROVE  ~copy'[r][j].enabled
    BY DEF SettledCopies
  <2>1. CASE r = w
    BY <1>1, <1>4, <1>5, <2>1 DEF SettledStaysSettled, Enabled, Present, TypeOK
  <2>2. CASE r # w
    <3>1. j \notin J
      <4>1. j \in claimed[r] /\ since'[r] = since[r] /\ now \in Nat /\ since[r] \in Nat
        BY <1>1, <1>5, <2>2 DEF TypeOK
      <4>2. j \in J => since[r] = now
        BY <1>4, <4>1 DEF Owns
      <4> QED
        BY <1>8, <2>2, <4>1, <4>2, CronAssumption
    <3>2. Owns(r, j) /\ j \in claimed[r]
      BY <1>1, <1>3, <1>5, <2>2, <3>1 DEF Owns, TypeOK
    <3> QED
      BY <1>1, <1>5, <2>2, <3>2 DEF SettledCopies
  <2> QED
    BY <2>1, <2>2
<1>13. SettledStaysSettled'
  BY <1>1, <1>3, <1>4 DEF SettledStaysSettled, Enabled, Present
<1> QED
  BY <1>6, <1>7, <1>9, <1>10, <1>11, <1>12, <1>13 DEF CronInv

LEMMA RunDueKeeps ==
  ASSUME CronInv, NEW w \in Tasks, RunDue(w)
  PROVE  CronInv'
<1> DEFINE due == {j \in Allowed[Pid[w]] : Due(j) /\ Claimable(store[j])}
<1>1. due \in SUBSET Jobs /\ \A j \in due : store[j] # Missing /\ Claimable(store[j])
  BY CronAssumption DEF Due, Enabled, Present
<1>2. Claim(w, due) /\ claimed[w] = {} /\ life[Pid[w]] = "running"
  BY DEF RunDue
<1>3. UNCHANGED <<now, life, loaded, cancelling, calls, settled, overwritten>>
  BY DEF RunDue
<1> QED
  BY <1>1, <1>2, <1>3, ClaimKeeps DEF CronInv, TypeOK

LEMMA RunJobKeeps ==
  ASSUME CronInv, NEW w \in Tasks, NEW j \in Jobs, NEW force \in BOOLEAN, RunJob(w, j, force)
  PROVE  CronInv'
<1>1. /\ life[Pid[w]] = "new" /\ life' = [life EXCEPT ![Pid[w]] = "running"]
      /\ UNCHANGED <<now, loaded, calls, overwritten>>
  BY DEF RunJob, Calls
<1>2. claimed[w] = {} /\ Pid[w] \in Processes
  BY <1>1, CronAssumption DEF CronInv, IdleBeforeStart
<1>3. /\ store[j] # Missing /\ Claimable(store[j]) /\ Claim(w, {j})
      /\ UNCHANGED <<cancelling, settled>>
  BY DEF RunJob, Present
<1> QED
  BY <1>1, <1>2, <1>3, ClaimKeeps DEF CronInv, TypeOK
-----------------------------------------------------------------------------
\* The tasks W are done with the jobs J of their batches: they change no other
\* record, give back the claims they hold on them, or are dead.
LEMMA FinishKeeps ==
  ASSUME CronInv, NEW W \in SUBSET Tasks, NEW J \in SUBSET Jobs, Forget(W, J),
         UNCHANGED <<now, calls, overwritten>>,
         store' \in File, settled \subseteq settled', settled' \subseteq Jobs,
         loaded' \in [Processes -> File], cancelling' \in [Tasks -> BOOLEAN],
         life' \in [Processes -> {"new", "loading", "running", "stopped", "dead"}],
         \A s \in Processes : life'[s] = life[s] \/ life'[s] = "dead",
         \A j \in Jobs :
           \/ store'[j] = store[j]
           \/ \E w \in W :
                /\ j \in J /\ j \in claimed[w] /\ Owns(w, j)
                /\ \/ store'[j] = Missing /\ j \in settled'
                   \/ /\ store'[j] \in Record /\ store'[j].by = Nobody
                      /\ j \in settled' /\ j \notin overwritten => ~store'[j].enabled,
         \A w \in W : \A j \in J : j \in claimed[w] /\ life'[Pid[w]] # "dead" /\ Owns(w, j) =>
                                   store'[j] = Missing \/ store'[j].by = Nobody,
         \A j \in settled' \ settled : /\ \E w \in W : Owns(w, j)
                                       /\ store'[j] = Missing \/ store'[j].by = Nobody
  PROVE  CronInv'
<1>1. /\ TypeOK /\ NoFutureClaims /\ IdleBeforeStart /\ CopiesAtHand
      /\ ClaimsAreKnown /\ ExclusiveClaims /\ ClaimsAreHeld
      /\ SettledCopies /\ SettledStaysSettled
  BY DEF CronInv
<1>2. \A w \in Tasks :
        /\ claimed'[w] = IF w \in W THEN claimed[w] \ J ELSE claimed[w]
        /\ since'[w] = IF w \in W /\ claimed[w] \subseteq J THEN 0 ELSE since[w]
        /\ copy'[w] = IF w \notin W THEN copy[w]
                      ELSE [j \in Jobs |-> IF j \in J THEN Missing ELSE copy[w][j]]
  BY DEF Forget
\* The claims that remain are the old ones.
<1>3. \A r \in Tasks : \A j \in claimed'[r] :
        /\ j \in claimed[r] /\ since'[r] = since[r] /\ copy'[r][j] = copy[r][j]
        /\ r \in W => j \notin J
  <2> SUFFICES ASSUME NEW r \in Tasks, NEW j \in claimed'[r]
               PROVE  /\ j \in claimed[r] /\ since'[r] = since[r] /\ copy'[r][j] = copy[r][j]
                      /\ r \in W => j \notin J
    OBVIOUS
  <2>1. CASE r \notin W
    BY <1>1, <1>2, <2>1 DEF TypeOK
  <2>2. CASE r \in W
    <3>1. j \in claimed[r] \ J /\ j \in Jobs
      BY <1>1, <1>2, <2>2 DEF TypeOK
    <3>2. since'[r] = since[r]
      BY <1>2, <3>1
    <3>3. copy'[r][j] = copy[r][j]
      BY <1>2, <2>2, <3>1
    <3> QED
      BY <2>2, <3>1, <3>2, <3>3
  <2> QED
    BY <2>1, <2>2
<1>4. TypeOK'
  <2>1. claimed' \in [Tasks -> SUBSET Jobs] /\ since' \in [Tasks -> Nat]
    BY <1>1 DEF TypeOK, Forget
  <2>2. copy' \in [Tasks -> File]
    BY <1>1 DEF TypeOK, Forget
  <2> QED
    BY <1>1, <2>1, <2>2 DEF TypeOK
<1>5. NoFutureClaims'
  <2> SUFFICES ASSUME NEW r \in Tasks PROVE since'[r] <= now'
    BY DEF NoFutureClaims
  <2>1. now \in Nat /\ now' = now /\ since[r] <= now
    BY <1>1 DEF TypeOK, NoFutureClaims
  <2>2. since'[r] = 0 \/ since'[r] = since[r]
    BY <1>2
  <2>3. CASE since'[r] = 0
    BY <2>1, <2>3
  <2>4. CASE since'[r] = since[r]
    BY <2>1, <2>4
  <2> QED
    BY <2>2, <2>3, <2>4
<1>6. IdleBeforeStart'
  <2> SUFFICES ASSUME NEW r \in Tasks, life'[Pid[r]] \in {"new", "loading"}
               PROVE  claimed'[r] = {}
    BY DEF IdleBeforeStart
  <2>1. Pid[r] \in Processes
    BY CronAssumption
  <2>2. claimed[r] = {}
    BY <1>1, <2>1 DEF IdleBeforeStart
  <2> QED
    BY <1>2, <2>2
<1>7. CopiesAtHand'
  BY <1>1, <1>3 DEF CopiesAtHand
<1>8. ClaimsAreKnown'
  <2> SUFFICES ASSUME NEW r \in Tasks, NEW j \in claimed'[r] \ overwritten
               PROVE  \/ store'[j] = Missing /\ j \in settled'
                      \/ Owns(r, j)'
                      \/ now >= since'[r] + TTL
    BY DEF ClaimsAreKnown
  <2>1. j \in claimed[r] /\ since'[r] = since[r] /\ (r \in W => j \notin J) /\ j \in Jobs
    BY <1>1, <1>3 DEF TypeOK
  <2>2. CASE store'[j] = store[j]
    BY <1>1, <2>1, <2>2 DEF ClaimsAreKnown, Owns
  <2>3. CASE store'[j] # store[j]
    <3>1. PICK w \in W : j \in J /\ j \in claimed[w] /\ Owns(w, j)
      BY <2>1, <2>3
    <3>2. w # r /\ since[w] \in Nat /\ since[r] \in Nat
      BY <1>1, <2>1, <3>1 DEF TypeOK
    <3>3. since[w] # since[r]
      BY <1>1, <2>1, <3>1, <3>2, CronAssumption DEF ExclusiveClaims
    <3> QED
      BY <1>1, <2>1, <3>1, <3>3 DEF ClaimsAreKnown, Owns
  <2> QED
    BY <2>2, <2>3
<1>9. ExclusiveClaims'
  BY <1>1, <1>3 DEF ExclusiveClaims
<1>10. ClaimsAreHeld'
  <2> SUFFICES ASSUME NEW j \in Jobs, store'[j] # Missing, j \notin overwritten,
                      store'[j].by # Nobody, life'[store'[j].by] # "dead"
               PROVE  \E v \in Tasks : /\ Pid[v] = store'[j].by /\ j \in claimed'[v]
                                       /\ store'[j].since = since'[v]
    BY DEF ClaimsAreHeld, Present, TasksOf
  <2>1. store'[j] = store[j] /\ store[j] \in Record
    BY <1>1, RecordFacts
  <2>2. store[j].by \in Processes /\ life[store[j].by] # "dead"
    BY <2>1 DEF Record
  <2>3. PICK v \in Tasks : Pid[v] = store[j].by /\ j \in claimed[v] /\ store[j].since = since[v]
    BY <1>1, <2>1, <2>2 DEF ClaimsAreHeld, Present, TasksOf
  <2>4. ~(v \in W /\ j \in J)
    BY <2>1, <2>3 DEF Owns
  <2>5. j \in claimed'[v] /\ since'[v] = since[v]
    <3>1. CASE v \in W
      <4>1. claimed'[v] = claimed[v] \ J
        BY <1>2, <3>1
      <4>2. since'[v] = IF claimed[v] \subseteq J THEN 0 ELSE since[v]
        BY <1>2, <3>1
      <4> QED
        BY <2>3, <2>4, <3>1, <4>1, <4>2
    <3>2. CASE v \notin W
      BY <1>2, <2>3, <3>2
    <3> QED
      BY <3>1, <3>2
  <2> QED
    BY <2>1, <2>3, <2>5
<1>11. SettledCopies'
  <2> SUFFICES ASSUME NEW r \in Tasks, NEW j \in (claimed'[r] \cap settled') \ overwritten,
                      Owns(r, j)'
               PROVE  ~copy'[r][j].enabled
    BY DEF SettledCopies
  <2>1. j \in claimed[r] /\ since'[r] = since[r] /\ copy'[r][j] = copy[r][j] /\ j \in Jobs
    BY <1>1, <1>3 DEF TypeOK
  <2>2. store'[j] # Missing /\ store'[j].by # Nobody
    BY CronAssumption DEF Owns
  <2>3. store'[j] = store[j] /\ j \in settled
    BY <2>1, <2>2
  <2> QED
    BY <1>1, <2>1, <2>3 DEF SettledCopies, Owns
<1>12. SettledStaysSettled'
  <2> SUFFICES ASSUME NEW j \in Jobs, j \in settled', store'[j] # Missing, store'[j].enabled,
                      j \notin overwritten
               PROVE  FALSE
    BY DEF SettledStaysSettled, Enabled, Present
  <2>1. store'[j] = store[j]
    OBVIOUS
  <2>2. j \in settled
    BY <2>1, CronAssumption DEF Owns
  <2> QED
    BY <1>1, <2>1, <2>2 DEF SettledStaysSettled, Enabled, Present
<1> QED
  BY <1>4, <1>5, <1>6, <1>7, <1>8, <1>9, <1>10, <1>11, <1>12 DEF CronInv

\* The same of one task.
LEMMA TaskFinishKeeps ==
  ASSUME CronInv, NEW w \in Tasks, NEW J \in SUBSET claimed[w], Forget({w}, J),
         UNCHANGED <<now, life, loaded, calls, overwritten>>,
         store' \in File, settled \subseteq settled', settled' \subseteq Jobs,
         cancelling' \in [Tasks -> BOOLEAN],
         \A j \in Jobs : \/ store'[j] = store[j]
                         \/ j \in J /\ Owns(w, j) /\ store'[j] = Missing /\ j \in settled'
                         \/ /\ j \in J /\ Owns(w, j) /\ store'[j] \in Record /\ store'[j].by = Nobody
                            /\ j \in settled' /\ j \notin overwritten => ~store'[j].enabled,
         \A j \in J : Owns(w, j) => store'[j] = Missing \/ store'[j].by = Nobody,
         \A j \in settled' \ settled : /\ Owns(w, j)
                                       /\ store'[j] = Missing \/ store'[j].by = Nobody
  PROVE  CronInv'
<1>1. TypeOK /\ J \in SUBSET Jobs /\ {w} \in SUBSET Tasks
  BY DEF CronInv, TypeOK
<1>2. \A j \in Jobs :
        \/ store'[j] = store[j]
        \/ \E v \in {w} : /\ j \in J /\ j \in claimed[v] /\ Owns(v, j)
                        /\ \/ store'[j] = Missing /\ j \in settled'
                           \/ /\ store'[j] \in Record /\ store'[j].by = Nobody
                              /\ j \in settled' /\ j \notin overwritten => ~store'[j].enabled
  OBVIOUS
<1>3. \A v \in {w} : \A j \in J : j \in claimed[v] /\ life'[Pid[v]] # "dead" /\ Owns(v, j) =>
                                 store'[j] = Missing \/ store'[j].by = Nobody
  OBVIOUS
<1>4. \A j \in settled' \ settled : /\ \E v \in {w} : Owns(v, j)
                                    /\ store'[j] = Missing \/ store'[j].by = Nobody
  OBVIOUS
<1>5. /\ loaded' \in [Processes -> File] /\ life' = life
      /\ life' \in [Processes -> {"new", "loading", "running", "stopped", "dead"}]
  BY <1>1 DEF TypeOK
<1> QED
  BY <1>1, <1>2, <1>3, <1>4, <1>5, FinishKeeps

LEMMA AfterRunIsRecord ==
  ASSUME now \in Nat, NEW r \in Record, NEW j \in Jobs
  PROVE  /\ AfterRun(r, j) \in Record
         /\ AfterRun(r, j).enabled => r.enabled /\ (r.schedule = Every \/ j \in DeleteAfterRun)
BY NextRunNat DEF AfterRun, Record

LEMMA RecordedIsRecord ==
  ASSUME NEW j \in Jobs, store[j] \in Record, NEW r \in Record
  PROVE  /\ Recorded(j, r) \in Record /\ Recorded(j, r).by = Nobody
         /\ Recorded(j, r).enabled = r.enabled
BY DEF Recorded, Unclaimed, Record

LEMMA CallbackReturnsKeeps ==
  ASSUME CronInv, NEW w \in Tasks, NEW j \in Jobs, CallbackReturns(w, j)
  PROVE  CronInv'
<1>1. TypeOK /\ CopiesAtHand /\ SettledCopies
  BY DEF CronInv
<1>2. /\ j \in claimed[w] /\ Forget({w}, {j})
      /\ UNCHANGED <<now, life, loaded, cancelling, calls, overwritten>>
  BY DEF CallbackReturns
<1>3. copy[w][j] \in Record
  BY <1>1, <1>2 DEF TypeOK, CopiesAtHand
<1>4. CASE ~Owns(w, j)
  <2>1. UNCHANGED <<store, settled>>
    BY <1>4 DEF CallbackReturns
  <2> QED
    BY <1>1, <1>2, <1>4, <2>1, TaskFinishKeeps DEF TypeOK
<1>5. CASE Owns(w, j) /\ copy[w][j].schedule # Every /\ j \in DeleteAfterRun
  <2>1. store' = [store EXCEPT ![j] = Missing] /\ settled' = settled \cup {j}
    BY <1>5 DEF CallbackReturns
  <2> QED
    BY <1>1, <1>2, <1>5, <2>1, TaskFinishKeeps DEF TypeOK
<1>6. CASE Owns(w, j) /\ ~(copy[w][j].schedule # Every /\ j \in DeleteAfterRun)
  <2> DEFINE r == Recorded(j, AfterRun(copy[w][j], j))
  <2>1. /\ store' = [store EXCEPT ![j] = r]
        /\ settled' = IF copy[w][j].schedule # Every THEN settled \cup {j} ELSE settled
    BY <1>6 DEF CallbackReturns
  <2>2. AfterRun(copy[w][j], j) \in Record /\ store[j] \in Record
    BY <1>1, <1>3, <1>6, AfterRunIsRecord DEF TypeOK, Owns
  <2>3. r \in Record /\ r.by = Nobody /\ r.enabled = AfterRun(copy[w][j], j).enabled
    BY <2>2, RecordedIsRecord
  <2>4. j \in settled' /\ j \notin overwritten => ~r.enabled
    <3>1. CASE copy[w][j].schedule # Every
      BY <1>1, <1>3, <1>6, <2>3, <3>1, AfterRunIsRecord DEF TypeOK
    <3>2. CASE copy[w][j].schedule = Every
      BY <1>1, <1>2, <1>3, <1>6, <2>1, <2>3, <3>2, AfterRunIsRecord DEF TypeOK, SettledCopies
    <3> QED
      BY <3>1, <3>2
  <2>5. store' \in File /\ store'[j] = r /\ \A k \in Jobs \ {j} : store'[k] = store[k]
    BY <1>1, <2>1, <2>3 DEF TypeOK
  <2> HIDE DEF r
  <2> QED
    BY <1>1, <1>2, <1>6, <2>1, <2>3, <2>4, <2>5, TaskFinishKeeps DEF TypeOK
<1> QED
  BY <1>4, <1>5, <1>6

LEMMA CallbackCancelledKeeps ==
  ASSUME CronInv, NEW w \in Tasks, NEW j \in Jobs, CallbackCancelled(w, j)
  PROVE  CronInv'
<1>1. TypeOK /\ CopiesAtHand /\ SettledCopies /\ SettledStaysSettled
  BY DEF CronInv
<1>2. /\ j \in claimed[w] /\ Forget({w}, claimed[w])
      /\ store' = CancelledBatch(w, j)
      /\ cancelling' = [v \in Tasks |-> v # w /\ (cancelling[v] \/ v \in Replaced(Pid[w]))]
      /\ UNCHANGED <<now, life, loaded, calls, settled, overwritten>>
  BY DEF CallbackCancelled
<1>3. \A k \in Jobs : \/ store'[k] = store[k] /\ ~(k \in claimed[w] /\ Owns(w, k))
                      \/ /\ k \in claimed[w] /\ Owns(w, k)
                         /\ store'[k] \in Record /\ store'[k].by = Nobody
                         /\ k \in settled /\ k \notin overwritten => ~store'[k].enabled
  <2> SUFFICES ASSUME NEW k \in Jobs, k \in claimed[w], Owns(w, k)
               PROVE  /\ store'[k] \in Record /\ store'[k].by = Nobody
                      /\ k \in settled /\ k \notin overwritten => ~store'[k].enabled
    BY <1>2 DEF CancelledBatch
  <2>1. store[k] \in Record /\ copy[w][k] \in Record
    BY <1>1 DEF TypeOK, CopiesAtHand, Owns
  <2>2. CASE k = j
    <3> DEFINE r == [copy[w][k] EXCEPT !.status = "cancelled"]
    <3>1. r \in Record /\ r.enabled = copy[w][k].enabled
      BY <2>1 DEF Record
    <3>2. store'[k] = Recorded(k, r)
      BY <1>2, <2>2 DEF CancelledBatch
    <3>3. k \in settled /\ k \notin overwritten => ~copy[w][k].enabled
      BY <1>1 DEF SettledCopies
    <3> HIDE DEF r
    <3> QED
      BY <2>1, <3>1, <3>2, <3>3, RecordedIsRecord
  <2>3. CASE k # j
    <3>1. store'[k] = Unclaimed(store[k])
      BY <1>2, <2>3 DEF CancelledBatch
    <3>2. /\ Unclaimed(store[k]) \in Record /\ Unclaimed(store[k]).by = Nobody
          /\ Unclaimed(store[k]).enabled = store[k].enabled
      BY <2>1 DEF Unclaimed, Record
    <3>3. k \in settled /\ k \notin overwritten => ~store[k].enabled
      BY <1>1, <2>1, MissingAssumption DEF SettledStaysSettled, Enabled, Present
    <3> QED
      BY <3>1, <3>2, <3>3
  <2> QED
    BY <2>2, <2>3
<1>4. store' \in File
  <2>1. store' = [k \in Jobs |-> store'[k]]
    BY <1>2 DEF CancelledBatch
  <2>2. \A k \in Jobs : store'[k] \in Record \cup {Missing}
    BY <1>1, <1>3 DEF TypeOK
  <2> QED
    BY <2>1, <2>2
<1>5. \A k \in Jobs :
        \/ store'[k] = store[k]
        \/ /\ k \in claimed[w] /\ Owns(w, k) /\ store'[k] \in Record /\ store'[k].by = Nobody
           /\ k \in settled' /\ k \notin overwritten => ~store'[k].enabled
  BY <1>2, <1>3
<1>6. \A k \in claimed[w] : Owns(w, k) => store'[k] = Missing \/ store'[k].by = Nobody
  BY <1>1, <1>3 DEF TypeOK
<1>7. /\ settled \subseteq settled' /\ settled' \subseteq Jobs /\ settled' \ settled = {}
      /\ loaded' \in [Processes -> File] /\ cancelling' \in [Tasks -> BOOLEAN]
      /\ life' \in [Processes -> {"new", "loading", "running", "stopped", "dead"}]
      /\ \A r \in Processes : life'[r] = life[r]
  BY <1>1, <1>2 DEF TypeOK
<1> QED
  BY <1>2, <1>4, <1>5, <1>6, <1>7, TaskFinishKeeps

LEMMA CrashKeeps ==
  ASSUME CronInv, NEW s \in Processes, Crash(s)
  PROVE  CronInv'
<1>1. TypeOK
  BY DEF CronInv
<1>2. /\ Forget(TasksOf(s), Jobs) /\ life' = [life EXCEPT ![s] = "dead"]
      /\ loaded' = [loaded EXCEPT ![s] = Empty] /\ cancelling' \in [Tasks -> BOOLEAN]
      /\ UNCHANGED <<now, store, calls, settled, overwritten>>
  BY <1>1 DEF Crash, TypeOK
<1>3. loaded' \in [Processes -> File]
  BY <1>1, <1>2 DEF TypeOK, Empty
<1> QED
  BY <1>1, <1>2, <1>3, FinishKeeps DEF TasksOf, TypeOK
-----------------------------------------------------------------------------
\* A step of another kind: no process claims or finishes a job, and unless a start
\* put the record back, a record keeps its claim, a new one has none, and a settled
\* one is not enabled.
LEMMA EditKeeps ==
  ASSUME CronInv, UNCHANGED runVars, now' \in Nat \ {0}, now' >= now, calls' \in Nat, store' \in File,
         loaded' \in [Processes -> File], cancelling' \in [Tasks -> BOOLEAN],
         life' \in [Processes -> {"new", "loading", "running", "stopped", "dead"}],
         settled' \subseteq Jobs, overwritten \subseteq overwritten', overwritten' \subseteq Jobs,
         \A s \in Processes :
           /\ life'[s] \in {"new", "loading"} => life[s] \in {"new", "loading"}
           /\ life[s] = "dead" => life'[s] = "dead",
         \A j \in Jobs \ overwritten' :
           /\ store[j] # Missing /\ store'[j] # Missing =>
                store'[j].by = store[j].by /\ store'[j].since = store[j].since
           /\ store[j] # Missing /\ store'[j] = Missing => j \in settled'
           /\ store[j] = Missing /\ store'[j] # Missing =>
                j \notin settled /\ j \notin settled' /\ store'[j].by = Nobody
           /\ j \in settled' \ settled => store'[j] = Missing
           /\ j \in settled \ settled' => store[j] # Missing
           /\ j \in settled' /\ store'[j] # Missing /\ store'[j].enabled =>
                j \in settled /\ store[j] # Missing /\ store[j].enabled
  PROVE  CronInv'
<1>1. /\ TypeOK /\ NoFutureClaims /\ IdleBeforeStart /\ CopiesAtHand
      /\ ClaimsAreKnown /\ ExclusiveClaims /\ ClaimsAreHeld
      /\ SettledCopies /\ SettledStaysSettled
  BY DEF CronInv
<1>2. claimed' = claimed /\ since' = since /\ copy' = copy
  BY DEF runVars
<1>3. TypeOK'
  BY <1>1, <1>2 DEF TypeOK
<1>4. NoFutureClaims' /\ IdleBeforeStart' /\ CopiesAtHand' /\ ExclusiveClaims'
  <2>1. NoFutureClaims'
    BY <1>1, <1>2 DEF NoFutureClaims, TypeOK
  <2>2. IdleBeforeStart'
    BY <1>1, <1>2, CronAssumption DEF IdleBeforeStart
  <2>3. CopiesAtHand' /\ ExclusiveClaims'
    BY <1>1, <1>2 DEF CopiesAtHand, ExclusiveClaims
  <2> QED
    BY <2>1, <2>2, <2>3
<1>5. \A r \in Tasks : \A j \in Jobs \ overwritten' :
        /\ Owns(r, j) => (store'[j] = Missing /\ j \in settled') \/ Owns(r, j)'
        /\ j \in settled' /\ Owns(r, j)' => j \in settled /\ Owns(r, j)
  BY <1>2 DEF Owns
<1>6. ClaimsAreKnown'
  <2> SUFFICES ASSUME NEW r \in Tasks, NEW j \in claimed[r] \ overwritten'
               PROVE  \/ store'[j] = Missing /\ j \in settled'
                      \/ Owns(r, j)'
                      \/ now' >= since[r] + TTL
    BY <1>2 DEF ClaimsAreKnown
  <2>1. j \in Jobs \ overwritten' /\ j \notin overwritten
    BY <1>1 DEF TypeOK
  <2>2. CASE store[j] = Missing /\ j \in settled
    BY <2>1, <2>2
  <2>3. CASE Owns(r, j)
    BY <1>5, <2>1, <2>3
  <2>4. CASE now >= since[r] + TTL
    BY <1>1, <2>4, CronAssumption DEF TypeOK
  <2> QED
    BY <1>1, <2>1, <2>2, <2>3, <2>4 DEF ClaimsAreKnown
<1>7. ClaimsAreHeld'
  <2> SUFFICES ASSUME NEW j \in Jobs \ overwritten', store'[j] # Missing,
                      store'[j].by # Nobody, life'[store'[j].by] # "dead"
               PROVE  \E v \in Tasks : /\ Pid[v] = store'[j].by /\ j \in claimed[v]
                                       /\ store'[j].since = since[v]
    BY <1>2 DEF ClaimsAreHeld, Present, TasksOf
  <2>1. store[j] # Missing /\ store'[j].by = store[j].by /\ store'[j].since = store[j].since
    OBVIOUS
  <2>2. store[j].by \in Processes
    <3>1. store[j] \in Record
      BY <1>1, <2>1, RecordFacts
    <3> QED
      BY <2>1, <3>1 DEF Record
  <2> QED
    BY <1>1, <2>1, <2>2 DEF ClaimsAreHeld, Present, TasksOf
<1>8. SettledCopies'
  <2> SUFFICES ASSUME NEW r \in Tasks, NEW j \in (claimed[r] \cap settled') \ overwritten',
                      Owns(r, j)'
               PROVE  ~copy[r][j].enabled
    BY <1>2 DEF SettledCopies
  <2>1. j \in Jobs \ overwritten' /\ j \notin overwritten
    BY <1>1 DEF TypeOK
  <2> QED
    BY <1>1, <1>5, <2>1 DEF SettledCopies
<1>9. SettledStaysSettled'
  BY <1>1 DEF SettledStaysSettled, Enabled, Present
<1> QED
  BY <1>3, <1>4, <1>6, <1>7, <1>8, <1>9 DEF CronInv

LEMMA CallsFacts ==
  ASSUME TypeOK, NEW s \in Processes, Calls(s)
  PROVE  /\ UNCHANGED <<now, loaded, overwritten>> /\ calls' \in Nat
         /\ life' \in [Processes -> {"new", "loading", "running", "stopped", "dead"}]
         /\ \A r \in Processes :
              /\ life'[r] \in {"new", "loading"} => life[r] \in {"new", "loading"}
              /\ life[r] = "dead" => life'[r] = "dead"
BY DEF Calls, TypeOK

LEMMA ArmTimerFacts ==
  ASSUME TypeOK, NEW s \in Processes, ArmTimer(s)
  PROVE  cancelling' \in [Tasks -> BOOLEAN]
BY DEF ArmTimer, TypeOK

\* A call that changes the record of one job, but not who holds it.
LEMMA CallKeeps ==
  ASSUME CronInv, NEW s \in Processes, Calls(s), ArmTimer(s), UNCHANGED runVars,
         NEW j \in Jobs, settled' \subseteq Jobs, NEW r \in Record \cup {Missing},
         store' = [store EXCEPT ![j] = r],
         \A k \in Jobs \ {j} : k \in settled' <=> k \in settled,
         /\ store[j] # Missing /\ r # Missing => r.by = store[j].by /\ r.since = store[j].since
         /\ store[j] # Missing /\ r = Missing => j \in settled'
         /\ store[j] = Missing /\ r # Missing => j \notin settled /\ j \notin settled' /\ r.by = Nobody
         /\ j \in settled' \ settled => r = Missing
         /\ j \in settled \ settled' => store[j] # Missing
         /\ j \in settled' /\ r # Missing /\ r.enabled =>
              j \in settled /\ store[j] # Missing /\ store[j].enabled
  PROVE  CronInv'
<1>1. TypeOK
  BY DEF CronInv
<1>2. store' \in File /\ store'[j] = r /\ \A k \in Jobs \ {j} : store'[k] = store[k]
  BY <1>1 DEF TypeOK, File
<1>3. \A k \in Jobs \ overwritten' :
        /\ store[k] # Missing /\ store'[k] # Missing =>
             store'[k].by = store[k].by /\ store'[k].since = store[k].since
        /\ store[k] # Missing /\ store'[k] = Missing => k \in settled'
        /\ store[k] = Missing /\ store'[k] # Missing =>
             k \notin settled /\ k \notin settled' /\ store'[k].by = Nobody
        /\ k \in settled' \ settled => store'[k] = Missing
        /\ k \in settled \ settled' => store[k] # Missing
        /\ k \in settled' /\ store'[k] # Missing /\ store'[k].enabled =>
             k \in settled /\ store[k] # Missing /\ store[k].enabled
  <2> TAKE k \in Jobs \ overwritten'
  <2>1. CASE k = j
    BY <1>2, <2>1
  <2>2. CASE k # j
    BY <1>2, <2>2
  <2> QED
    BY <2>1, <2>2
<1> QED
  BY <1>1, <1>2, <1>3, CallsFacts, ArmTimerFacts, EditKeeps DEF TypeOK
LEMMA AddJobKeeps ==
  ASSUME CronInv, NEW s \in Processes, NEW j \in Jobs, NEW schedule \in Asked[j],
         NEW tag \in Tags, AddJob(s, j, schedule, tag)
  PROVE  CronInv'
<1>1. TypeOK
  BY DEF CronInv
<1>2. Calls(s) /\ ArmTimer(s) /\ UNCHANGED runVars /\ settled' = settled
      /\ store[j] = Missing /\ j \notin settled
  BY DEF AddJob, Present
<1>3. schedule \in Nat /\ NextRun(schedule) \in Nat
  BY <1>1, CronAssumption, NextRunNat DEF TypeOK
<1>4. CASE UNCHANGED store
  <2>1. store[j] \in Record \cup {Missing} /\ store' = [store EXCEPT ![j] = store[j]]
    BY <1>1, <1>4 DEF TypeOK
  <2> QED
    BY <1>1, <1>2, <2>1, CallKeeps DEF TypeOK
<1>5. CASE \E i \in Enabled : \E r \in {[store[i] EXCEPT !.schedule = schedule, !.next = NextRun(schedule)],
                                        [store[i] EXCEPT !.next = NextRun(schedule)]} :
             store' = [store EXCEPT ![i] = r]
  <2>1. PICK i \in Enabled :
          \E r \in {[store[i] EXCEPT !.schedule = schedule, !.next = NextRun(schedule)],
                    [store[i] EXCEPT !.next = NextRun(schedule)]} : store' = [store EXCEPT ![i] = r]
    BY <1>5
  <2>2. PICK r \in {[store[i] EXCEPT !.schedule = schedule, !.next = NextRun(schedule)],
                    [store[i] EXCEPT !.next = NextRun(schedule)]} : store' = [store EXCEPT ![i] = r]
    BY <2>1
  <2>3. i \in Jobs /\ store[i] \in Record /\ store[i] # Missing
    BY <1>1, RecordFacts DEF Enabled, Present
  <2>4. /\ r \in Record /\ r # Missing /\ r.by = store[i].by /\ r.since = store[i].since
        /\ r.enabled = store[i].enabled
    <3>1. CASE r = [store[i] EXCEPT !.schedule = schedule, !.next = NextRun(schedule)]
      BY <1>3, <2>3, <3>1, MissingAssumption DEF Record
    <3>2. CASE r = [store[i] EXCEPT !.next = NextRun(schedule)]
      BY <1>3, <2>3, <3>2, MissingAssumption DEF Record
    <3> QED
      BY <3>1, <3>2
  <2> QED
    BY <1>1, <1>2, <2>2, <2>3, <2>4, CallKeeps DEF TypeOK
<1>6. CASE store' = [store EXCEPT ![j] = NewRecord(schedule, tag)]
  <2>1. NewRecord(schedule, tag) \in Record /\ NewRecord(schedule, tag).by = Nobody
    BY <1>1, <1>3, NewRecordIsRecord DEF NewRecord, TypeOK
  <2> QED
    BY <1>1, <1>2, <1>6, <2>1, CallKeeps DEF TypeOK
<1>7. ASSUME NEW i \in Enabled,
             store' = [store EXCEPT ![i].schedule = schedule, ![i].next = NextRun(schedule)]
      PROVE  store' = [store EXCEPT ![i] = [store[i] EXCEPT !.schedule = schedule,
                                                            !.next = NextRun(schedule)]]
  <2>1. i \in Jobs /\ store[i] \in Record
    BY <1>1, RecordFacts DEF Enabled, Present
  <2> QED
    BY <1>1, <1>7, <2>1 DEF TypeOK, File
<1>8. CASE \E i \in SameTopic(tag) :
             store' = [store EXCEPT ![i].schedule = schedule, ![i].next = NextRun(schedule)]
  BY <1>5, <1>7, <1>8 DEF SameTopic
<1>9. CASE \E i \in SameSchedule(schedule) :
              store' = IF store[i].next # None THEN store
                       ELSE [store EXCEPT ![i].next = NextRun(schedule)]
  BY <1>4, <1>5, <1>9 DEF SameSchedule
<1> QED
  BY <1>4, <1>6, <1>8, <1>9 DEF AddJob

LEMMA RemoveJobKeeps ==
  ASSUME CronInv, NEW s \in Processes, NEW j \in Jobs, RemoveJob(s, j)
  PROVE  CronInv'
<1>1. TypeOK
  BY DEF CronInv
<1>2. /\ Calls(s) /\ ArmTimer(s) /\ UNCHANGED runVars /\ store[j] # Missing
      /\ store' = [store EXCEPT ![j] = Missing] /\ settled' = settled \cup {j}
  BY DEF RemoveJob, Present
<1> QED
  BY <1>1, <1>2, CallKeeps DEF TypeOK

LEMMA EnableJobKeeps ==
  ASSUME CronInv, NEW s \in Processes, NEW j \in Jobs, EnableJob(s, j)
  PROVE  CronInv'
<1> DEFINE next == NextRun(store[j].schedule)
           r == [store[j] EXCEPT !.enabled = next # None, !.next = next,
                                 !.status = IF next = None THEN "expired" ELSE store[j].status]
<1>1. TypeOK
  BY DEF CronInv
<1>2. /\ Calls(s) /\ ArmTimer(s) /\ UNCHANGED runVars /\ store[j] # Missing
      /\ store' = [store EXCEPT ![j] = r] /\ settled' = settled \ {j}
  BY DEF EnableJob, Present
<1>3. store[j] \in Record /\ next \in Nat
  <2>1. store[j] \in Record
    BY <1>1, <1>2, RecordFacts
  <2> QED
    BY <1>1, <2>1, NextRunNat DEF Record, TypeOK
<1> HIDE DEF next
<1>4. r \in Record /\ r # Missing /\ r.by = store[j].by /\ r.since = store[j].since
  BY <1>3, MissingAssumption DEF Record
<1> HIDE DEF r
<1> QED
  BY <1>1, <1>2, <1>4, CallKeeps DEF TypeOK

LEMMA DisableJobKeeps ==
  ASSUME CronInv, NEW s \in Processes, NEW j \in Jobs, DisableJob(s, j)
  PROVE  CronInv'
<1> DEFINE r == [store[j] EXCEPT !.enabled = FALSE, !.next = None]
<1>1. TypeOK
  BY DEF CronInv
<1>2. /\ Calls(s) /\ ArmTimer(s) /\ UNCHANGED runVars /\ store[j] # Missing
      /\ store' = Disabled(j) /\ settled' = settled
  BY DEF DisableJob, Present
<1>3. store[j] \in Record
  BY <1>1, <1>2, RecordFacts
<1>4. /\ r \in Record /\ r # Missing /\ r.by = store[j].by /\ r.since = store[j].since
      /\ ~r.enabled
  <2>1. r \in Record /\ r.by = store[j].by /\ r.since = store[j].since
    BY <1>3 DEF Record, None
  <2>2. r.enabled = FALSE
    BY <1>3 DEF Record
  <2> QED
    BY <2>1, <2>2, MissingAssumption
<1>5. store' = [store EXCEPT ![j] = r]
  BY <1>1, <1>2, <1>3 DEF Disabled, TypeOK, File
<1> HIDE DEF r
<1> QED
  BY <1>1, <1>2, <1>4, <1>5, CallKeeps DEF TypeOK

\* What start writes of a record it has read keeps the claim and enables nothing.
LEMMA RecomputedFacts ==
  ASSUME now \in Nat, NEW r \in Record
  PROVE  /\ Recomputed(r) \in Record /\ Recomputed(r).by = r.by /\ Recomputed(r).since = r.since
         /\ Recomputed(r).enabled => r.enabled
<1>1. NextRun(Every) \in Nat /\ None \in Nat
  BY NextRunNat DEF Every, None
<1> QED
  BY <1>1 DEF Recomputed, Record

LEMMA StartSavesKeeps ==
  ASSUME CronInv, NEW s \in Processes, StartSaves(s)
  PROVE  CronInv'
<1>1. TypeOK
  BY DEF CronInv
<1>2. /\ life[s] = "loading" /\ life' = [life EXCEPT ![s] = "running"]
      /\ loaded' = [loaded EXCEPT ![s] = Empty]
      /\ UNCHANGED <<now, runVars, cancelling, calls, settled>>
  BY DEF StartSaves
<1>3. loaded' \in [Processes -> File]
  BY <1>1, <1>2 DEF TypeOK, Empty, File
<1>4. /\ store' = [j \in Jobs |-> IF loaded[s][j] = Missing THEN Missing ELSE Recomputed(loaded[s][j])]
      /\ overwritten' = overwritten \cup {j \in Jobs : store[j] # loaded[s][j]}
  BY DEF StartSaves
<1>5. store' \in File
  <2>1. \A j \in Jobs : loaded[s][j] # Missing => Recomputed(loaded[s][j]) \in Record
    BY <1>1, RecomputedFacts DEF TypeOK, File
  <2> QED
    BY <1>4, <2>1 DEF File
<1>6. \A j \in Jobs \ overwritten' :
        IF store[j] = Missing THEN store'[j] = Missing
        ELSE /\ store'[j].by = store[j].by /\ store'[j].since = store[j].since
             /\ store'[j] # Missing /\ (store'[j].enabled => store[j].enabled)
  <2> TAKE j \in Jobs \ overwritten'
  <2>1. loaded[s][j] = store[j]
    BY <1>4
  <2>2. CASE store[j] = Missing
    BY <1>4, <2>1, <2>2
  <2>3. CASE store[j] # Missing
    <3>1. store[j] \in Record /\ store'[j] = Recomputed(store[j])
      BY <1>1, <1>4, <2>1, <2>3, RecordFacts
    <3> QED
      BY <1>1, <2>3, <3>1, RecomputedFacts, MissingAssumption DEF TypeOK
  <2> QED
    BY <2>2, <2>3
<1>7. \A r \in Processes :
        /\ life'[r] \in {"new", "loading"} => life[r] \in {"new", "loading"}
        /\ life[r] = "dead" => life'[r] = "dead"
  BY <1>1, <1>2 DEF TypeOK
<1>8. life' \in [Processes -> {"new", "loading", "running", "stopped", "dead"}]
      /\ overwritten' \subseteq Jobs /\ overwritten \subseteq overwritten' /\ settled' = settled
  BY <1>1, <1>2, <1>4 DEF TypeOK
<1>9. \A j \in Jobs \ overwritten' :
        j \in settled' /\ store'[j] # Missing /\ store'[j].enabled =>
          j \in settled /\ store[j] # Missing /\ store[j].enabled
  BY <1>6, <1>8
<1> QED
  BY <1>1, <1>2, <1>3, <1>5, <1>6, <1>7, <1>8, <1>9, EditKeeps DEF TypeOK

\* A step that leaves the file as it is.
LEMMA QuietKeeps ==
  ASSUME CronInv, UNCHANGED <<store, runVars, settled, overwritten>>,
         now' \in Nat \ {0}, now' >= now, calls' \in Nat,
         loaded' \in [Processes -> File], cancelling' \in [Tasks -> BOOLEAN],
         life' \in [Processes -> {"new", "loading", "running", "stopped", "dead"}],
         \A s \in Processes :
           /\ life'[s] \in {"new", "loading"} => life[s] \in {"new", "loading"}
           /\ life[s] = "dead" => life'[s] = "dead"
  PROVE  CronInv'
<1>1. TypeOK
  BY DEF CronInv
<1> QED
  BY <1>1, EditKeeps DEF TypeOK

LEMMA StartLoadsKeeps ==
  ASSUME CronInv, NEW s \in Processes, StartLoads(s)
  PROVE  CronInv'
<1>1. TypeOK
  BY DEF CronInv
<1> QED
  BY <1>1, QuietKeeps DEF StartLoads, TypeOK

LEMMA StopKeeps ==
  ASSUME CronInv, NEW s \in Processes, Stop(s)
  PROVE  CronInv'
<1>1. TypeOK
  BY DEF CronInv
<1> QED
  BY <1>1, ArmTimerFacts, QuietKeeps DEF Stop, TypeOK

LEMMA NextKeepsCronInv == CronInv /\ [Next]_vars => CronInv'
<1> SUFFICES ASSUME CronInv, [Next]_vars
             PROVE  CronInv'
  OBVIOUS
<1>1. TypeOK
  BY DEF CronInv
<1>2. CASE Tick
  BY <1>1, <1>2, QuietKeeps DEF Tick, TypeOK
<1>3. ASSUME NEW w \in Tasks, Runs(w)
      PROVE  CronInv'
  BY <1>3, RunDueKeeps, CallbackReturnsKeeps, CallbackCancelledKeeps DEF Runs
<1>4. ASSUME NEW s \in Processes, Public(s)
      PROVE  CronInv'
  BY <1>4, AddJobKeeps, RemoveJobKeeps, EnableJobKeeps, DisableJobKeeps, RunJobKeeps
     DEF Public, TasksOf
<1>5. ASSUME NEW s \in Processes, Start(s)
      PROVE  CronInv'
  BY <1>5, StartLoadsKeeps, StartSavesKeeps DEF Start
<1>6. CASE UNCHANGED vars
  BY <1>1, <1>6, QuietKeeps DEF vars, TypeOK
<1> QED
  BY <1>2, <1>3, <1>4, <1>5, <1>6, StopKeeps, CrashKeeps DEF Next

LEMMA CronInvHolds == Spec => []CronInv
<1> QED
  BY InitCronInv, NextKeepsCronInv, PTL DEF Spec
-----------------------------------------------------------------------------
(* Every variable keeps its type: a claim always names a process and a time *)
(* (CronService, _write_store of what run_due, run_job and start leave).    *)
THEOREM CronTypes == Spec => []TypeOK
<1>1. CronInv => TypeOK
  BY DEF CronInv
<1> QED
  BY <1>1, CronInvHolds, PTL

(* Two batches hold one job at the same time only if the older claim was    *)
(* out of date when the newer was made (run_due, run_job: the claim check). *)
THEOREM ClaimsAreExclusive == Spec => []ExclusiveClaims
<1>1. CronInv => ExclusiveClaims
  BY DEF CronInv
<1> QED
  BY <1>1, CronInvHolds, PTL

(* No claim outlives the work of a process that did not crash (the finally  *)
(* blocks of run_due and run_job release what is left of the batch).        *)
THEOREM NoClaimIsLeft == Spec => []ClaimsAreHeld
<1>1. CronInv => ClaimsAreHeld
  BY DEF CronInv
<1> QED
  BY <1>1, CronInvHolds, PTL

(* A removed job or a finished one-shot is not armed again, whatever late   *)
(* result, expired claim or restart follows (_finish_claimed, _recompute).  *)
THEOREM SettledJobsStaySettled == Spec => []SettledStaysSettled
<1>1. CronInv => SettledStaysSettled
  BY DEF CronInv
<1> QED
  BY <1>1, CronInvHolds, PTL
=============================================================================
