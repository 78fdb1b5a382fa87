-------------------------- MODULE CommitStoreProofs --------------------------
(***************************************************************************)
(* Proofs about CommitStore for any number of workers, proposals and       *)
(* events.  The inductive invariant says what the private copy of the      *)
(* lock's holder looks like at each fault point of commit(): the committed *)
(* tables plus exactly the rows inserted so far.                           *)
(***************************************************************************)
EXTENDS CommitSnapshot, TLAPS

(* The events form a chain of distinct keys from the genesis hash. *)
Chain(events) ==
    /\ \A i \in 1..Len(events) :
          /\ events[i].seq = i
          /\ events[i].hash = EventHash(i, events[i].prop)
          /\ events[i].parent = events[i].prop.parent
          /\ events[i].parent = IF i = 1 THEN Genesis ELSE events[i - 1].hash
    /\ \A i, j \in 1..Len(events) :
          events[i].prop.key = events[j].prop.key => i = j

(* Row i of commands and of outbox belongs to row i of events. *)
CommandsFollow(t) ==
    /\ Len(t.commands) = Len(t.events)
    /\ \A i \in 1..Len(t.events) :
          t.commands[i] = [key |-> t.events[i].prop.key,
                           prop |-> t.events[i].prop,
                           seq |-> i, hash |-> t.events[i].hash]

OutboxFollows(t) ==
    /\ Len(t.outbox) = Len(t.events)
    /\ \A i \in 1..Len(t.events) :
          /\ t.outbox[i].seq = i
          /\ t.outbox[i].hash = t.events[i].hash
          /\ t.outbox[i].status = "pending" => t.outbox[i].attempts = 0

Sound(t) ==
    /\ Chain(t.events)
    /\ CommandsFollow(t)
    /\ OutboxFollows(t)
    /\ t.head = HeadOf(t.events)

(* The locals of a commit() that may insert: nothing of c is in t yet. *)
Fresh(c, t) ==
    /\ c.seq = Len(t.events) + 1
    /\ c.seq <= MaxEvents
    /\ c.hash = EventHash(c.seq, c.prop)
    /\ c.prop.parent = t.head
    /\ \A i \in 1..Len(t.events) : t.events[i].prop.key # c.prop.key

(* The tables t with the rows of c, as far as each fault point. *)
WithEvent(t, c) ==
    [t EXCEPT !.events = Append(@, [seq |-> c.seq, parent |-> t.head,
                                    hash |-> c.hash, prop |-> c.prop])]

WithCommand(t, c) ==
    [WithEvent(t, c) EXCEPT !.commands =
        Append(@, [key |-> c.prop.key, prop |-> c.prop,
                   seq |-> c.seq, hash |-> c.hash])]

WithOutbox(t, c) ==
    [WithCommand(t, c) EXCEPT !.outbox =
        Append(@, [seq |-> c.seq, hash |-> c.hash,
                   status |-> "pending", attempts |-> 0])]

WithHead(t, c) == [WithOutbox(t, c) EXCEPT !.head = c.hash]

Acknowledged(t, n) ==
    IF t.outbox[n].status = "pending"
      THEN [t EXCEPT !.outbox[n] = MarkAcknowledged(@)]
      ELSE t

(* What the holder of the lock has staged. *)
Staged(w) ==
    /\ pc[w] = "began" => work = db
    /\ pc[w] \in {"event", "command", "outbox", "head"} => Fresh(call[w], db)
    /\ pc[w] = "event" => work = WithEvent(db, call[w])
    /\ pc[w] = "command" => work = WithCommand(db, call[w])
    /\ pc[w] = "outbox" => work = WithOutbox(db, call[w])
    /\ pc[w] = "head" => work = WithHead(db, call[w])
    /\ pc[w] = "acknowledging" =>
          \E n \in 1..Len(db.outbox) : work = Acknowledged(db, n)

LockInv ==
    /\ \A w \in Worker : pc[w] \in Holding <=> writer = w
    /\ writer = NoWorker => work = db
    /\ \A w \in Worker : pc[w] # "new" => db.head # NoHead
    /\ \A w \in Worker : pc[w] \notin {"new", "idle", "acknowledging"} =>
                            call[w] # NoCall

StageInv == \A w \in Worker : Staged(w)

DbInv == IF db.head = NoHead THEN db = EmptyTables ELSE Sound(db)

InLog(p, n, h) ==
    n \in 1..Len(db.events) /\ db.events[n].prop = p /\ db.events[n].hash = h

CommittedInv ==
    \A w \in Worker :
        pc[w] = "committed" => InLog(call[w].prop, call[w].seq, call[w].hash)

AnswerInv ==
    \A w \in Worker : LET a == answer[w] IN
        a # NoAnswer =>
        /\ a.disposition \in {"accepted", "duplicate_replay"} =>
              InLog(a.prop, a.seq, a.hash)
        /\ a.disposition = "rejected_idempotency_conflict" =>
              \E i \in 1..Len(db.events) :
                  db.events[i].prop.key = a.prop.key /\ db.events[i].prop # a.prop

IInv == TypeOK /\ LockInv /\ StageInv /\ DbInv /\ CommittedInv /\ AnswerInv

-----------------------------------------------------------------------------
(* Facts about the tables. *)

LEMMA HeadOfType ==
    ASSUME NEW events \in Seq(EventRow)
    PROVE  HeadOf(events) \in Hash
<1>1. CASE events = << >>
    BY <1>1, HashAssumption DEF HeadOf
<1>2. CASE events # << >>
    <2>1. Len(events) \in 1..Len(events)
        BY <1>2
    <2>2. events[Len(events)] \in EventRow
        BY <2>1
    <2> QED BY <1>2, <2>2 DEF HeadOf, EventRow
<1> QED BY <1>1, <1>2

(* Adding one complete proposal to sound tables keeps them sound. *)
LEMMA WithHeadSound ==
    ASSUME NEW t \in Tables, NEW c \in Call,
           Sound(t), Fresh(c, t)
    PROVE  Sound(WithHead(t, c))
<1> DEFINE n == Len(t.events)
           u == WithHead(t, c)
           row == [seq |-> c.seq, parent |-> t.head, hash |-> c.hash,
                   prop |-> c.prop]
<1>0. /\ t.events \in Seq(EventRow) /\ t.commands \in Seq(CommandRow)
      /\ t.outbox \in Seq(OutboxRow) /\ n \in Nat
    BY DEF Tables
<1>1. /\ u.events = Append(t.events, row)
      /\ u.commands = Append(t.commands,
                            [key |-> c.prop.key, prop |-> c.prop,
                             seq |-> c.seq, hash |-> c.hash])
      /\ u.outbox = Append(t.outbox,
                          [seq |-> c.seq, hash |-> c.hash,
                           status |-> "pending", attempts |-> 0])
      /\ u.head = c.hash
    BY DEF WithHead, WithOutbox, WithCommand, WithEvent, Tables
<1>2. Len(t.commands) = n /\ Len(t.outbox) = n
    BY DEF Sound, CommandsFollow, OutboxFollows
<1>3. Len(u.events) = n + 1 /\ u.events[n + 1] = row
      /\ \A i \in 1..n : u.events[i] = t.events[i]
    BY <1>0, <1>1
<1>4. c.seq = n + 1 /\ t.head = HeadOf(t.events)
    BY DEF Fresh, Sound
<1>5. t.head = IF n + 1 = 1 THEN Genesis ELSE u.events[n].hash
    <2>1. CASE n = 0
        BY <2>1, <1>0, <1>4 DEF HeadOf
    <2>2. CASE n # 0
        BY <2>2, <1>0, <1>3, <1>4 DEF HeadOf
    <2> QED BY <2>1, <2>2
<1>6. Chain(u.events)
    <2>1. \A i \in 1..n : i # n + 1 /\ (i # 1 => i - 1 \in 1..n)
        BY <1>0
    <2>2. ASSUME NEW i \in 1..Len(u.events)
          PROVE  /\ u.events[i].seq = i
                 /\ u.events[i].hash = EventHash(i, u.events[i].prop)
                 /\ u.events[i].parent = u.events[i].prop.parent
                 /\ u.events[i].parent =
                        IF i = 1 THEN Genesis ELSE u.events[i - 1].hash
        <3>1. CASE i \in 1..n
            <4>1. Chain(t.events)
                BY DEF Sound
            <4>2. /\ t.events[i].seq = i
                  /\ t.events[i].hash = EventHash(i, t.events[i].prop)
                  /\ t.events[i].parent = t.events[i].prop.parent
                  /\ t.events[i].parent =
                         IF i = 1 THEN Genesis ELSE t.events[i - 1].hash
                BY <3>1, <4>1 DEF Chain
            <4>3. u.events[i] = t.events[i]
                BY <3>1, <1>3
            <4>4. i # 1 => u.events[i - 1] = t.events[i - 1]
                BY <3>1, <2>1, <1>3
            <4> HIDE DEF u, n
            <4> QED BY <4>2, <4>3, <4>4
        <3>2. CASE i = n + 1
            BY <3>2, <1>0, <1>3, <1>4, <1>5 DEF Fresh
        <3> QED BY <3>1, <3>2, <1>0, <1>3
    <2>3. ASSUME NEW i \in 1..Len(u.events), NEW j \in 1..Len(u.events),
                 u.events[i].prop.key = u.events[j].prop.key
          PROVE  i = j
        <3>1. CASE i \in 1..n /\ j \in 1..n
            BY <2>3, <3>1, <1>3 DEF Sound, Chain
        <3>2. CASE i = n + 1 /\ j \in 1..n
            BY <2>3, <3>2, <1>3 DEF Fresh
        <3>3. CASE i \in 1..n /\ j = n + 1
            BY <2>3, <3>3, <1>3 DEF Fresh
        <3> QED BY <3>1, <3>2, <3>3, <1>0, <1>3
    <2> QED BY <2>2, <2>3 DEF Chain
<1>7. CommandsFollow(u)
    <2> DEFINE cmd == [key |-> c.prop.key, prop |-> c.prop,
                       seq |-> c.seq, hash |-> c.hash]
    <2>1. /\ Len(u.commands) = n + 1 /\ u.commands[n + 1] = cmd
          /\ \A i \in 1..n : u.commands[i] = t.commands[i]
        BY <1>0, <1>1, <1>2
    <2>2. CommandsFollow(t)
        BY DEF Sound
    <2>3. \A i \in 1..(n + 1) : i \in 1..n \/ i = n + 1
        BY <1>0
    <2> QED BY <2>1, <2>2, <2>3, <1>2, <1>3, <1>4 DEF CommandsFollow
<1>8. OutboxFollows(u)
    BY <1>0, <1>1, <1>2, <1>3, <1>4 DEF Sound, OutboxFollows
<1>9. u.head = HeadOf(u.events)
    <2>1. u.events # << >>
        BY <1>0, <1>3
    <2> QED BY <2>1, <1>0, <1>1, <1>3 DEF HeadOf
<1> QED BY <1>6, <1>7, <1>8, <1>9 DEF Sound

(* Acknowledging an outbox row keeps sound tables sound. *)
LEMMA AcknowledgedSound ==
    ASSUME NEW t \in Tables, Sound(t), NEW n \in 1..Len(t.outbox)
    PROVE  /\ Acknowledged(t, n) \in Tables
           /\ Sound(Acknowledged(t, n))
           /\ Acknowledged(t, n).head = t.head
           /\ Acknowledged(t, n).events = t.events
           /\ Acknowledged(t, n).commands = t.commands
           /\ Len(Acknowledged(t, n).outbox) = Len(t.outbox)
           /\ Acknowledged(t, n).outbox[n].status = "acknowledged"
           /\ \A i \in 1..Len(t.outbox) :
                  i # n => Acknowledged(t, n).outbox[i] = t.outbox[i]
<1>0. /\ t.outbox \in Seq(OutboxRow) /\ t.outbox[n] \in OutboxRow
      /\ t = [head |-> t.head, events |-> t.events,
               commands |-> t.commands, outbox |-> t.outbox]
    BY DEF Tables
<1>1. CASE t.outbox[n].status # "pending"
    BY <1>0, <1>1 DEF Acknowledged, OutboxRow
<1>2. CASE t.outbox[n].status = "pending"
    <2> DEFINE row == MarkAcknowledged(t.outbox[n])
               box == [t.outbox EXCEPT ![n] = row]
    <2>1. t.outbox[n].attempts = 0
        BY <1>2 DEF Sound, OutboxFollows
    <2>2. row = [seq |-> t.outbox[n].seq, hash |-> t.outbox[n].hash,
                 status |-> "acknowledged", attempts |-> 1]
        BY <1>0, <2>1 DEF MarkAcknowledged
    <2>3. row \in OutboxRow
        BY <1>0, <2>2 DEF OutboxRow
    <2>4. box \in Seq(OutboxRow) /\ Len(box) = Len(t.outbox)
        BY <1>0, <2>3
    <2>5. Acknowledged(t, n) = [t EXCEPT !.outbox = box]
        BY <1>2 DEF Acknowledged
    <2>6. Acknowledged(t, n) = [head |-> t.head, events |-> t.events,
                                commands |-> t.commands, outbox |-> box]
        BY <2>5, <1>0
    <2>7. box[n] = row /\ \A i \in 1..Len(t.outbox) : i # n => box[i] = t.outbox[i]
        BY <1>0
    <2>8. Acknowledged(t, n) \in Tables
        BY <2>4, <2>6 DEF Tables
    <2>9. OutboxFollows(Acknowledged(t, n))
        BY <2>2, <2>4, <2>6, <2>7 DEF Sound, OutboxFollows
    <2> QED BY <2>2, <2>4, <2>6, <2>7, <2>8, <2>9 DEF Sound, CommandsFollow
<1> QED BY <1>1, <1>2

-----------------------------------------------------------------------------
(* The inductive invariant. *)

LEMMA InitIInv == Init => IInv
<1> SUFFICES ASSUME Init PROVE IInv
    OBVIOUS
<1>1. EmptyTables \in Tables
    BY DEF EmptyTables, Tables
<1> QED BY <1>1, WorkerAssumption
        DEF Init, IInv, TypeOK, LockInv, StageInv, Staged, DbInv, CommittedInv,
            AnswerInv, Holding, PC, EmptyTables

(* What the steps inside a transaction have in common: w takes or keeps    *)
(* the lock, the file stays as it is, and w has staged what Staged says.   *)
LEMMA StagingStep ==
    ASSUME IInv, NEW w \in Worker, NEW label \in Holding, pc[w] # "new",
           writer \in {w, NoWorker}, writer' = w,
           Goto(w, label), work' \in Tables,
           call' \in [Worker -> Call \cup {NoCall}],
           label # "acknowledging" => call'[w] # NoCall,
           \A v \in Worker \ {w} : call'[v] = call[v],
           UNCHANGED <<db, answer>>, Staged(w)'
    PROVE  IInv'
<1>1. TypeOK'
    BY DEF IInv, TypeOK, Goto, PC
<1>2. LockInv'
    BY WorkerAssumption DEF IInv, TypeOK, LockInv, Goto, Holding
<1>3. StageInv'
    <2> SUFFICES ASSUME NEW v \in Worker PROVE Staged(v)'
        BY DEF StageInv
    <2>1. CASE v # w
        BY <2>1, <1>2 DEF LockInv, Staged, Holding
    <2> QED BY <2>1
<1>4. DbInv'
    BY DEF IInv, DbInv
<1>5. CommittedInv'
    BY DEF IInv, TypeOK, CommittedInv, InLog, Goto, Holding
<1>6. AnswerInv'
    BY DEF IInv, AnswerInv, InLog
<1> QED BY <1>1, <1>2, <1>3, <1>4, <1>5, <1>6 DEF IInv

(* What the steps that publish have in common: the file becomes the        *)
(* private copy, which is sound and extends the log.                       *)
LEMMA PublishStep ==
    ASSUME IInv, NEW w \in Worker, pc[w] \in Holding, Commit(w),
           NEW label \in {"idle", "committed"}, Goto(w, label),
           UNCHANGED <<call, answer>>, work.head # NoHead, Sound(work),
           Len(db.events) <= Len(work.events),
           \A i \in 1..Len(db.events) : work.events[i] = db.events[i],
           label = "committed" =>
              /\ call[w] # NoCall
              /\ call[w].seq \in 1..Len(work.events)
              /\ work.events[call[w].seq].prop = call[w].prop
              /\ work.events[call[w].seq].hash = call[w].hash
    PROVE  IInv'
<1>0. Len(db.events) \in Nat /\ Len(work.events) \in Nat
    BY DEF IInv, TypeOK, Tables
<1>1. TypeOK'
    BY DEF IInv, TypeOK, Commit, Goto, PC
<1>2. LockInv'
    BY WorkerAssumption DEF IInv, TypeOK, LockInv, Commit, Goto, Holding
<1>3. StageInv'
    BY <1>2, WorkerAssumption DEF StageInv, Staged, LockInv, Holding, Commit
<1>4. DbInv'
    BY DEF DbInv, Commit
<1>5. ASSUME NEW p, NEW n, NEW h, InLog(p, n, h) PROVE InLog(p, n, h)'
    BY <1>0, <1>5 DEF InLog, Commit
<1>6. CommittedInv'
    <2> SUFFICES ASSUME NEW v \in Worker, pc'[v] = "committed"
                 PROVE  InLog(call[v].prop, call[v].seq, call[v].hash)'
        BY DEF CommittedInv
    <2>1. CASE v = w
        BY <2>1 DEF Commit, Goto, InLog, IInv, TypeOK
    <2>2. CASE v # w
        BY <2>2, <1>5 DEF Goto, IInv, TypeOK, CommittedInv
    <2> QED BY <2>1, <2>2
<1>7. AnswerInv'
    <2> SUFFICES ASSUME NEW v \in Worker, answer[v] # NoAnswer
                 PROVE  /\ answer[v].disposition \in {"accepted", "duplicate_replay"} =>
                              InLog(answer[v].prop, answer[v].seq, answer[v].hash)'
                        /\ answer[v].disposition = "rejected_idempotency_conflict" =>
                              \E i \in 1..Len(work.events) :
                                  /\ work.events[i].prop.key = answer[v].prop.key
                                  /\ work.events[i].prop # answer[v].prop
        BY DEF AnswerInv, Commit
    <2>1. CASE answer[v].disposition \in {"accepted", "duplicate_replay"}
        BY <2>1, <1>5 DEF IInv, AnswerInv
    <2>2. CASE answer[v].disposition = "rejected_idempotency_conflict"
        BY <2>2, <1>0, SMTT(60) DEF IInv, AnswerInv
    <2> QED BY <2>1, <2>2
<1> QED BY <1>1, <1>2, <1>3, <1>4, <1>6, <1>7 DEF IInv

(* What the steps that leave a transaction without publishing, or that do  *)
(* not touch one, have in common.                                          *)
LEMMA QuietStep ==
    ASSUME IInv, NEW w \in Worker, NEW label \in {"new", "idle", "wait"},
           Goto(w, label), UNCHANGED db,
           \/ Rollback(w)
           \/ pc[w] \notin Holding /\ UNCHANGED <<work, writer>>,
           label # "new" => db.head # NoHead,
           call' \in [Worker -> Call \cup {NoCall}],
           \A v \in Worker \ {w} : call'[v] = call[v],
           label = "wait" => call'[w] # NoCall,
           answer' \in [Worker -> Decision \cup {NoAnswer}], AnswerInv'
    PROVE  IInv'
<1>1. TypeOK'
    BY DEF IInv, TypeOK, Rollback, Goto, PC
<1>2. LockInv'
    BY WorkerAssumption DEF IInv, TypeOK, LockInv, Rollback, Goto, Holding
<1>3. StageInv'
    <2> SUFFICES ASSUME NEW v \in Worker PROVE Staged(v)'
        BY DEF StageInv
    <2>1. CASE v = w
        BY <2>1 DEF IInv, TypeOK, Goto, Staged
    <2>2. CASE v # w /\ writer' = v
        BY <2>2, WorkerAssumption
           DEF IInv, TypeOK, LockInv, StageInv, Staged, Rollback, Goto
    <2>3. CASE writer' # v
        BY <2>3, <1>2 DEF LockInv, Staged, Holding
    <2> QED BY <2>1, <2>2, <2>3
<1>4. DbInv'
    BY DEF IInv, DbInv
<1>5. CommittedInv'
    BY DEF IInv, TypeOK, CommittedInv, InLog, Goto
<1> QED BY <1>1, <1>2, <1>3, <1>4, <1>5 DEF IInv

LEMMA InitializeStep ==
    ASSUME IInv, NEW w \in Worker, Initialize(w)
    PROVE  IInv'
<1> USE DEF Initialize
<1>1. db' \in Tables /\ db'.head # NoHead /\ Sound(db')
         /\ db'.events = db.events
    <2>1. CASE db.head = NoHead
        <3>1. db' = [head |-> Genesis, events |-> << >>,
                     commands |-> << >>, outbox |-> << >>]
            BY <2>1 DEF IInv, DbInv, EmptyTables, SeedHead
        <3> QED BY <3>1, <2>1, HashAssumption, NoHashAssumption
                DEF Tables, Sound, Chain, CommandsFollow, OutboxFollows, HeadOf,
                    IInv, DbInv, EmptyTables
    <2>2. CASE db.head # NoHead
        BY <2>2 DEF IInv, DbInv, TypeOK, SeedHead
    <2> QED BY <2>1, <2>2
<1>2. TypeOK'
    BY <1>1 DEF IInv, TypeOK, Goto, PC
<1>3. LockInv'
    BY <1>1, WorkerAssumption DEF IInv, TypeOK, LockInv, Goto, Holding
<1>4. StageInv'
    BY <1>3, WorkerAssumption DEF StageInv, Staged, LockInv, Holding
<1>5. DbInv'
    BY <1>1 DEF DbInv
<1>6. CommittedInv'
    BY <1>1 DEF IInv, TypeOK, CommittedInv, InLog, Goto
<1>7. AnswerInv'
    BY <1>1 DEF IInv, AnswerInv, InLog
<1> QED BY <1>2, <1>3, <1>4, <1>5, <1>6, <1>7 DEF IInv

(* A rejection or a replay tells the truth about the tables it was read    *)
(* from, which are the committed ones.                                     *)
LEMMA DeclineStep ==
    ASSUME IInv, NEW w \in Worker, pc[w] = "began",
           NEW disposition \in Disposition, NEW seq \in 0..MaxEvents,
           NEW hash \in Hash \cup {NoHash},
           Decline(w, disposition, seq, hash),
           disposition \in {"accepted", "duplicate_replay"} =>
              InLog(call[w].prop, seq, hash),
           disposition = "rejected_idempotency_conflict" =>
              \E i \in 1..Len(db.events) :
                  /\ db.events[i].prop.key = call[w].prop.key
                  /\ db.events[i].prop # call[w].prop
    PROVE  IInv'
<1> DEFINE d == [prop |-> call[w].prop, disposition |-> disposition,
                 seq |-> seq, hash |-> hash, head |-> work.head]
<1>1. writer = w /\ work = db /\ db.head # NoHead /\ call[w] \in Call
    BY DEF IInv, LockInv, StageInv, Staged, Holding, TypeOK
<1>2. d \in Decision
    BY <1>1 DEF Decision, Call, IInv, TypeOK, Tables
<1>3. answer' = [answer EXCEPT ![w] = d]
    BY DEF Decline, Return
<1>4. answer' \in [Worker -> Decision \cup {NoAnswer}]
    BY <1>2, <1>3 DEF IInv, TypeOK
<1>5. UNCHANGED db /\ Rollback(w)
    BY DEF Decline, Rollback
<1>6. AnswerInv'
    <2> SUFFICES ASSUME NEW v \in Worker, answer'[v] # NoAnswer
                 PROVE  /\ answer'[v].disposition \in {"accepted", "duplicate_replay"} =>
                              InLog(answer'[v].prop, answer'[v].seq, answer'[v].hash)
                        /\ answer'[v].disposition = "rejected_idempotency_conflict" =>
                              \E i \in 1..Len(db.events) :
                                  /\ db.events[i].prop.key = answer'[v].prop.key
                                  /\ db.events[i].prop # answer'[v].prop
        BY <1>5 DEF AnswerInv, InLog
    <2>1. CASE v = w
        <3>1. answer'[v] = d
            BY <2>1, <1>3 DEF IInv, TypeOK
        <3> HIDE DEF d
        <3>2. /\ d.prop = call[w].prop /\ d.disposition = disposition
              /\ d.seq = seq /\ d.hash = hash
            BY DEF d
        <3> QED BY <3>1, <3>2
    <2>2. CASE v # w
        BY <2>2, <1>3 DEF IInv, TypeOK, AnswerInv
    <2> QED BY <2>1, <2>2
<1>7. /\ Goto(w, "idle")
      /\ call' \in [Worker -> Call \cup {NoCall}]
      /\ \A v \in Worker \ {w} : call'[v] = call[v]
    BY DEF Decline, Leave, IInv, TypeOK
<1> QED BY <1>1, <1>4, <1>5, <1>6, <1>7, QuietStep

LEMMA DecideStep ==
    ASSUME IInv, NEW w \in Worker, Decide(w)
    PROVE  IInv'
<1> pc[w] = "began"
    BY DEF Decide, ReplayDuplicate, RejectConflict, RejectStale, InsertEvent
<1>0. /\ pc[w] = "began" /\ writer = w /\ work = db /\ db.head # NoHead
      /\ call[w] \in Call /\ call[w] # NoCall /\ Sound(db) /\ db \in Tables
      /\ db.events \in Seq(EventRow) /\ Len(db.events) \in Nat
      /\ db.commands \in Seq(CommandRow)
    <2>1. writer = w /\ work = db /\ db.head # NoHead /\ call[w] # NoCall
        BY DEF IInv, LockInv, StageInv, Staged, Holding
    <2> QED BY <2>1 DEF IInv, TypeOK, DbInv, Tables
<1>1. \A i : i \in Existing(call[w].prop) =>
         /\ i \in 1..Len(db.events)
         /\ db.commands[i] = [key |-> db.events[i].prop.key,
                              prop |-> db.events[i].prop,
                              seq |-> i, hash |-> db.events[i].hash]
         /\ db.events[i].prop.key = call[w].prop.key
         /\ db.events[i].hash \in Hash /\ i \in 1..MaxEvents
    <2> SUFFICES ASSUME NEW i \in 1..Len(db.commands),
                        db.commands[i].key = call[w].prop.key
                 PROVE  /\ i \in 1..Len(db.events)
                        /\ db.commands[i] = [key |-> db.events[i].prop.key,
                                             prop |-> db.events[i].prop,
                                             seq |-> i, hash |-> db.events[i].hash]
                        /\ db.events[i].prop.key = call[w].prop.key
                        /\ db.events[i].hash \in Hash /\ i \in 1..MaxEvents
        BY <1>0 DEF Existing
    <2>1. db.commands[i] \in CommandRow
        BY <1>0
    <2>2. db.commands[i] = [key |-> db.events[i].prop.key,
                            prop |-> db.events[i].prop,
                            seq |-> i, hash |-> db.events[i].hash]
        BY <1>0 DEF Sound, CommandsFollow
    <2> QED BY <1>0, <2>1, <2>2 DEF Sound, CommandsFollow, CommandRow
<1>2. CASE ReplayDuplicate(w)
    <2>1. PICK i :
             /\ i \in Existing(call[w].prop)
             /\ work.commands[i].prop = call[w].prop
             /\ Decline(w, "duplicate_replay", work.commands[i].seq,
                        work.commands[i].hash)
        BY <1>2 DEF ReplayDuplicate
    <2>2. i \in Existing(call[w].prop)
        BY <2>1
    <2>3. /\ db.commands[i] = [key |-> db.events[i].prop.key,
                               prop |-> db.events[i].prop,
                               seq |-> i, hash |-> db.events[i].hash]
          /\ i \in 1..Len(db.events)
          /\ db.events[i].hash \in Hash /\ i \in 1..MaxEvents
        BY <2>2, <1>1
    <2>4. work.commands[i].prop = call[w].prop
        BY <2>1
    <2>5. /\ work.commands[i].seq = i /\ work.commands[i].hash = db.events[i].hash
          /\ db.events[i].prop = call[w].prop
        BY <2>3, <2>4, <1>0
    <2>6. InLog(call[w].prop, i, db.events[i].hash)
        BY <2>3, <2>5 DEF InLog
    <2>7. Decline(w, "duplicate_replay", i, db.events[i].hash)
        BY <2>1, <2>5
    <2>8. i \in 0..MaxEvents /\ db.events[i].hash \in Hash
        BY <2>3, MaxEventsAssumption
    <2> QED BY <2>6, <2>7, <2>8, <1>0, DeclineStep DEF Disposition
<1>3. CASE RejectConflict(w)
    <2>1. PICK i : /\ i \in Existing(call[w].prop)
                   /\ work.commands[i].prop # call[w].prop
        BY <1>3 DEF RejectConflict
    <2>2. i \in Existing(call[w].prop)
        BY <2>1
    <2>3. /\ db.commands[i] = [key |-> db.events[i].prop.key,
                               prop |-> db.events[i].prop,
                               seq |-> i, hash |-> db.events[i].hash]
          /\ db.events[i].prop.key = call[w].prop.key
          /\ i \in 1..Len(db.events)
        BY <2>2, <1>1
    <2>4. work.commands[i].prop # call[w].prop
        BY <2>1
    <2>5. db.events[i].prop # call[w].prop
        BY <2>3, <2>4, <1>0
    <2>6. Decline(w, "rejected_idempotency_conflict", 0, NoHash)
        BY <1>3 DEF RejectConflict
    <2>7. 0 \in 0..MaxEvents
        BY MaxEventsAssumption
    <2> QED BY <2>3, <2>5, <2>6, <2>7, <1>0, DeclineStep DEF Disposition
<1>4. CASE RejectStale(w)
    <2>1. Decline(w, "rejected_stale_parent", 0, NoHash) /\ 0 \in 0..MaxEvents
        BY <1>4, MaxEventsAssumption DEF RejectStale
    <2> QED BY <2>1, <1>0, DeclineStep DEF Disposition
<1>5. CASE InsertEvent(w)
    <2> DEFINE p == call[w].prop
               n == Len(db.events) + 1
               c == [prop |-> p, seq |-> n, hash |-> EventHash(n, p)]
    <2>1. p \in Proposal /\ n \in 1..MaxEvents /\ EventHash(n, p) \in Hash
        BY <1>0, <1>5, HashAssumption DEF InsertEvent, NextSequence, Call
    <2>2. c \in Call
        BY <2>1 DEF Call
    <2>3. /\ call' = [call EXCEPT ![w] = c] /\ call'[w] = c
          /\ call' \in [Worker -> Call \cup {NoCall}]
        BY <2>2, <1>0, <1>5 DEF InsertEvent, NextSequence, IInv, TypeOK
    <2>4. Fresh(c, db)
        <3>1. Existing(p) = {}
            BY <1>5 DEF InsertEvent
        <3>2. \A i \in 1..Len(db.events) : db.events[i].prop.key # p.key
            <4> SUFFICES ASSUME NEW i \in 1..Len(db.events),
                                db.events[i].prop.key = p.key
                         PROVE  FALSE
                OBVIOUS
            <4>1. /\ db.commands[i] = [key |-> db.events[i].prop.key,
                                       prop |-> db.events[i].prop,
                                       seq |-> i, hash |-> db.events[i].hash]
                  /\ Len(db.commands) = Len(db.events)
                BY <1>0 DEF Sound, CommandsFollow
            <4>2. i \in Existing(p)
                BY <4>1, <1>0 DEF Existing
            <4> QED BY <4>2, <3>1
        <3> QED BY <3>2, <2>1, <1>0, <1>5 DEF Fresh, InsertEvent
    <2>5. work' = WithEvent(db, c)
        BY <1>0, <1>5 DEF InsertEvent, NextSequence, WithEvent
    <2>6. work' \in Tables
        <3>1. [seq |-> n, parent |-> db.head, hash |-> EventHash(n, p),
               prop |-> p] \in EventRow
            BY <2>1, <1>0 DEF EventRow, Tables
        <3>2. Append(db.events, [seq |-> n, parent |-> db.head,
                                 hash |-> EventHash(n, p), prop |-> p])
                 \in Seq(EventRow)
            BY <3>1, <1>0
        <3>3. work' = [db EXCEPT !.events =
                          Append(@, [seq |-> n, parent |-> db.head,
                                     hash |-> EventHash(n, p), prop |-> p])]
            BY <2>5 DEF WithEvent
        <3> HIDE DEF n, p
        <3> QED BY <3>2, <3>3, <1>0 DEF Tables
    <2>7. Goto(w, "event") /\ UNCHANGED <<db, writer, answer>>
        BY <1>5 DEF InsertEvent
    <2>8. Staged(w)'
        <3>1. pc'[w] = "event"
            BY <2>7 DEF Goto, IInv, TypeOK
        <3> HIDE DEF c
        <3> QED BY <3>1, <2>3, <2>4, <2>5, <2>7 DEF Staged
    <2>9. call'[w] # NoCall
        BY <2>2, <2>3, NoRecordAssumption
    <2>10. \A v \in Worker \ {w} : call'[v] = call[v]
        BY <2>3 DEF IInv, TypeOK
    <2> HIDE DEF c
    <2> QED BY <2>3, <2>6, <2>7, <2>8, <2>9, <2>10, <1>0, StagingStep DEF Holding
<1> QED BY <1>2, <1>3, <1>4, <1>5 DEF Decide

(* The inserts that follow the event, and the update of the head. *)
LEMMA InsertStep ==
    ASSUME IInv, NEW w \in Worker,
           InsertCommand(w) \/ InsertOutbox(w) \/ UpdateHead(w)
    PROVE  IInv'
<1> pc[w] \in {"event", "command", "outbox"}
    BY DEF InsertCommand, InsertOutbox, UpdateHead
<1>0. /\ writer = w /\ call[w] \in Call /\ call[w] # NoCall
      /\ work \in Tables /\ Fresh(call[w], db) /\ Staged(w)
    <2>1. writer = w /\ call[w] # NoCall /\ Fresh(call[w], db) /\ Staged(w)
        BY DEF IInv, LockInv, StageInv, Staged, Holding
    <2> QED BY <2>1 DEF IInv, TypeOK
<1>1. /\ call[w].seq \in 1..MaxEvents /\ call[w].hash \in Hash
      /\ call[w].prop \in Proposal /\ call[w].prop.key \in Key
    <2>1. db.events \in Seq(EventRow)
        BY DEF IInv, TypeOK, Tables
    <2>2. call[w].seq \in 1..MaxEvents
        BY <1>0, <2>1 DEF Fresh, Call
    <2> QED BY <2>2, <1>0, HashAssumption, ProposalAssumption DEF Fresh, Call
<1>2. CASE InsertCommand(w)
    <2> DEFINE row == [key |-> call[w].prop.key, prop |-> call[w].prop,
                       seq |-> call[w].seq, hash |-> call[w].hash]
    <2>1. row \in CommandRow
        BY <1>1 DEF CommandRow
    <2>2. /\ work' = [work EXCEPT !.commands = Append(@, row)]
          /\ pc[w] = "event" /\ Goto(w, "command")
          /\ UNCHANGED <<db, writer, call, answer>>
        BY <1>2 DEF InsertCommand
    <2>3. work' \in Tables
        <3> HIDE DEF row
        <3>1. Append(work.commands, row) \in Seq(CommandRow)
            BY <2>1, <1>0 DEF Tables
        <3> QED BY <3>1, <2>2, <1>0 DEF Tables
    <2>4. work' = WithCommand(db, call[w])
        BY <2>2, <1>0 DEF Staged, WithCommand, WithEvent
    <2>5. Staged(w)' /\ call' \in [Worker -> Call \cup {NoCall}]
        BY <2>2, <2>4, <1>0 DEF Staged, Goto, IInv, TypeOK
    <2> QED BY <2>2, <2>3, <2>5, <1>0, StagingStep DEF Holding
<1>3. CASE InsertOutbox(w)
    <2> DEFINE row == [seq |-> call[w].seq, hash |-> call[w].hash,
                       status |-> "pending", attempts |-> 0]
    <2>1. row \in OutboxRow
        BY <1>1 DEF OutboxRow
    <2>2. /\ work' = [work EXCEPT !.outbox = Append(@, row)]
          /\ pc[w] = "command" /\ Goto(w, "outbox")
          /\ UNCHANGED <<db, writer, call, answer>>
        BY <1>3 DEF InsertOutbox
    <2>3. work' \in Tables
        <3> HIDE DEF row
        <3>1. Append(work.outbox, row) \in Seq(OutboxRow)
            BY <2>1, <1>0 DEF Tables
        <3> QED BY <3>1, <2>2, <1>0 DEF Tables
    <2>4. work' = WithOutbox(db, call[w])
        BY <2>2, <1>0 DEF Staged, WithOutbox
    <2>5. Staged(w)' /\ call' \in [Worker -> Call \cup {NoCall}]
        BY <2>2, <2>4, <1>0 DEF Staged, Goto, IInv, TypeOK
    <2> QED BY <2>2, <2>3, <2>5, <1>0, StagingStep DEF Holding
<1>4. CASE UpdateHead(w)
    <2>1. /\ work' = [work EXCEPT !.head = call[w].hash]
          /\ pc[w] = "outbox" /\ Goto(w, "head")
          /\ UNCHANGED <<db, writer, call, answer>>
        BY <1>4 DEF UpdateHead
    <2>2. work' \in Tables
        BY <2>1, <1>0, <1>1 DEF Tables
    <2>3. work' = WithHead(db, call[w])
        BY <2>1, <1>0 DEF Staged, WithHead
    <2>4. Staged(w)' /\ call' \in [Worker -> Call \cup {NoCall}]
        BY <2>1, <2>3, <1>0 DEF Staged, Goto, IInv, TypeOK
    <2> QED BY <2>1, <2>2, <2>4, <1>0, StagingStep DEF Holding
<1> QED BY <1>2, <1>3, <1>4

(* What commit publishes: the old log and the event of the call. *)
LEMMA PublishedTables ==
    ASSUME IInv, NEW w \in Worker, pc[w] = "head"
    PROVE  LET c == call[w] IN
           /\ writer = w /\ c \in Call /\ c # NoCall /\ Fresh(c, db)
           /\ db.head # NoHead /\ db \in Tables /\ Sound(db)
           /\ Sound(work) /\ work.head = c.hash /\ work.head # NoHead
           /\ work.events = Append(db.events, [seq |-> c.seq, parent |-> db.head,
                                               hash |-> c.hash, prop |-> c.prop])
           /\ work.outbox = Append(db.outbox, [seq |-> c.seq, hash |-> c.hash,
                                     status |-> "pending", attempts |-> 0])
<1> DEFINE c == call[w]
<1>1. /\ writer = w /\ c # NoCall /\ Fresh(c, db) /\ db.head # NoHead
      /\ work = WithHead(db, c)
    BY DEF IInv, LockInv, StageInv, Staged, Holding
<1>2. c \in Call /\ db \in Tables /\ Sound(db)
    BY <1>1 DEF IInv, TypeOK, DbInv
<1>3. Sound(work)
    BY <1>1, <1>2, WithHeadSound
<1>4. c.hash \in Hash
    <2>1. c.seq \in 1..MaxEvents
        BY <1>1, <1>2 DEF Fresh, Call, Tables
    <2> QED BY <2>1, <1>1, <1>2, HashAssumption DEF Fresh, Call
<1>5. /\ work.head = c.hash
      /\ work.events = Append(db.events, [seq |-> c.seq, parent |-> db.head,
                                          hash |-> c.hash, prop |-> c.prop])
      /\ work.outbox = Append(db.outbox, [seq |-> c.seq, hash |-> c.hash,
                                status |-> "pending", attempts |-> 0])
    BY <1>1, <1>2 DEF WithHead, WithOutbox, WithCommand, WithEvent, Tables
<1> QED BY <1>1, <1>2, <1>3, <1>4, <1>5, NoHashAssumption

LEMMA CommitStep ==
    ASSUME IInv, NEW w \in Worker, CommitTransaction(w)
    PROVE  IInv'
<1> DEFINE c == call[w]
           row == [seq |-> c.seq, parent |-> db.head,
                   hash |-> c.hash, prop |-> c.prop]
<1>0. /\ pc[w] = "head" /\ Commit(w) /\ Goto(w, "committed")
      /\ UNCHANGED <<call, answer>>
    BY DEF CommitTransaction
<1>1. /\ c # NoCall /\ Fresh(c, db) /\ Sound(work) /\ work.head # NoHead
      /\ work.events = Append(db.events, row) /\ db.events \in Seq(EventRow)
    BY <1>0, PublishedTables DEF Tables
<1>2. /\ Len(db.events) <= Len(work.events)
      /\ \A i \in 1..Len(db.events) : work.events[i] = db.events[i]
      /\ c.seq \in 1..Len(work.events)
      /\ work.events[c.seq] = row
    BY <1>1 DEF Fresh
<1>3. work.events[c.seq].prop = c.prop /\ work.events[c.seq].hash = c.hash
    BY <1>2
<1> HIDE DEF c
<1> QED BY <1>0, <1>1, <1>2, <1>3, PublishStep DEF Holding, c

LEMMA AcknowledgeStep ==
    ASSUME IInv, NEW w \in Worker,
           \/ \E n \in 1..MaxEvents : BeginAcknowledge(w, n)
           \/ CommitAcknowledge(w)
    PROVE  IInv'
<1>1. ASSUME NEW n \in 1..MaxEvents, BeginAcknowledge(w, n) PROVE IInv'
    <2>1. /\ pc[w] = "idle" /\ writer = NoWorker /\ writer' = w
          /\ n \in 1..Len(db.outbox) /\ Goto(w, "acknowledging")
          /\ work' = Acknowledged(work, n)
          /\ UNCHANGED <<db, call, answer>>
        BY <1>1 DEF BeginAcknowledge, Begin, Acknowledged
    <2>2. work = db /\ db \in Tables /\ Sound(db)
        BY <2>1 DEF IInv, TypeOK, LockInv, DbInv
    <2>3. work' \in Tables
        BY <2>1, <2>2, AcknowledgedSound
    <2>4. Staged(w)'
        <3>1. pc'[w] = "acknowledging"
            BY <2>1 DEF Goto, IInv, TypeOK
        <3> QED BY <3>1, <2>1, <2>2 DEF Staged
    <2>5. call' \in [Worker -> Call \cup {NoCall}]
        BY <2>1 DEF IInv, TypeOK
    <2> QED BY <2>1, <2>3, <2>4, <2>5, StagingStep DEF Holding
<1>2. ASSUME CommitAcknowledge(w) PROVE IInv'
    <2>1. /\ pc[w] = "acknowledging" /\ Commit(w) /\ Goto(w, "idle")
          /\ UNCHANGED <<call, answer>>
        BY <1>2 DEF CommitAcknowledge
    <2>2. /\ db.head # NoHead /\ db \in Tables /\ Sound(db)
          /\ \E n \in 1..Len(db.outbox) : work = Acknowledged(db, n)
        BY <2>1 DEF IInv, TypeOK, LockInv, DbInv, StageInv, Staged
    <2>3. work.events = db.events /\ Sound(work) /\ work.head # NoHead
        BY <2>2, AcknowledgedSound
    <2>4. Len(db.events) <= Len(work.events)
        BY <2>2, <2>3 DEF Tables
    <2> QED BY <2>1, <2>3, <2>4, PublishStep DEF Holding
<1> QED BY <1>1, <1>2

(* The remaining steps neither stage nor publish. *)
LEMMA OtherStep ==
    ASSUME IInv, NEW w \in Worker,
           \/ \E p \in Proposal : StartCommit(w, p)
           \/ BusyTimeout(w)
           \/ Raise(w)
           \/ RaiseCommitted(w)
           \/ Crash(w)
           \/ ReturnAccepted(w)
    PROVE  IInv'
<1> USE DEF Leave
<1>1. ASSUME NEW p \in Proposal, StartCommit(w, p) PROVE IInv'
    <2> DEFINE c == [prop |-> p, seq |-> 0, hash |-> NoHash]
    <2>1. /\ pc[w] = "idle" /\ call' = [call EXCEPT ![w] = c]
          /\ answer' = [answer EXCEPT ![w] = NoAnswer] /\ Goto(w, "wait")
          /\ UNCHANGED <<db, work, writer>>
        BY <1>1 DEF StartCommit
    <2>2. c \in Call
        BY MaxEventsAssumption DEF Call
    <2> HIDE DEF c
    <2>3. /\ call' \in [Worker -> Call \cup {NoCall}] /\ call'[w] # NoCall
          /\ \A v \in Worker \ {w} : call'[v] = call[v]
        BY <2>1, <2>2, NoRecordAssumption DEF IInv, TypeOK
    <2>4. answer' \in [Worker -> Decision \cup {NoAnswer}] /\ AnswerInv'
        BY <2>1 DEF IInv, TypeOK, AnswerInv, InLog
    <2>5. db.head # NoHead /\ pc[w] \notin Holding
        BY <2>1 DEF IInv, LockInv, Holding
    <2> QED BY <2>1, <2>3, <2>4, <2>5, QuietStep
<1>2. ASSUME BusyTimeout(w) \/ Raise(w) \/ RaiseCommitted(w) PROVE IInv'
    <2>1. /\ pc[w] # "new" /\ Goto(w, "idle") /\ UNCHANGED <<db, answer>>
          /\ call' = [call EXCEPT ![w] = NoCall]
          /\ \/ Rollback(w)
             \/ pc[w] \notin Holding /\ UNCHANGED <<work, writer>>
        BY <1>2 DEF BusyTimeout, Raise, RaiseCommitted, Rollback, Holding
    <2>2. /\ call' \in [Worker -> Call \cup {NoCall}]
          /\ \A v \in Worker \ {w} : call'[v] = call[v]
        BY <2>1 DEF IInv, TypeOK
    <2>3. answer' \in [Worker -> Decision \cup {NoAnswer}] /\ AnswerInv'
        BY <2>1 DEF IInv, TypeOK, AnswerInv, InLog
    <2>4. db.head # NoHead
        BY <2>1 DEF IInv, LockInv
    <2> QED BY <2>1, <2>2, <2>3, <2>4, QuietStep
<1>3. ASSUME Crash(w) PROVE IInv'
    <2>1. /\ Goto(w, "new") /\ UNCHANGED db
          /\ call' = [call EXCEPT ![w] = NoCall]
          /\ answer' = [answer EXCEPT ![w] = NoAnswer]
          /\ IF writer = w THEN Rollback(w) ELSE UNCHANGED <<work, writer>>
        BY <1>3 DEF Crash, Rollback
    <2>2. \/ Rollback(w)
          \/ pc[w] \notin Holding /\ UNCHANGED <<work, writer>>
        <3>1. CASE writer = w
            BY <3>1, <1>3 DEF Crash, Rollback
        <3>2. CASE writer # w
            <4>1. pc[w] \notin Holding
                BY <3>2 DEF IInv, LockInv
            <4>2. UNCHANGED <<work, writer>>
                BY <3>2, <1>3 DEF Crash
            <4> QED BY <4>1, <4>2
        <3> QED BY <3>1, <3>2
    <2>3. /\ call' \in [Worker -> Call \cup {NoCall}]
          /\ \A v \in Worker \ {w} : call'[v] = call[v]
        BY <2>1 DEF IInv, TypeOK
    <2>4. answer' \in [Worker -> Decision \cup {NoAnswer}] /\ AnswerInv'
        BY <2>1 DEF IInv, TypeOK, AnswerInv, InLog
    <2> QED BY <2>1, <2>2, <2>3, <2>4, QuietStep
<1>4. ASSUME ReturnAccepted(w) PROVE IInv'
    <2> DEFINE d == [prop |-> call[w].prop, disposition |-> "accepted",
                     seq |-> call[w].seq, hash |-> call[w].hash,
                     head |-> call[w].hash]
    <2>1. /\ pc[w] = "committed" /\ Goto(w, "idle")
          /\ UNCHANGED <<db, work, writer>>
          /\ call' = [call EXCEPT ![w] = NoCall]
          /\ answer' = [answer EXCEPT ![w] = d]
        BY <1>4 DEF ReturnAccepted, Return
    <2>2. /\ db.head # NoHead /\ call[w] \in Call /\ db.events \in Seq(EventRow)
          /\ InLog(call[w].prop, call[w].seq, call[w].hash)
          /\ pc[w] \notin Holding
        BY <2>1 DEF IInv, LockInv, CommittedInv, TypeOK, Holding, Tables
    <2>3. call[w].hash \in Hash
        <3>1. db.events[call[w].seq] \in EventRow
            BY <2>2 DEF InLog
        <3> QED BY <3>1, <2>2 DEF InLog, EventRow
    <2>4. d \in Decision
        BY <2>2, <2>3 DEF Decision, Disposition, Call
    <2>5. /\ call' \in [Worker -> Call \cup {NoCall}]
          /\ \A v \in Worker \ {w} : call'[v] = call[v]
          /\ answer' \in [Worker -> Decision \cup {NoAnswer}]
          /\ answer'[w] = d /\ \A v \in Worker \ {w} : answer'[v] = answer[v]
        BY <2>1, <2>4 DEF IInv, TypeOK
    <2>6. d.prop = call[w].prop /\ d.disposition = "accepted"
             /\ d.seq = call[w].seq /\ d.hash = call[w].hash
        OBVIOUS
    <2> HIDE DEF d
    <2>7. AnswerInv'
        BY <2>1, <2>2, <2>5, <2>6 DEF IInv, AnswerInv, InLog
    <2> QED BY <2>1, <2>2, <2>5, <2>7, QuietStep
<1> QED BY <1>1, <1>2, <1>3, <1>4

LEMMA BeginStep ==
    ASSUME IInv, NEW w \in Worker, BeginImmediate(w)
    PROVE  IInv'
<1>1. /\ pc[w] = "wait" /\ writer = NoWorker /\ writer' = w
      /\ Goto(w, "began") /\ UNCHANGED <<db, work, call, answer>>
    BY DEF BeginImmediate, Begin
<1>2. work = db /\ call[w] # NoCall
    BY <1>1 DEF IInv, LockInv
<1>3. Staged(w)'
    BY <1>1, <1>2 DEF IInv, TypeOK, Goto, Staged
<1>4. work' \in Tables /\ call' \in [Worker -> Call \cup {NoCall}]
    BY <1>1 DEF IInv, TypeOK
<1> QED BY <1>1, <1>2, <1>3, <1>4, StagingStep DEF Holding

LEMMA NextIInv == IInv /\ [Next]_vars => IInv'
<1> SUFFICES ASSUME IInv, [Next]_vars PROVE IInv'
    OBVIOUS
<1>1. CASE UNCHANGED vars
    BY <1>1 DEF vars, IInv, TypeOK, LockInv, StageInv, Staged, DbInv,
                CommittedInv, AnswerInv, InLog
<1>2. ASSUME NEW w \in Worker,
             \/ Initialize(w)
             \/ \E p \in Proposal : StartCommit(w, p)
             \/ \E n \in 1..MaxEvents : BeginAcknowledge(w, n)
             \/ Progress(w)
             \/ Raise(w)
             \/ RaiseCommitted(w)
             \/ Crash(w)
      PROVE  IInv'
    BY <1>2, InitializeStep, BeginStep, DecideStep, InsertStep, CommitStep,
       AcknowledgeStep, OtherStep DEF Progress
<1> QED BY <1>1, <1>2 DEF Next

THEOREM Invariance == Spec => []IInv
BY InitIInv, NextIInv, PTL DEF Spec

-----------------------------------------------------------------------------
(* The properties. *)

(* Every variable keeps its type, so sequence numbers stay within the      *)
(* bound and an outbox item is attempted at most once.                     *)
THEOREM TypeCorrect == Spec => []TypeOK
BY Invariance, PTL DEF IInv

(* Sound tables pass every check of snapshot(). *)
LEMMA SoundHasNoErrors ==
    ASSUME NEW t \in Tables, Sound(t)
    PROVE  InvariantErrors(t) = {}
<1>0. t.events \in Seq(EventRow) /\ Len(t.events) \in Nat
    BY DEF Tables
<1>1. SequencesRun(t)
    BY DEF SequencesRun, Sound, Chain
<1>2. ParentsChain(t)
    <2> SUFFICES ASSUME NEW i \in 1..Len(t.events)
                 PROVE  t.events[i].parent = HeadOf(SubSeq(t.events, 1, i - 1))
        BY DEF ParentsChain
    <2>1. t.events[i].parent = IF i = 1 THEN Genesis ELSE t.events[i - 1].hash
        BY DEF Sound, Chain
    <2>2. CASE i = 1
        <3>1. SubSeq(t.events, 1, i - 1) = << >>
            BY <2>2, <1>0
        <3> QED BY <2>1, <2>2, <3>1 DEF HeadOf
    <2>3. CASE i # 1
        <3> DEFINE s == SubSeq(t.events, 1, i - 1)
        <3>1. Len(s) = i - 1 /\ s[i - 1] = t.events[i - 1]
            BY <2>3, <1>0
        <3>2. s # << >>
            BY <2>3, <3>1
        <3> HIDE DEF s
        <3>3. HeadOf(s) = t.events[i - 1].hash
            BY <3>1, <3>2 DEF HeadOf
        <3> QED BY <2>1, <2>3, <3>3 DEF s
    <2> QED BY <2>2, <2>3
<1>3. HashesMatch(t)
    BY DEF HashesMatch, Sound, Chain
<1>4. Len(t.commands) = Len(t.events) /\ Bound(t.commands, t.events)
    <2>1. Len(t.commands) = Len(t.events)
        BY DEF Sound, CommandsFollow
    <2>2. ASSUME NEW i \in 1..Len(t.events)
          PROVE  /\ t.commands[i].seq = t.events[i].seq
                 /\ t.commands[i].hash = t.events[i].hash
        <3>1. t.commands[i] = [key |-> t.events[i].prop.key,
                               prop |-> t.events[i].prop,
                               seq |-> i, hash |-> t.events[i].hash]
            BY DEF Sound, CommandsFollow
        <3>2. t.events[i].seq = i
            BY DEF Sound, Chain
        <3> QED BY <3>1, <3>2
    <2> QED BY <2>1, <2>2 DEF Bound
<1>5. Len(t.outbox) = Len(t.events) /\ Bound(t.outbox, t.events)
    <2>1. \A i \in 1..Len(t.outbox) :
             /\ t.outbox[i].seq = t.events[i].seq
             /\ t.outbox[i].hash = t.events[i].hash
        BY DEF Sound, Chain, OutboxFollows
    <2> QED BY <2>1 DEF Bound, Sound, OutboxFollows
<1>6. t.head = HeadOf(t.events)
    BY DEF Sound
<1> QED BY <1>1, <1>2, <1>3, <1>4, <1>5, <1>6 DEF InvariantErrors, Unless

(* Crash atomicity: whatever worker raised or died at whatever fault       *)
(* point, the committed file passes every check of snapshot().             *)
THEOREM Consistency == Spec => []StoreConsistent
<1>1. IInv => StoreConsistent
    <2> SUFFICES ASSUME IInv, db.head # NoHead PROVE InvariantErrors(db) = {}
        BY DEF IInv, DbInv, StoreConsistent
    <2> QED BY SoundHasNoErrors DEF IInv, DbInv, TypeOK
<1> QED BY <1>1, Invariance, PTL

(* Idempotency: no key is ever bound to two events. *)
THEOREM OncePerKey == Spec => []AtMostOncePerKey
<1>1. IInv => AtMostOncePerKey
    <2>1. CASE db.head = NoHead
        BY <2>1 DEF IInv, DbInv, EmptyTables, AtMostOncePerKey
    <2>2. CASE db.head # NoHead
        BY <2>2 DEF IInv, DbInv, Sound, Chain, AtMostOncePerKey
    <2> QED BY <2>1, <2>2
<1> QED BY <1>1, Invariance, PTL

(* An answer stays true: an accepted event is durable and a conflict is    *)
(* final.                                                                  *)
THEOREM AnswersStay == Spec => []AnswersLast
<1>1. ASSUME IInv, AtMostOncePerKey PROVE AnswersLast
    <2> SUFFICES ASSUME NEW w \in Worker, answer[w] # NoAnswer
                 PROVE  CASE answer[w].disposition \in {"accepted", "duplicate_replay"} ->
                               /\ answer[w].seq \in 1..Len(db.events)
                               /\ db.events[answer[w].seq].prop = answer[w].prop
                               /\ db.events[answer[w].seq].hash = answer[w].hash
                          [] answer[w].disposition = "rejected_idempotency_conflict" ->
                               \A i \in 1..Len(db.events) :
                                   db.events[i].prop # answer[w].prop
                          [] OTHER -> TRUE
        BY DEF AnswersLast
    <2>1. CASE answer[w].disposition \in {"accepted", "duplicate_replay"}
        BY <2>1, <1>1 DEF IInv, AnswerInv, InLog
    <2>2. CASE answer[w].disposition = "rejected_idempotency_conflict"
        <3>1. PICK i \in 1..Len(db.events) :
                 /\ db.events[i].prop.key = answer[w].prop.key
                 /\ db.events[i].prop # answer[w].prop
            BY <2>2, <1>1 DEF IInv, AnswerInv
        <3>2. ASSUME NEW j \in 1..Len(db.events), db.events[j].prop = answer[w].prop
              PROVE  FALSE
            <4>1. i = j
                BY <3>1, <3>2, <1>1 DEF AtMostOncePerKey
            <4> QED BY <4>1, <3>1, <3>2
        <3> QED BY <3>2, <2>2
    <2> QED BY <2>1, <2>2
<1> QED BY <1>1, Invariance, OncePerKey, PTL

-----------------------------------------------------------------------------
(* The refinement of CommitLog. *)

AckedOf(t) == {n \in 1..Len(t.outbox) : t.outbox[n].status = "acknowledged"}

LEMMA LogInit == Init => Log!Init
BY DEF Init, Log!Init, EmptyTables

(* Publishing a commit() appends one event to the log. *)
LEMMA CommitAppends ==
    ASSUME IInv, NEW w \in Worker, CommitTransaction(w)
    PROVE  \E p \in Proposal : Log!Append1(p)
<1> DEFINE c == call[w]
           row == [seq |-> c.seq, parent |-> db.head,
                   hash |-> c.hash, prop |-> c.prop]
           out == [seq |-> c.seq, hash |-> c.hash,
                   status |-> "pending", attempts |-> 0]
<1>0. pc[w] = "head" /\ db' = work /\ answer' = answer
    BY DEF CommitTransaction, Commit
<1>1. /\ c \in Call /\ Fresh(c, db) /\ Sound(db) /\ db \in Tables
      /\ work.events = Append(db.events, row)
      /\ work.outbox = Append(db.outbox, out)
    BY <1>0, PublishedTables
<1>2. ~Log!KeyUsed(c.prop.key)
    BY <1>1 DEF Log!KeyUsed, Fresh
<1>3. /\ c.prop.parent = HeadOf(db.events) /\ db.head = HeadOf(db.events)
      /\ c.seq = Len(db.events) + 1
      /\ c.hash = EventHash(Len(db.events) + 1, c.prop)
    BY <1>1 DEF Fresh, Sound
<1>4. AckedOf(work) = AckedOf(db)
    <2>1. /\ db.outbox \in Seq(OutboxRow) /\ Len(db.outbox) \in Nat
          /\ out.status # "acknowledged"
        BY <1>1 DEF Tables
    <2> HIDE DEF out
    <2>2. /\ Len(work.outbox) = Len(db.outbox) + 1
          /\ work.outbox[Len(db.outbox) + 1] = out
          /\ \A i \in 1..Len(db.outbox) : work.outbox[i] = db.outbox[i]
        BY <1>1, <2>1
    <2> QED BY <2>1, <2>2, SMTT(60) DEF AckedOf
<1>5. Log!HeadOf(db.events) = HeadOf(db.events)
    BY DEF Log!HeadOf, HeadOf
<1>6. Log!Append1(c.prop)
    BY <1>0, <1>1, <1>2, <1>3, <1>4, <1>5 DEF Log!Append1, AckedOf
<1> QED BY <1>6, <1>1 DEF Call

(* Publishing an acknowledge_outbox() acknowledges at most one item. *)
LEMMA AcknowledgeRefines ==
    ASSUME IInv, NEW w \in Worker, CommitAcknowledge(w)
    PROVE  [Log!Next]_Log!logVars
<1>0. /\ pc[w] = "acknowledging" /\ db' = work /\ answer' = answer
    BY DEF CommitAcknowledge, Commit
<1>1. db.head # NoHead /\ db \in Tables /\ Sound(db)
    BY <1>0 DEF IInv, LockInv, DbInv, TypeOK
<1>2. PICK n : n \in 1..Len(db.outbox) /\ work = Acknowledged(db, n)
    BY <1>0 DEF IInv, StageInv, Staged
<1>3. /\ work.events = db.events
      /\ Len(work.outbox) = Len(db.outbox)
      /\ work.outbox[n].status = "acknowledged"
      /\ \A i \in 1..Len(db.outbox) : i # n => work.outbox[i] = db.outbox[i]
    BY <1>1, <1>2, AcknowledgedSound
<1>4. AckedOf(work) = AckedOf(db) \cup {n}
    BY <1>2, <1>3 DEF AckedOf
<1>5. n \in 1..Len(db.events) /\ n \in 1..MaxEvents
    <2>1. db.outbox[n] \in OutboxRow /\ db.outbox[n].seq = n
        BY <1>1, <1>2 DEF Tables, Sound, OutboxFollows
    <2> QED BY <2>1, <1>1, <1>2 DEF OutboxRow, Sound, OutboxFollows
<1>6. CASE n \in AckedOf(db)
    BY <1>0, <1>3, <1>4, <1>6 DEF Log!logVars, AckedOf
<1>7. CASE n \notin AckedOf(db)
    <2>1. Log!Acknowledge(n)
        BY <1>0, <1>3, <1>4, <1>5, <1>7 DEF Log!Acknowledge, AckedOf
    <2> QED BY <2>1, <1>5 DEF Log!Next
<1> QED BY <1>6, <1>7

(* A decision is a reply of the log. *)
LEMMA DeclineReplies ==
    ASSUME IInv, NEW w \in Worker, pc[w] = "began",
           NEW disposition \in Disposition, NEW seq \in 0..MaxEvents,
           NEW hash \in Hash \cup {NoHash},
           Decline(w, disposition, seq, hash),
           Log!Truthful([prop |-> call[w].prop, disposition |-> disposition,
                         seq |-> seq, hash |-> hash, head |-> work.head])
    PROVE  Log!Reply(w)
<1> DEFINE d == [prop |-> call[w].prop, disposition |-> disposition,
                 seq |-> seq, hash |-> hash, head |-> work.head]
<1>1. call[w] \in Call /\ work.head \in Hash
    <2>1. work = db /\ db.head # NoHead /\ call[w] # NoCall
        BY DEF IInv, LockInv, StageInv, Staged, Holding
    <2> QED BY <2>1 DEF IInv, TypeOK, Tables
<1>2. d \in Decision
    BY <1>1 DEF Decision, Call
<1>3. answer' = [answer EXCEPT ![w] = d] /\ db' = db
    BY DEF Decline, Return, Rollback
<1>4. answer'[w] = d /\ d # NoAnswer
    BY <1>2, <1>3, NoRecordAssumption DEF IInv, TypeOK
<1> HIDE DEF d
<1>5. Log!Truthful(answer'[w])
    BY <1>4 DEF d
<1> QED BY <1>3, <1>4, <1>5 DEF Log!Reply

(* Each answer decided under the lock holds of the committed log.          *)
LEMMA DecideReplies ==
    ASSUME IInv, NEW w \in Worker,
           ReplayDuplicate(w) \/ RejectConflict(w) \/ RejectStale(w)
    PROVE  Log!Reply(w)
<1> pc[w] = "began"
    BY DEF ReplayDuplicate, RejectConflict, RejectStale
<1> DEFINE p == call[w].prop
<1>0. /\ work = db /\ db.head # NoHead /\ call[w] # NoCall
      /\ call[w] \in Call /\ Sound(db) /\ db \in Tables
    <2>1. work = db /\ db.head # NoHead /\ call[w] # NoCall
        BY DEF IInv, LockInv, StageInv, Staged, Holding
    <2> QED BY <2>1 DEF IInv, TypeOK, DbInv
<1>1. /\ work.head = Log!HeadOf(db.events) /\ db.events \in Seq(EventRow)
      /\ Len(db.events) \in Nat
    BY <1>0 DEF Sound, HeadOf, Log!HeadOf, Tables
<1>2. ASSUME NEW i, i \in Existing(p)
      PROVE  /\ i \in 1..Len(db.events)
             /\ work.commands[i] = [key |-> db.events[i].prop.key,
                                   prop |-> db.events[i].prop,
                                   seq |-> i, hash |-> db.events[i].hash]
             /\ db.events[i].prop.key = p.key
             /\ db.events[i].hash \in Hash
    <2>1. /\ i \in 1..Len(db.commands) /\ db.commands[i].key = p.key
          /\ Len(db.commands) = Len(db.events)
        BY <1>0, <1>2 DEF Existing, Sound, CommandsFollow
    <2>2. db.commands[i] = [key |-> db.events[i].prop.key,
                            prop |-> db.events[i].prop,
                            seq |-> i, hash |-> db.events[i].hash]
        BY <2>1, <1>0 DEF Sound, CommandsFollow
    <2>3. db.events[i] \in EventRow
        BY <2>1, <1>1
    <2> QED BY <2>1, <2>2, <2>3, <1>0 DEF EventRow
<1>3. CASE ReplayDuplicate(w)
    <2>1. PICK i : /\ i \in Existing(p)
                   /\ work.commands[i].prop = p
                   /\ Decline(w, "duplicate_replay", work.commands[i].seq,
                              work.commands[i].hash)
        BY <1>3 DEF ReplayDuplicate
    <2>2. i \in Existing(p) /\ work.commands[i].prop = p
        BY <2>1
    <2>3. /\ i \in 1..Len(db.events)
          /\ work.commands[i] = [key |-> db.events[i].prop.key,
                                prop |-> db.events[i].prop,
                                seq |-> i, hash |-> db.events[i].hash]
          /\ db.events[i].hash \in Hash
        BY <2>2, <1>2
    <2>4. /\ work.commands[i].seq = i /\ work.commands[i].hash = db.events[i].hash
          /\ db.events[i].prop = p
        BY <2>2, <2>3
    <2>5. Decline(w, "duplicate_replay", i, db.events[i].hash)
        BY <2>1, <2>4
    <2>6. i \in 0..MaxEvents
        <3>1. db.events[i].seq = i /\ db.events[i] \in EventRow
            BY <2>3, <1>0, <1>1 DEF Sound, Chain
        <3> QED BY <3>1, MaxEventsAssumption DEF EventRow
    <2>7. Log!Truthful([prop |-> p, disposition |-> "duplicate_replay",
                        seq |-> i, hash |-> db.events[i].hash,
                        head |-> work.head])
        BY <2>3, <2>4, <1>1 DEF Log!Truthful
    <2> QED BY <2>3, <2>5, <2>6, <2>7, DeclineReplies DEF Disposition
<1>4. CASE RejectConflict(w)
    <2>1. PICK i : i \in Existing(p) /\ work.commands[i].prop # p
        BY <1>4 DEF RejectConflict
    <2>2. i \in Existing(p) /\ work.commands[i].prop # p
        BY <2>1
    <2>3. /\ i \in 1..Len(db.events)
          /\ work.commands[i] = [key |-> db.events[i].prop.key,
                                prop |-> db.events[i].prop,
                                seq |-> i, hash |-> db.events[i].hash]
          /\ db.events[i].prop.key = p.key
        BY <2>2, <1>2
    <2>4. db.events[i].prop # p
        BY <2>2, <2>3
    <2>5. Log!KeyUsed(p.key)
        BY <2>3 DEF Log!KeyUsed
    <2>6. ~Log!Committed(p)
        <3> SUFFICES ASSUME NEW j \in 1..Len(db.events), db.events[j].prop = p
                     PROVE  FALSE
            BY DEF Log!Committed
        <3>1. db.events[i].prop.key = db.events[j].prop.key
            BY <2>3
        <3>2. i = j
            BY <3>1, <2>3, <1>0 DEF Sound, Chain
        <3> QED BY <3>2, <2>4
    <2>7. Log!Truthful([prop |-> p, disposition |-> "rejected_idempotency_conflict",
                        seq |-> 0, hash |-> NoHash, head |-> work.head])
        BY <2>5, <2>6, <1>1 DEF Log!Truthful
    <2>8. 0 \in 0..MaxEvents
        BY MaxEventsAssumption
    <2>9. Decline(w, "rejected_idempotency_conflict", 0, NoHash)
        BY <1>4 DEF RejectConflict
    <2> QED BY <2>7, <2>8, <2>9, DeclineReplies DEF Disposition
<1>5. CASE RejectStale(w)
    <2>1. /\ Existing(p) = {} /\ p.parent # work.head
          /\ Decline(w, "rejected_stale_parent", 0, NoHash)
        BY <1>5 DEF RejectStale
    <2>2. ~Log!KeyUsed(p.key)
        <3> SUFFICES ASSUME NEW i \in 1..Len(db.events),
                            db.events[i].prop.key = p.key
                     PROVE  FALSE
            BY DEF Log!KeyUsed
        <3>1. /\ db.commands[i] = [key |-> db.events[i].prop.key,
                                   prop |-> db.events[i].prop,
                                   seq |-> i, hash |-> db.events[i].hash]
              /\ Len(db.commands) = Len(db.events)
            BY <1>0 DEF Sound, CommandsFollow
        <3>2. i \in Existing(p)
            BY <3>1, <1>0 DEF Existing
        <3> QED BY <3>2, <2>1
    <2>3. Log!Truthful([prop |-> p, disposition |-> "rejected_stale_parent",
                        seq |-> 0, hash |-> NoHash, head |-> work.head])
        BY <2>1, <2>2, <1>1 DEF Log!Truthful
    <2>4. 0 \in 0..MaxEvents
        BY MaxEventsAssumption
    <2> QED BY <2>1, <2>3, <2>4, DeclineReplies DEF Disposition
<1> QED BY <1>3, <1>4, <1>5

LEMMA AcceptedReplies ==
    ASSUME IInv, NEW w \in Worker, ReturnAccepted(w)
    PROVE  Log!Reply(w)
<1> DEFINE d == [prop |-> call[w].prop, disposition |-> "accepted",
                 seq |-> call[w].seq, hash |-> call[w].hash,
                 head |-> call[w].hash]
<1>1. /\ pc[w] = "committed" /\ db' = db
      /\ answer' = [answer EXCEPT ![w] = d]
    BY DEF ReturnAccepted, Return
<1>2. /\ call[w] \in Call /\ InLog(call[w].prop, call[w].seq, call[w].hash)
      /\ db.events \in Seq(EventRow)
    BY <1>1 DEF IInv, LockInv, CommittedInv, TypeOK, Tables
<1>3. Log!Truthful(d)
    BY <1>2 DEF Log!Truthful, InLog
<1>4. d \in Decision
    <2>1. db.events[call[w].seq] \in EventRow
        BY <1>2 DEF InLog
    <2>2. call[w].hash \in Hash
        BY <2>1, <1>2 DEF InLog, EventRow
    <2> QED BY <2>2, <1>2 DEF Decision, Disposition, Call
<1> HIDE DEF d
<1>5. answer'[w] = d /\ d # NoAnswer
    BY <1>1, <1>4, NoRecordAssumption DEF IInv, TypeOK
<1>6. Log!Truthful(answer'[w])
    BY <1>3, <1>5
<1> QED BY <1>1, <1>5, <1>6 DEF Log!Reply

LEMMA LogNext == IInv /\ [Next]_vars => [Log!Next]_Log!logVars
<1> SUFFICES ASSUME IInv, [Next]_vars PROVE [Log!Next]_Log!logVars
    OBVIOUS
<1>1. CASE UNCHANGED vars
    BY <1>1 DEF vars, Log!logVars
<1>2. ASSUME NEW w \in Worker, Initialize(w) PROVE UNCHANGED Log!logVars
    BY <1>2 DEF Initialize, SeedHead, Log!logVars, IInv, TypeOK, Tables
<1>3. ASSUME NEW w \in Worker, UNCHANGED <<db, answer>>
      PROVE  UNCHANGED Log!logVars
    BY <1>3 DEF Log!logVars
<1>4. ASSUME NEW w \in Worker, UNCHANGED db,
             answer' = [answer EXCEPT ![w] = NoAnswer]
      PROVE  Log!Next
    BY <1>4 DEF Log!Next, Log!Forget
<1>5. ASSUME NEW w \in Worker,
             \/ Initialize(w)
             \/ \E p \in Proposal : StartCommit(w, p)
             \/ \E n \in 1..MaxEvents : BeginAcknowledge(w, n)
             \/ Progress(w)
             \/ Raise(w)
             \/ RaiseCommitted(w)
             \/ Crash(w)
      PROVE  [Log!Next]_Log!logVars
    <2>1. CASE Initialize(w)
        BY <2>1, <1>2
    <2>2. CASE (\E p \in Proposal : StartCommit(w, p)) \/ Crash(w)
        <3>1. UNCHANGED db /\ answer' = [answer EXCEPT ![w] = NoAnswer]
            BY <2>2 DEF StartCommit, Crash, Rollback
        <3> QED BY <3>1, <1>4
    <2>3. CASE \/ \E n \in 1..MaxEvents : BeginAcknowledge(w, n)
               \/ BeginImmediate(w) \/ InsertEvent(w) \/ InsertCommand(w)
               \/ InsertOutbox(w) \/ UpdateHead(w) \/ BusyTimeout(w)
               \/ Raise(w) \/ RaiseCommitted(w)
        <3>1. UNCHANGED <<db, answer>>
            BY <2>3 DEF BeginAcknowledge, BeginImmediate, InsertEvent,
                        InsertCommand, InsertOutbox, UpdateHead, BusyTimeout,
                        Raise, RaiseCommitted, Rollback
        <3> QED BY <3>1, <1>3
    <2>4. CASE ReplayDuplicate(w) \/ RejectConflict(w) \/ RejectStale(w)
        BY <2>4, DecideReplies DEF Log!Next
    <2>5. CASE ReturnAccepted(w)
        BY <2>5, AcceptedReplies DEF Log!Next
    <2>6. CASE CommitTransaction(w)
        BY <2>6, CommitAppends DEF Log!Next
    <2>7. CASE CommitAcknowledge(w)
        BY <2>7, AcknowledgeRefines
    <2> QED BY <1>5, <2>1, <2>2, <2>3, <2>4, <2>5, <2>6, <2>7
            DEF Progress, Decide
<1> QED BY <1>1, <1>5 DEF Next

(* The store implements the log of CommitLog.                              *)
THEOREM Refinement == Spec => ImplementsLog
BY LogInit, LogNext, Invariance, PTL DEF Spec, ImplementsLog, Log!Spec

-----------------------------------------------------------------------------
(* The reader: how far the log had come at each of its four SELECTs.       *)

HeadAt(n) == IF n = 0 THEN Genesis ELSE db.events[n].hash

SawEvents(rows, n) ==
    Len(rows) = n /\ \A i \in 1..n : rows[i] = db.events[i]

SawRows(rows, n) ==
    Len(rows) = n /\ \A i \in 1..n : rows[i].seq = i /\ rows[i].hash = db.events[i].hash

Saw(s, m, k, c, o) ==
    /\ s.read # "none" => s.head = HeadAt(m)
    /\ s.read \in {"events", "commands", "outbox"} => SawEvents(s.events, k)
    /\ s.read \in {"commands", "outbox"} => SawRows(s.commands, c)
    /\ s.read = "outbox" => SawRows(s.outbox, o)

SnapType ==
    [read : {"none", "head", "events", "commands", "outbox"},
     head : Hash \cup {NoHead}, events : Seq(EventRow),
     commands : Seq(CommandRow), outbox : Seq(OutboxRow)]

SnapInv ==
    /\ snap \in [Reader -> SnapType]
    /\ \A r \in Reader :
          \E m, k, c, o \in 0..Len(db.events) :
              m <= k /\ k <= c /\ c <= o /\ Saw(snap[r], m, k, c, o)

(* The rows of the file follow its events, also before it has a head. *)
LEMMA FileFollows ==
    ASSUME IInv
    PROVE  /\ db \in Tables
           /\ db.events \in Seq(EventRow) /\ Len(db.events) \in Nat
           /\ Chain(db.events)
           /\ SawEvents(db.events, Len(db.events))
           /\ SawRows(db.commands, Len(db.events))
           /\ SawRows(db.outbox, Len(db.events))
           /\ db.head # NoHead => db.head = HeadAt(Len(db.events))
<1>1. db \in Tables /\ db.events \in Seq(EventRow) /\ Len(db.events) \in Nat
    BY DEF IInv, TypeOK, Tables
<1>2. CASE db.head = NoHead
    <2>1. db = EmptyTables
        BY <1>2 DEF IInv, DbInv
    <2> QED BY <1>1, <1>2, <2>1 DEF EmptyTables, Chain, SawEvents, SawRows
<1>3. CASE db.head # NoHead
    <2>1. Chain(db.events) /\ CommandsFollow(db) /\ OutboxFollows(db)
          /\ db.head = HeadOf(db.events)
        BY <1>3 DEF IInv, DbInv, Sound
    <2>2. SawRows(db.commands, Len(db.events))
        <3>1. ASSUME NEW i \in 1..Len(db.events)
              PROVE  /\ db.commands[i].seq = i
                     /\ db.commands[i].hash = db.events[i].hash
            <4>1. db.commands[i] = [key |-> db.events[i].prop.key,
                                    prop |-> db.events[i].prop,
                                    seq |-> i, hash |-> db.events[i].hash]
                BY <2>1 DEF CommandsFollow
            <4> QED BY <4>1
        <3> QED BY <2>1, <3>1 DEF CommandsFollow, SawRows
    <2>3. SawRows(db.outbox, Len(db.events))
        BY <2>1 DEF OutboxFollows, SawRows
    <2>4. db.head = HeadAt(Len(db.events))
        <3>1. (db.events = << >>) <=> (Len(db.events) = 0)
            BY <1>1
        <3> QED BY <2>1, <3>1, Zenon DEF HeadOf, HeadAt
    <2> QED BY <1>1, <2>1, <2>2, <2>3, <2>4 DEF SawEvents
<1> QED BY <1>2, <1>3

(* The log only grows. *)
LEMMA EventsGrow ==
    ASSUME IInv, [Next]_vars
    PROVE  /\ Len(db.events) \in Nat /\ Len(db'.events) \in Nat
           /\ Len(db.events) <= Len(db'.events)
           /\ \A i \in 1..Len(db.events) : db'.events[i] = db.events[i]
<1>1. db.events \in Seq(EventRow) /\ db'.events \in Seq(EventRow)
    BY NextIInv DEF IInv, TypeOK, Tables
<1>2. [Log!Next]_Log!logVars
    BY LogNext
<1>3. CASE UNCHANGED db.events
    BY <1>1, <1>3
<1>4. ASSUME NEW x, db'.events = Append(db.events, x)
      PROVE  /\ Len(db.events) <= Len(db'.events)
             /\ \A i \in 1..Len(db.events) : db'.events[i] = db.events[i]
    BY <1>1, <1>4
<1>5. UNCHANGED db.events \/ \E x : db'.events = Append(db.events, x)
    BY <1>2 DEF Log!Next, Log!logVars, Log!Append1, Log!Acknowledge, Log!Reply, Log!Forget
<1> QED BY <1>1, <1>3, <1>4, <1>5

LEMMA SawMore ==
    ASSUME IInv, [Next]_vars, NEW s, NEW m \in 0..Len(db.events),
           NEW k \in 0..Len(db.events), NEW c \in 0..Len(db.events),
           NEW o \in 0..Len(db.events), Saw(s, m, k, c, o)
    PROVE  Saw(s, m, k, c, o)'
<1>1. /\ Len(db.events) \in Nat /\ Len(db'.events) \in Nat
      /\ Len(db.events) <= Len(db'.events)
      /\ \A i \in 1..Len(db.events) : db'.events[i] = db.events[i]
    BY EventsGrow
<1>2. \A n \in 0..Len(db.events) : \A i \in 1..n : db'.events[i] = db.events[i]
    BY <1>1
<1>3. HeadAt(m)' = HeadAt(m)
    BY <1>1 DEF HeadAt
<1>4. \A rows : SawEvents(rows, k) => SawEvents(rows, k)'
    BY <1>2 DEF SawEvents
<1>5. \A rows, n : n \in 0..Len(db.events) /\ SawRows(rows, n) => SawRows(rows, n)'
    BY <1>2 DEF SawRows
<1>6. /\ Saw(s, m, k, c, o) <=>
             /\ s.read # "none" => s.head = HeadAt(m)
             /\ s.read \in {"events", "commands", "outbox"} => SawEvents(s.events, k)
             /\ s.read \in {"commands", "outbox"} => SawRows(s.commands, c)
             /\ s.read = "outbox" => SawRows(s.outbox, o)
      /\ Saw(s, m, k, c, o)' <=>
             /\ s.read # "none" => s.head = HeadAt(m)'
             /\ s.read \in {"events", "commands", "outbox"} => SawEvents(s.events, k)'
             /\ s.read \in {"commands", "outbox"} => SawRows(s.commands, c)'
             /\ s.read = "outbox" => SawRows(s.outbox, o)'
    BY Zenon DEF Saw
<1> QED BY <1>3, <1>4, <1>5, <1>6, Zenon

LEMMA SnapInit0 == SnapInit => IInv /\ SnapInv
<1> SUFFICES ASSUME SnapInit PROVE IInv /\ SnapInv
    OBVIOUS
<1>1. IInv /\ snap = [r \in Reader |-> NothingRead]
    BY InitIInv, Zenon DEF SnapInit
<1>2. NothingRead \in SnapType /\ NothingRead.read = "none"
    BY DEF NothingRead, SnapType
<1>3. Len(db.events) \in Nat
    BY <1>1, FileFollows
<1>4. Saw(NothingRead, 0, 0, 0, 0) /\ 0 \in 0..Len(db.events)
    BY <1>2, <1>3 DEF Saw
<1>5. \A r \in Reader : \E m, k, c, o \in 0..Len(db.events) :
          m <= k /\ k <= c /\ c <= o /\ Saw(snap[r], m, k, c, o)
    BY <1>1, <1>3, <1>4
<1> QED BY <1>1, <1>2, <1>5 DEF SnapInv

(* What a SELECT adds is all that the log has come to. *)
LEMMA ReadStep ==
    ASSUME IInv, SnapInv, NEW r \in Reader, UNCHANGED vars,
           NEW next \in SnapType, snap' = [snap EXCEPT ![r] = next],
           \E m, k, c, o \in 0..Len(db.events) :
              m <= k /\ k <= c /\ c <= o /\ Saw(next, m, k, c, o)
    PROVE  SnapInv'
<1>1. snap' \in [Reader -> SnapType]
    BY DEF SnapInv
<1>2. \A q \in Reader : snap'[q] = IF q = r THEN next ELSE snap[q]
    BY DEF SnapInv
<1>3. db' = db
    BY DEF vars
<1>4. ASSUME NEW q \in Reader
      PROVE  \E m, k, c, o \in 0..Len(db.events) :
                m <= k /\ k <= c /\ c <= o /\ Saw(snap'[q], m, k, c, o)
    BY <1>2, Zenon DEF SnapInv
<1>5. ASSUME NEW q, NEW m, NEW k, NEW c, NEW o, Saw(snap'[q], m, k, c, o)
      PROVE  Saw(snap[q], m, k, c, o)'
    BY <1>3, <1>5, ZenonT(60) DEF Saw, SawEvents, SawRows, HeadAt
<1>6. ASSUME NEW q \in Reader
      PROVE  \E m, k, c, o \in 0..Len(db'.events) :
                m <= k /\ k <= c /\ c <= o /\ Saw(snap[q], m, k, c, o)'
    <2>1. PICK m \in 0..Len(db.events), k \in 0..Len(db.events),
               c \in 0..Len(db.events), o \in 0..Len(db.events) :
              m <= k /\ k <= c /\ c <= o /\ Saw(snap'[q], m, k, c, o)
        BY <1>4
    <2>2. Saw(snap[q], m, k, c, o)'
        BY <2>1, <1>5
    <2> QED BY <2>1, <2>2, <1>3, Zenon
<1> QED BY <1>1, <1>6, Zenon DEF SnapInv

LEMMA ReaderSteps ==
    ASSUME IInv, SnapInv, NEW r \in Reader,
           \/ ReadHead(r) \/ ReadEvents(r) \/ ReadCommands(r) \/ ReadOutbox(r)
           \/ Return1(r)
    PROVE  SnapInv' /\ UNCHANGED vars
<1> DEFINE n == Len(db.events)
           s == snap[r]
<1>1. /\ db \in Tables /\ n \in Nat
      /\ SawEvents(db.events, n) /\ SawRows(db.commands, n) /\ SawRows(db.outbox, n)
      /\ db.head # NoHead => db.head = HeadAt(n)
    BY FileFollows
<1>2. s \in SnapType
    BY DEF SnapInv
<1>3. PICK m \in 0..n, k \in 0..n, c \in 0..n, o \in 0..n :
          m <= k /\ k <= c /\ c <= o /\ Saw(s, m, k, c, o)
    BY DEF SnapInv
<1>4. /\ db.head \in Hash \cup {NoHead} /\ db.events \in Seq(EventRow)
      /\ db.commands \in Seq(CommandRow) /\ db.outbox \in Seq(OutboxRow)
    BY <1>1 DEF Tables
<1>5. NothingRead \in SnapType /\ NothingRead.read = "none"
    BY DEF NothingRead, SnapType
<1>6. n \in 0..n /\ m <= n /\ k <= n /\ c <= n
    BY <1>1
<1> HIDE DEF s, n
<1>7. CASE ReadHead(r)
    <2> DEFINE next == [NothingRead EXCEPT !.read = "head", !.head = db.head]
    <2>1. db.head # NoHead /\ snap' = [snap EXCEPT ![r] = next] /\ UNCHANGED vars
        BY <1>7, Zenon DEF ReadHead, Read
    <2>2. /\ next \in SnapType /\ next.read = "head" /\ next.head = db.head
        BY <1>4, <1>5 DEF SnapType
    <2> HIDE DEF next
    <2>3. Saw(next, n, n, n, n)
        BY <1>1, <2>1, <2>2 DEF Saw
    <2>4. n <= n
        BY <1>1
    <2> QED BY <1>6, <2>1, <2>2, <2>3, <2>4, ReadStep, Zenon DEF n
<1>8. CASE ReadEvents(r)
    <2> DEFINE next == [s EXCEPT !.read = "events", !.events = db.events]
    <2>1. s.read = "head" /\ snap' = [snap EXCEPT ![r] = next] /\ UNCHANGED vars
        BY <1>8, Zenon DEF ReadEvents, Read, s
    <2>2. /\ next \in SnapType /\ next.read = "events" /\ next.head = s.head
          /\ next.events = db.events
        BY <1>2, <1>4 DEF SnapType
    <2> HIDE DEF next
    <2>3. Saw(next, m, n, n, n)
        BY <1>1, <1>3, <2>1, <2>2 DEF Saw
    <2>4. n <= n
        BY <1>1
    <2> QED BY <1>6, <2>1, <2>2, <2>3, <2>4, ReadStep, Zenon DEF n
<1>9. CASE ReadCommands(r)
    <2> DEFINE next == [s EXCEPT !.read = "commands", !.commands = db.commands]
    <2>1. s.read = "events" /\ snap' = [snap EXCEPT ![r] = next] /\ UNCHANGED vars
        BY <1>9, Zenon DEF ReadCommands, Read, s
    <2>2. /\ next \in SnapType /\ next.read = "commands" /\ next.head = s.head
          /\ next.events = s.events /\ next.commands = db.commands
        BY <1>2, <1>4 DEF SnapType
    <2> HIDE DEF next
    <2>3. Saw(next, m, k, n, n)
        BY <1>1, <1>3, <2>1, <2>2 DEF Saw
    <2>4. n <= n
        BY <1>1
    <2> QED BY <1>3, <1>6, <2>1, <2>2, <2>3, <2>4, ReadStep, Zenon DEF n
<1>10. CASE ReadOutbox(r)
    <2> DEFINE next == [s EXCEPT !.read = "outbox", !.outbox = db.outbox]
    <2>1. s.read = "commands" /\ snap' = [snap EXCEPT ![r] = next] /\ UNCHANGED vars
        BY <1>10, Zenon DEF ReadOutbox, Read, s
    <2>2. /\ next \in SnapType /\ next.read = "outbox" /\ next.head = s.head
          /\ next.events = s.events /\ next.commands = s.commands
          /\ next.outbox = db.outbox
        BY <1>2, <1>4 DEF SnapType
    <2> HIDE DEF next
    <2>3. Saw(next, m, k, c, n)
        BY <1>1, <1>3, <2>1, <2>2 DEF Saw
    <2> QED BY <1>3, <1>6, <2>1, <2>2, <2>3, ReadStep, Zenon DEF n
<1>11. CASE Return1(r)
    <2>1. snap' = [snap EXCEPT ![r] = NothingRead] /\ UNCHANGED vars
        BY <1>11, Zenon DEF Return1, Read
    <2>2. Saw(NothingRead, n, n, n, n)
        BY <1>5 DEF Saw
    <2>3. n <= n
        BY <1>1
    <2> QED BY <1>5, <1>6, <2>1, <2>2, <2>3, ReadStep, Zenon DEF n
<1> QED BY <1>7, <1>8, <1>9, <1>10, <1>11

LEMMA SnapStep == IInv /\ SnapInv /\ [SnapNext]_snapVars => IInv' /\ SnapInv'
<1> SUFFICES ASSUME IInv, SnapInv, [SnapNext]_snapVars PROVE IInv' /\ SnapInv'
    OBVIOUS
<1>1. CASE [Next]_vars /\ UNCHANGED snap
    <2>1. IInv'
        BY <1>1, NextIInv
    <2>2. /\ Len(db.events) \in Nat /\ Len(db'.events) \in Nat
          /\ Len(db.events) <= Len(db'.events)
        BY <1>1, EventsGrow
    <2>3. ASSUME NEW r \in Reader
          PROVE  \E m, k, c, o \in 0..Len(db'.events) :
                    m <= k /\ k <= c /\ c <= o /\ Saw(snap[r], m, k, c, o)'
        <3>1. PICK m \in 0..Len(db.events), k \in 0..Len(db.events),
                   c \in 0..Len(db.events), o \in 0..Len(db.events) :
                  m <= k /\ k <= c /\ c <= o /\ Saw(snap[r], m, k, c, o)
            BY DEF SnapInv
        <3>2. 0..Len(db.events) \subseteq 0..Len(db'.events)
            BY <2>2
        <3>3. Saw(snap[r], m, k, c, o)'
            <4>1. PICK s : s = snap[r]
                OBVIOUS
            <4>2. Saw(s, m, k, c, o)'
                BY <1>1, <3>1, <4>1, SawMore, Zenon
            <4>3. snap'[r] = s
                BY <1>1, <4>1
            <4> QED BY <4>2, <4>3, Zenon DEF Saw
        <3> QED BY <3>1, <3>2, <3>3, Zenon
    <2>4. snap' \in [Reader -> SnapType]
        BY <1>1 DEF SnapInv
    <2> QED BY <2>1, <2>3, <2>4, Zenon DEF SnapInv
<1>2. ASSUME NEW r \in Reader,
             \/ ReadHead(r) \/ ReadEvents(r) \/ ReadCommands(r) \/ ReadOutbox(r)
             \/ Return1(r)
      PROVE  IInv' /\ SnapInv'
    <2>1. SnapInv' /\ UNCHANGED vars
        BY <1>2, ReaderSteps
    <2> QED BY <2>1, NextIInv
<1> QED BY <1>1, <1>2, Zenon DEF SnapNext, snapVars

(* The chain of events has no two equal heads. *)
LEMMA HeadsDiffer ==
    ASSUME IInv, NEW m \in 0..Len(db.events), NEW n \in 0..Len(db.events),
           HeadAt(m) = HeadAt(n)
    PROVE  m = n
<1>1. /\ db.events \in Seq(EventRow) /\ Len(db.events) \in Nat /\ Chain(db.events)
    BY FileFollows
<1>2. ASSUME NEW i \in 1..Len(db.events)
      PROVE  /\ db.events[i].hash = EventHash(i, db.events[i].prop)
             /\ i \in 1..MaxEvents /\ db.events[i].prop \in Proposal
    <2>1. db.events[i] \in EventRow /\ db.events[i].seq = i
          /\ db.events[i].hash = EventHash(i, db.events[i].prop)
        BY <1>1 DEF Chain
    <2> QED BY <2>1 DEF EventRow
<1>3. CASE m = 0 /\ n = 0
    BY <1>3
<1>4. CASE m # 0 /\ n = 0
    <2>1. m \in 1..Len(db.events)
        BY <1>1, <1>4
    <2> QED BY <2>1, <1>2, <1>4, HashAssumption DEF HeadAt
<1>5. CASE m = 0 /\ n # 0
    <2>1. n \in 1..Len(db.events)
        BY <1>1, <1>5
    <2> QED BY <2>1, <1>2, <1>5, HashAssumption DEF HeadAt
<1>6. CASE m # 0 /\ n # 0
    <2>1. m \in 1..Len(db.events) /\ n \in 1..Len(db.events)
        BY <1>1, <1>6
    <2>2. EventHash(m, db.events[m].prop) = EventHash(n, db.events[n].prop)
        BY <2>1, <1>2, <1>6 DEF HeadAt
    <2>3. /\ m \in 1..MaxEvents /\ n \in 1..MaxEvents
          /\ db.events[m].prop \in Proposal /\ db.events[n].prop \in Proposal
        BY <2>1, <1>2
    <2>4. ASSUME NEW p \in Proposal, NEW q \in Proposal,
                 EventHash(m, p) = EventHash(n, q)
          PROVE  m = n
        BY <2>3, <2>4, HashAssumption
    <2> QED BY <2>2, <2>3, <2>4, Zenon
<1> QED BY <1>3, <1>4, <1>5, <1>6

LEMMA HeadOfFirst ==
    ASSUME IInv, NEW n \in 0..Len(db.events), NEW rows \in Seq(EventRow),
           SawEvents(rows, n)
    PROVE  /\ HeadOf(rows) = HeadAt(n)
           /\ \A i \in 1..n : HeadOf(SubSeq(rows, 1, i - 1)) = HeadAt(i - 1)
<1>0. Len(db.events) \in Nat /\ n \in Nat /\ Len(rows) = n
      /\ \A i \in 1..n : rows[i] = db.events[i]
    BY FileFollows DEF SawEvents
<1>1. ASSUME NEW part \in Seq(EventRow), NEW k \in 0..n, Len(part) = k,
             \A i \in 1..k : part[i] = rows[i]
      PROVE  HeadOf(part) = HeadAt(k)
    <2>1. (part = << >>) <=> (k = 0)
        BY <1>1
    <2>2. k # 0 => part[k] = db.events[k]
        BY <1>0, <1>1
    <2> QED BY <1>1, <2>1, <2>2, Zenon DEF HeadOf, HeadAt
<1>2. HeadOf(rows) = HeadAt(n)
    BY <1>0, <1>1
<1>3. ASSUME NEW i \in 1..n
      PROVE  HeadOf(SubSeq(rows, 1, i - 1)) = HeadAt(i - 1)
    <2> DEFINE part == SubSeq(rows, 1, i - 1)
    <2>1. /\ part \in Seq(EventRow) /\ Len(part) = i - 1 /\ i - 1 \in 0..n
          /\ \A j \in 1..(i - 1) : part[j] = rows[j]
        BY <1>0
    <2> HIDE DEF part
    <2>2. HeadOf(part) = HeadAt(i - 1)
        BY <2>1, <1>1
    <2> QED BY <2>2 DEF part
<1> QED BY <1>2, <1>3

LEMMA ErrorsListed ==
    ASSUME NEW t
    PROVE  /\ InvariantErrors(t) = {} <=>
                  /\ SequencesRun(t) /\ ParentsChain(t) /\ HashesMatch(t)
                  /\ t.head = HeadOf(t.events)
                  /\ Len(t.commands) = Len(t.events) /\ Len(t.outbox) = Len(t.events)
                  /\ Bound(t.commands, t.events) /\ Bound(t.outbox, t.events)
           /\ SequencesRun(t) /\ ParentsChain(t) /\ HashesMatch(t) =>
                  InvariantErrors(t) \cap
                      {"sequence_gap", "parent_break", "event_hash_mismatch"} = {}
<1> DEFINE e1 == Unless(SequencesRun(t), "sequence_gap")
           e2 == Unless(ParentsChain(t), "parent_break")
           e3 == Unless(HashesMatch(t), "event_hash_mismatch")
           e4 == Unless(t.head = HeadOf(t.events), "head_hash_mismatch")
           e5 == Unless(Len(t.commands) = Len(t.events), "command_event_count_mismatch")
           e6 == Unless(Len(t.outbox) = Len(t.events), "outbox_event_count_mismatch")
           e7 == Unless(Bound(t.commands, t.events), "command_event_binding_mismatch")
           e8 == Unless(Bound(t.outbox, t.events), "outbox_event_binding_mismatch")
<1>1. InvariantErrors(t) = UNION {e1, e2, e3, e4, e5, e6, e7, e8}
    BY Zenon DEF InvariantErrors
<1>2. /\ e1 = {} <=> SequencesRun(t)
      /\ e2 = {} <=> ParentsChain(t)
      /\ e3 = {} <=> HashesMatch(t)
    BY DEF Unless
<1>3. /\ e4 = {} <=> t.head = HeadOf(t.events)
      /\ e5 = {} <=> Len(t.commands) = Len(t.events)
      /\ e6 = {} <=> Len(t.outbox) = Len(t.events)
      /\ e7 = {} <=> Bound(t.commands, t.events)
      /\ e8 = {} <=> Bound(t.outbox, t.events)
    BY DEF Unless
<1>4. /\ e4 \subseteq {"head_hash_mismatch"}
      /\ e5 \subseteq {"command_event_count_mismatch"}
      /\ e6 \subseteq {"outbox_event_count_mismatch"}
      /\ e7 \subseteq {"command_event_binding_mismatch"}
      /\ e8 \subseteq {"outbox_event_binding_mismatch"}
    BY DEF Unless
<1> HIDE DEF e1, e2, e3, e4, e5, e6, e7, e8
<1>5. UNION {e1, e2, e3, e4, e5, e6, e7, e8} = {} <=>
          /\ e1 = {} /\ e2 = {} /\ e3 = {} /\ e4 = {}
          /\ e5 = {} /\ e6 = {} /\ e7 = {} /\ e8 = {}
    OBVIOUS
<1>6. InvariantErrors(t) = {} <=>
          /\ e1 = {} /\ e2 = {} /\ e3 = {} /\ e4 = {}
          /\ e5 = {} /\ e6 = {} /\ e7 = {} /\ e8 = {}
    BY <1>1, <1>5, Zenon
<1>7. SequencesRun(t) /\ ParentsChain(t) /\ HashesMatch(t) =>
          InvariantErrors(t) \cap
              {"sequence_gap", "parent_break", "event_hash_mismatch"} = {}
    <2> SUFFICES ASSUME e1 = {}, e2 = {}, e3 = {},
                        NEW x \in InvariantErrors(t),
                        x \in {"sequence_gap", "parent_break", "event_hash_mismatch"}
                 PROVE  FALSE
        BY <1>2
    <2>1. x \in UNION {e1, e2, e3, e4, e5, e6, e7, e8}
        BY <1>1
    <2>2. \/ x \in e4 \/ x \in e5 \/ x \in e6 \/ x \in e7 \/ x \in e8
        BY <2>1
    <2> QED BY <2>2, <1>4
<1>8. InvariantErrors(t) = {} <=>
          /\ SequencesRun(t) /\ ParentsChain(t) /\ HashesMatch(t)
          /\ t.head = HeadOf(t.events)
          /\ Len(t.commands) = Len(t.events) /\ Len(t.outbox) = Len(t.events)
          /\ Bound(t.commands, t.events) /\ Bound(t.outbox, t.events)
    BY <1>2, <1>3, <1>6, Zenon
<1> QED BY <1>8, <1>7, Zenon

(* The rows of an earlier SELECT are bound to those of a later one. *)
LEMMA EarlierIsBound ==
    ASSUME NEW first, NEW second, NEW a \in Nat, NEW b \in Nat, a <= b,
           Len(first) = a, Len(second) = b,
           \A i \in 1..a : first[i].seq = i /\ first[i].hash = db.events[i].hash,
           \A i \in 1..b : second[i].seq = i /\ second[i].hash = db.events[i].hash
    PROVE  Bound(first, second)
<1>1. ASSUME NEW i \in 1..a
      PROVE  /\ i \in 1..b
             /\ first[i].seq = second[i].seq /\ first[i].hash = second[i].hash
    OBVIOUS
<1> QED BY <1>1 DEF Bound

LEMMA HeadCountIs ==
    ASSUME IInv, NEW s, NEW m \in 0..Len(db.events), s.head = HeadAt(m)
    PROVE  HeadCount(s) = m
<1> DEFINE n == Len(db.events)
           Named(x) == HeadOf(SubSeq(db.events, 1, x)) = s.head
<1>0. n \in Nat /\ db.events \in Seq(EventRow)
    BY FileFollows
<1>1. ASSUME NEW x \in 0..n
      PROVE  HeadOf(SubSeq(db.events, 1, x)) = HeadAt(x)
    <2> DEFINE part == SubSeq(db.events, 1, x)
    <2>1. part \in Seq(EventRow) /\ Len(part) = x /\ \A i \in 1..x : part[i] = db.events[i]
        BY <1>0
    <2> HIDE DEF part
    <2>2. SawEvents(part, x)
        BY <2>1 DEF SawEvents
    <2>3. HeadOf(part) = HeadAt(x)
        BY <2>1, <2>2, HeadOfFirst
    <2> QED BY <2>3 DEF part
<1>2. Named(m)
    BY <1>1
<1>3. ASSUME NEW x \in 0..n, Named(x) PROVE x = m
    <2>1. HeadAt(x) = HeadAt(m)
        BY <1>1, <1>3
    <2> QED BY <2>1, HeadsDiffer
<1>4. HeadCount(s) = CHOOSE x \in 0..n : Named(x)
    BY Zenon DEF HeadCount
<1> HIDE DEF Named, n
<1> QED BY <1>2, <1>3, <1>4, Zenon DEF n

(* A snapshot whose SELECTs fall between the commits of other processes    *)
(* lists errors exactly when a commit fell between them: they never mean   *)
(* that the store is broken.                                               *)
THEOREM SnapshotErrorsMeanTorn == SnapSpec => []ErrorsMeanTorn
<1>1. IInv /\ SnapInv => ErrorsMeanTorn
    <2> SUFFICES ASSUME IInv, SnapInv, NEW r \in Reader, Complete(snap[r])
                 PROVE  LET s == snap[r]
                        IN  /\ HeadCount(s) <= Len(s.events)
                            /\ Bound(s.events, s.commands)
                            /\ Bound(s.commands, s.outbox)
                            /\ InvariantErrors(s) = {} <=> HeadCount(s) = Len(s.outbox)
                            /\ InvariantErrors(s) \cap
                                   {"sequence_gap", "parent_break",
                                    "event_hash_mismatch"} = {}
        BY Zenon DEF ErrorsMeanTorn
    <2> DEFINE n == Len(db.events)
               s == snap[r]
    <2>1. PICK m \in 0..n, k \in 0..n, c \in 0..n, o \in 0..n :
              m <= k /\ k <= c /\ c <= o /\ Saw(s, m, k, c, o)
        BY DEF SnapInv
    <2>2. /\ s.head = HeadAt(m) /\ SawEvents(s.events, k) /\ SawRows(s.commands, c)
          /\ SawRows(s.outbox, o)
        BY <2>1 DEF Complete, Saw
    <2>3. n \in Nat /\ s.events \in Seq(EventRow) /\ Chain(db.events)
        BY FileFollows DEF SnapInv, SnapType
    <2>4. HeadCount(s) = m
        BY <2>2, HeadCountIs, Zenon
    <2>5. /\ HeadOf(s.events) = HeadAt(k)
          /\ \A i \in 1..k : HeadOf(SubSeq(s.events, 1, i - 1)) = HeadAt(i - 1)
        BY <2>2, <2>3, HeadOfFirst
    <2> HIDE DEF s, n
    <2>6. Len(s.events) = k /\ Len(s.commands) = c /\ Len(s.outbox) = o
        BY <2>2 DEF SawEvents, SawRows
    <2>7. ASSUME NEW i \in 1..k
          PROVE  /\ s.events[i] = db.events[i]
                 /\ s.events[i].seq = i /\ s.events[i].hash = db.events[i].hash
                 /\ s.events[i].hash = EventHash(i, s.events[i].prop)
                 /\ s.events[i].parent = s.events[i].prop.parent
                 /\ s.events[i].parent = HeadAt(i - 1)
        <3>1. s.events[i] = db.events[i] /\ i \in 1..n
            BY <2>2, <2>3 DEF SawEvents
        <3>2. /\ db.events[i].seq = i
              /\ db.events[i].hash = EventHash(i, db.events[i].prop)
              /\ db.events[i].parent = db.events[i].prop.parent
              /\ db.events[i].parent = IF i = 1 THEN Genesis ELSE db.events[i - 1].hash
            BY <3>1, <2>3 DEF Chain, n
        <3>3. (i = 1) <=> (i - 1 = 0)
            BY <3>1
        <3> QED BY <3>1, <3>2, <3>3, Zenon DEF HeadAt
    <2>8. SequencesRun(s) /\ HashesMatch(s)
        BY <2>6, <2>7 DEF SequencesRun, HashesMatch
    <2>9. ParentsChain(s)
        BY <2>5, <2>6, <2>7, ZenonT(60) DEF ParentsChain
    <2>10. /\ \A i \in 1..c : s.commands[i].seq = i /\ s.commands[i].hash = db.events[i].hash
           /\ \A i \in 1..o : s.outbox[i].seq = i /\ s.outbox[i].hash = db.events[i].hash
        BY <2>2 DEF SawRows
    <2>11. k \in Nat /\ c \in Nat /\ o \in Nat /\ k <= c /\ c <= o /\ m <= k
        BY <2>1, <2>3
    <2> DEFINE Follows(rows, x) ==
                   \A i \in 1..x : rows[i].seq = i /\ rows[i].hash = db.events[i].hash
    <2>e. Follows(s.events, k) /\ Follows(s.commands, c) /\ Follows(s.outbox, o)
        BY <2>7, <2>10, Zenon
    <2>b. ASSUME NEW first, NEW second, NEW a \in Nat, NEW b \in Nat, a <= b,
                 Len(first) = a, Len(second) = b, Follows(first, a), Follows(second, b)
          PROVE  Bound(first, second)
        BY <2>b, EarlierIsBound
    <2> HIDE DEF Follows
    <2>12. Bound(s.events, s.commands)
        BY <2>6, <2>11, <2>e, <2>b, Zenon
    <2>13. Bound(s.commands, s.outbox)
        BY <2>6, <2>11, <2>e, <2>b, Zenon
    <2>14. ASSUME InvariantErrors(s) = {} PROVE m = o
        <3>1. HeadAt(m) = HeadAt(k) /\ c = k /\ o = k
            BY <2>14, <2>2, <2>5, <2>6, ErrorsListed
        <3> QED BY <3>1, <2>1, HeadsDiffer DEF n
    <2>15. ASSUME m = o PROVE InvariantErrors(s) = {}
        <3>1. m = k /\ c = k /\ o = k
            BY <2>15, <2>1, <2>3
        <3>2. k <= k
            BY <2>11
        <3>3. Bound(s.commands, s.events) /\ Bound(s.outbox, s.events)
            BY <3>1, <3>2, <2>6, <2>11, <2>e, <2>b, Zenon
        <3>4. s.head = HeadOf(s.events)
            BY <3>1, <2>2, <2>5
        <3> QED BY <3>1, <3>3, <3>4, <2>6, <2>8, <2>9, ErrorsListed, Zenon
    <2>16. InvariantErrors(s) \cap
               {"sequence_gap", "parent_break", "event_hash_mismatch"} = {}
        BY <2>8, <2>9, ErrorsListed, Zenon
    <2> QED BY <2>4, <2>6, <2>11, <2>12, <2>13, <2>14, <2>15, <2>16 DEF s
<1> QED BY <1>1, SnapInit0, SnapStep, PTL DEF SnapSpec

=============================================================================
