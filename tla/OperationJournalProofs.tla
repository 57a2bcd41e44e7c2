---------------------- MODULE OperationJournalProofs ----------------------
(***************************************************************************)
(* Theorems about OperationJournal, for every number of operations, keys   *)
(* and callers and every value of the retention constants.                 *)
(***************************************************************************)
EXTENDS OperationJournal, TLAPS

\* A row that is well typed and decodes.
GoodRow(r) == r \in Row /\ RowOK(r)

\* The inductive invariant: a step reads one row and writes it back, so it
\* must start from a row that is typed and decodes.
JournalInv == TypeOK /\ RowsDecodable

-----------------------------------------------------------------------------
(***************************************************************************)
(* Every row transformer, under the checks its callers make, keeps a row   *)
(* good.                                                                   *)
(***************************************************************************)

\* A submitted row is good when its deadline passed the checks of submit.
LEMMA NewRowGood ==
    ASSUME NEW kind \in Kinds, NEW key \in Keys, NEW input \in Inputs,
           NEW deadline \in Nat, NEW t \in Nat,
           t < deadline,
           deadline = UnboundedDeadline => kind = "scan_submit",
           \/ deadline + TerminalRetention <= t + MaxTtl
           \/ deadline = UnboundedDeadline
    PROVE  GoodRow(NewRow(kind, key, input, deadline, t))
BY TimeAssumption, NameAssumption
   DEF GoodRow, NewRow, Row, RowOK, TimesOK, LeaseOK, OutcomeOK, HandoffOK,
       IsTerminal, IsUnbounded, Status, LiveStatus, LeasedStatus,
       TerminalStatus, Payloads, Errors, NoTime

\* Cancelling a queued or running row (cancel_if_with_clock).
LEMMA CancelRowGood ==
    ASSUME NEW r, GoodRow(r), NEW t \in Nat,
           r.status \in {"queued", "running"}, r.updated <= t, t < r.deadline
    PROVE  GoodRow(CancelRow(r, t))
<1> DEFINE s == CancelRow(r, t)
<1>1. s \in Row
  BY DEF GoodRow, CancelRow, Row, Status, LiveStatus
<1>2. /\ s.kind = r.kind /\ s.status = "cancelling"
      /\ s.done = r.done /\ s.total = r.total
      /\ s.token = r.token /\ s.exp = r.exp /\ s.deadline = r.deadline
      /\ s.payload = r.payload /\ s.created = r.created /\ s.updated = t
      /\ s.terminal = r.terminal /\ s.anchor = r.anchor /\ s.retain = r.retain
      /\ s.claimed = r.claimed /\ s.finished = r.finished
  BY DEF GoodRow, CancelRow, Row
<1>3. r \in Row /\ s \in Row /\ RowOK(r)
  BY <1>1 DEF GoodRow
<1> HIDE DEF s
<1>4. RowOK(s)
  BY <1>2, <1>3, TimeAssumption
     DEF Row, RowOK, TimesOK, LeaseOK, OutcomeOK, HandoffOK, IsTerminal,
         IsUnbounded, LiveStatus, LeasedStatus, TerminalStatus, NoTime
<1> QED
  BY <1>1, <1>4 DEF GoodRow, s

\* Leasing a live row before its deadline (claim_next_runner_handoff,
\* acquire_lease).
LEMMA ClaimRowGood ==
    ASSUME NEW r, GoodRow(r), NEW t \in Nat,
           NEW tok \in Tokens,
           r.status \in LiveStatus, r.updated <= t, t < r.deadline
    PROVE  GoodRow(ClaimRow(r, tok, t))
<1> DEFINE s == ClaimRow(r, tok, t)
<1>0. LeaseUntil(r, t) \in Int /\ t \in Int
  BY TimeAssumption, NameAssumption DEF GoodRow, Row, LeaseUntil, Earlier
<1>1. s \in Row
  BY <1>0, NameAssumption DEF GoodRow, Row, ClaimRow,
         Status, LiveStatus, TerminalStatus, LeasedStatus
<1>2. /\ s.kind = r.kind
      /\ s.status = (IF r.status = "queued" THEN "running" ELSE r.status)
      /\ s.done = r.done /\ s.total = r.total /\ s.token = tok
      /\ s.exp = LeaseUntil(r, t) /\ s.deadline = r.deadline
      /\ s.payload = r.payload /\ s.created = r.created
      /\ s.updated = t /\ s.terminal = r.terminal
      /\ s.anchor = r.anchor /\ s.retain = r.retain
      /\ s.claimed = (IF r.claimed = NoTime THEN t ELSE r.claimed)
      /\ s.finished = r.finished
  BY DEF GoodRow, Row, ClaimRow
<1>3. r \in Row /\ s \in Row /\ RowOK(r)
  BY <1>1 DEF GoodRow
<1> HIDE DEF s
<1>4. RowOK(s)
  BY <1>2, <1>3, TimeAssumption, NameAssumption
     DEF Row, RowOK, TimesOK, LeaseOK, OutcomeOK, HandoffOK, IsTerminal,
         IsUnbounded, LiveStatus, LeasedStatus, TerminalStatus, Errors,
         Earlier, LeaseUntil, NoTime
<1> QED
  BY <1>1, <1>4 DEF GoodRow, s

\* Extending a lease that is held (renew_lease).
LEMMA RenewRowGood ==
    ASSUME NEW r, GoodRow(r), NEW t \in Nat,
           r.token # NoToken, r.updated <= t, t < r.deadline
    PROVE  GoodRow(RenewRow(r, t))
<1> DEFINE s == RenewRow(r, t)
<1>0. LeaseUntil(r, t) \in Int
  BY TimeAssumption, NameAssumption DEF GoodRow, Row, LeaseUntil, Earlier
<1>1. s \in Row
  BY <1>0, NameAssumption DEF GoodRow, Row, RenewRow
<1>2. /\ s.kind = r.kind /\ s.status = r.status /\ s.done = r.done
      /\ s.total = r.total /\ s.token = r.token
      /\ s.exp = LeaseUntil(r, t) /\ s.deadline = r.deadline
      /\ s.payload = r.payload /\ s.created = r.created
      /\ s.updated = t /\ s.terminal = r.terminal
      /\ s.anchor = r.anchor /\ s.retain = r.retain
      /\ s.claimed = r.claimed /\ s.finished = r.finished
  BY DEF GoodRow, Row, RenewRow
<1>3. r \in Row /\ s \in Row /\ RowOK(r)
  BY <1>1 DEF GoodRow
<1> HIDE DEF s
<1>4. RowOK(s)
  BY <1>2, <1>3, TimeAssumption, NameAssumption
     DEF Row, RowOK, TimesOK, LeaseOK, OutcomeOK, HandoffOK, IsTerminal,
         IsUnbounded, LiveStatus, LeasedStatus, TerminalStatus, Errors,
         Earlier, LeaseUntil, NoTime
<1> QED
  BY <1>1, <1>4 DEF GoodRow, s

\* Dating a running row like its completion decision
\* (commit_completion_intent).
LEMMA DecideRowGood ==
    ASSUME NEW r, GoodRow(r), NEW t \in Nat,
           r.status = "running", r.updated <= t, t < r.deadline
    PROVE  GoodRow(DecideRow(r, t))
<1> DEFINE s == DecideRow(r, t)
<1>1. s \in Row
  BY DEF GoodRow, Row, DecideRow
<1>2. /\ s.kind = r.kind /\ s.status = r.status /\ s.done = r.done
      /\ s.total = r.total /\ s.token = r.token
      /\ s.exp = r.exp /\ s.deadline = r.deadline
      /\ s.payload = r.payload /\ s.created = r.created
      /\ s.updated = t /\ s.terminal = r.terminal
      /\ s.anchor = r.anchor /\ s.retain = r.retain
      /\ s.claimed = r.claimed /\ s.finished = r.finished
  BY DEF GoodRow, Row, DecideRow
<1>3. r \in Row /\ s \in Row /\ RowOK(r)
  BY <1>1 DEF GoodRow
<1> HIDE DEF s
<1>4. RowOK(s)
  BY <1>2, <1>3, TimeAssumption, NameAssumption
     DEF Row, RowOK, TimesOK, LeaseOK, OutcomeOK, HandoffOK, IsTerminal,
         IsUnbounded, LiveStatus, LeasedStatus, TerminalStatus, Errors, NoTime
<1> QED
  BY <1>1, <1>4 DEF GoodRow, s

\* Giving up the lease of a live row (release_lease).
LEMMA ReleaseRowGood ==
    ASSUME NEW r, GoodRow(r), NEW t \in Nat,
           ~IsTerminal(r), r.updated <= t, t < r.deadline
    PROVE  GoodRow(ReleaseRow(r, t))
<1> DEFINE s == ReleaseRow(r, t)
<1>0. NoTime \in Int
  BY TimeAssumption, NameAssumption DEF GoodRow, Row, NoTime
<1>1. s \in Row
  BY <1>0, NameAssumption DEF GoodRow, Row, ReleaseRow
<1>2. /\ s.kind = r.kind /\ s.status = r.status /\ s.done = r.done
      /\ s.total = r.total /\ s.token = NoToken /\ s.exp = NoTime
      /\ s.deadline = r.deadline /\ s.payload = r.payload
      /\ s.created = r.created /\ s.updated = t
      /\ s.terminal = r.terminal /\ s.anchor = r.anchor
      /\ s.retain = r.retain /\ s.claimed = r.claimed
      /\ s.finished = r.finished
  BY DEF GoodRow, Row, ReleaseRow
<1>3. r \in Row /\ s \in Row /\ RowOK(r)
  BY <1>1 DEF GoodRow
<1> HIDE DEF s
<1>4. RowOK(s)
  BY <1>2, <1>3, TimeAssumption, NameAssumption
     DEF Row, RowOK, TimesOK, LeaseOK, OutcomeOK, HandoffOK, IsTerminal,
         IsUnbounded, LiveStatus, LeasedStatus, TerminalStatus, Errors,
         Earlier, LeaseUntil, NoTime
<1> QED
  BY <1>1, <1>4 DEF GoodRow, s

\* Recording progress on leased work (update_progress).
LEMMA ProgressRowGood ==
    ASSUME NEW r, GoodRow(r), NEW t \in Nat,
           NEW done \in Nat, NEW total \in Nat \ {0},
           r.status \in LeasedStatus, ProgressAllowed(r, done, total),
           r.updated <= t, t < r.deadline
    PROVE  GoodRow(ProgressRow(r, done, total, t))
<1> DEFINE s == ProgressRow(r, done, total, t)
<1>1. s \in Row
  BY TimeAssumption, NameAssumption DEF GoodRow, Row, ProgressRow
<1>2. /\ s.kind = r.kind /\ s.status = r.status /\ s.done = done
      /\ s.total = total /\ s.token = r.token /\ s.exp = r.exp
      /\ s.deadline = r.deadline /\ s.payload = r.payload
      /\ s.created = r.created /\ s.updated = t
      /\ s.terminal = r.terminal /\ s.anchor = r.anchor
      /\ s.retain = r.retain /\ s.claimed = r.claimed
      /\ s.finished = r.finished
  BY DEF GoodRow, Row, ProgressRow
<1>3. r \in Row /\ s \in Row /\ RowOK(r)
  BY <1>1 DEF GoodRow
<1> HIDE DEF s
<1>4. RowOK(s)
  BY <1>2, <1>3, TimeAssumption, NameAssumption
     DEF Row, RowOK, TimesOK, LeaseOK, OutcomeOK, HandoffOK, IsTerminal,
         IsUnbounded, LiveStatus, LeasedStatus, TerminalStatus, Errors,
         ProgressAllowed, NoTime
<1> QED
  BY <1>1, <1>4 DEF GoodRow, s

\* Ending claimed work: at is the instant of the decision, t the instant the
\* retention is counted from.  Only a completion may be recorded later than
\* it was decided.
LEMMA EndRowGood ==
    ASSUME NEW r, GoodRow(r), NEW t \in Nat,
           NEW at \in Nat, NEW status \in TerminalStatus, NEW payload \in Payloads,
           r.status \in LeasedStatus, r.claimed # NoTime,
           status = "completed" => payload = "result",
           status = "failed" => payload \in Errors,
           status = "cancelled" => payload = "none",
           r.updated <= at, at < r.deadline, at <= t, t < UnboundedDeadline,
           status # "completed" => at = t
    PROVE  GoodRow(EndRow(r, status, payload, at, t))
<1> DEFINE s == EndRow(r, status, payload, at, t)
<1>0. /\ TerminalAnchor(r, t) \in Nat
      /\ TerminalAnchor(r, t) + TerminalRetention \in Nat
      /\ NoTime \in Int /\ at \in Int
  BY TimeAssumption, NameAssumption DEF GoodRow, Row, TerminalAnchor, Later, NoTime
<1>1. s \in Row
  BY <1>0, NameAssumption DEF GoodRow, Row, EndRow, Status
<1>2. /\ s.kind = r.kind /\ s.status = status
      /\ s.done = (IF status = "completed" THEN r.total ELSE r.done)
      /\ s.total = r.total /\ s.token = NoToken /\ s.exp = NoTime
      /\ s.deadline = r.deadline /\ s.payload = payload
      /\ s.created = r.created /\ s.updated = at /\ s.terminal = at
      /\ s.anchor = TerminalAnchor(r, t)
      /\ s.retain = TerminalAnchor(r, t) + TerminalRetention
      /\ s.claimed = r.claimed /\ s.finished = at
  BY DEF GoodRow, Row, EndRow
<1>3. r \in Row /\ s \in Row /\ RowOK(r)
  BY <1>1 DEF GoodRow
<1> HIDE DEF s
<1>4. RowOK(s)
  BY <1>2, <1>3, TimeAssumption, NameAssumption
     DEF Row, RowOK, TimesOK, LeaseOK, OutcomeOK, HandoffOK, IsTerminal,
         IsUnbounded, LiveStatus, LeasedStatus, TerminalStatus, Errors,
         Later, TerminalAnchor, NoTime
<1> QED
  BY <1>1, <1>4 DEF GoodRow, s

\* Cancelling unclaimed work before launch (cancel_before_launch_with_clock).
LEMMA CancelQueuedRowGood ==
    ASSUME NEW r, GoodRow(r), NEW t \in Nat,
           r.status = "queued", r.updated <= t, t < r.deadline,
           t < UnboundedDeadline
    PROVE  GoodRow(CancelQueuedRow(r, t))
<1> DEFINE s == CancelQueuedRow(r, t)
<1>0. /\ TerminalAnchor(r, t) \in Nat
      /\ TerminalAnchor(r, t) + TerminalRetention \in Nat
      /\ NoTime \in Int /\ t \in Int
  BY TimeAssumption, NameAssumption DEF GoodRow, Row, TerminalAnchor, Later, NoTime
<1>1. s \in Row
  BY <1>0, NameAssumption DEF GoodRow, Row, CancelQueuedRow,
         EndRow, Status, TerminalStatus, Payloads
<1>2. /\ s.kind = r.kind /\ s.status = "cancelled"
      /\ s.done = r.done /\ s.total = r.total /\ s.token = NoToken
      /\ s.exp = NoTime /\ s.deadline = r.deadline
      /\ s.payload = "none" /\ s.created = r.created
      /\ s.updated = t /\ s.terminal = t
      /\ s.anchor = TerminalAnchor(r, t)
      /\ s.retain = TerminalAnchor(r, t) + TerminalRetention
      /\ s.claimed = t /\ s.finished = t
  BY DEF GoodRow, Row, CancelQueuedRow, EndRow
<1>3. r \in Row /\ s \in Row /\ RowOK(r)
  BY <1>1 DEF GoodRow
<1> HIDE DEF s
<1>4. RowOK(s)
  BY <1>2, <1>3, TimeAssumption, NameAssumption
     DEF Row, RowOK, TimesOK, LeaseOK, OutcomeOK, HandoffOK, IsTerminal,
         IsUnbounded, LiveStatus, LeasedStatus, TerminalStatus, Errors,
         Later, Earlier, LeaseUntil, TerminalAnchor, NoTime
<1> QED
  BY <1>1, <1>4 DEF GoodRow, s

\* Failing overdue work, claimed or not (transition_to_deadline_failure).
LEMMA DeadlineRowGood ==
    ASSUME NEW r, GoodRow(r),
           ~IsTerminal(r), ~IsUnbounded(r)
    PROVE  GoodRow(DeadlineRow(r))
<1> DEFINE s == DeadlineRow(r)
<1>0. /\ Later(r.retain, r.deadline + TerminalRetention) \in Nat
      /\ NoTime \in Int /\ r.deadline \in Int
  BY TimeAssumption, NameAssumption DEF GoodRow, Row, Later, NoTime
<1>1. s \in Row
  BY <1>0, NameAssumption DEF GoodRow, Row, DeadlineRow,
         Status, TerminalStatus, Payloads
<1>2. /\ s.kind = r.kind /\ s.status = "failed" /\ s.done = r.done
      /\ s.total = r.total /\ s.token = NoToken /\ s.exp = NoTime
      /\ s.deadline = r.deadline /\ s.payload = "deadline_exceeded"
      /\ s.created = r.created /\ s.updated = r.deadline
      /\ s.terminal = r.deadline /\ s.anchor = r.anchor
      /\ s.retain = Later(r.retain, r.deadline + TerminalRetention)
      /\ s.claimed = r.claimed /\ s.finished = r.deadline
  BY DEF GoodRow, Row, DeadlineRow
<1>3. r \in Row /\ s \in Row /\ RowOK(r)
  BY <1>1 DEF GoodRow
<1> HIDE DEF s
<1>4. RowOK(s)
  BY <1>2, <1>3, TimeAssumption, NameAssumption
     DEF Row, RowOK, TimesOK, LeaseOK, OutcomeOK, HandoffOK, IsTerminal,
         IsUnbounded, LiveStatus, LeasedStatus, TerminalStatus, Errors,
         Later, Earlier, LeaseUntil, TerminalAnchor, NoTime
<1> QED
  BY <1>1, <1>4 DEF GoodRow, s

\* The row written for lost project-exec work is typed; that it decodes is
\* what the claim checks before it commits.
LEMMA UnknownRowTyped ==
    ASSUME NEW r \in Row, NEW t \in Nat
    PROVE  UnknownRow(r, t) \in Row
<1>1. Later(r.retain, t + TerminalRetention) \in Nat /\ NoTime \in Int /\ t \in Int
  BY TimeAssumption DEF Row, Later, NoTime
<1> QED
  BY <1>1, NameAssumption
     DEF UnknownRow, Row, Status, TerminalStatus, Payloads

-----------------------------------------------------------------------------
(***************************************************************************)
(* Steps.                                                                  *)
(***************************************************************************)

\* A write of one good row preserves the invariant.
LEMMA UpdatePreserves ==
    ASSUME JournalInv, NEW o \in DOMAIN operations, NEW r, GoodRow(r),
           Update(o, r)
    PROVE  JournalInv'
<1>1. /\ DOMAIN operations' = DOMAIN operations
      /\ \A x \in DOMAIN operations : GoodRow(operations'[x])
  BY DEF JournalInv, TypeOK, RowsDecodable, GoodRow, Update, Write
<1>2. TypeOK'
  BY <1>1 DEF JournalInv, TypeOK, GoodRow, Update, Write
<1>3. RowsDecodable'
  BY <1>1 DEF RowsDecodable, GoodRow
<1> QED
  BY <1>2, <1>3 DEF JournalInv

\* What a caller reads is good, and its timestamp precedes every deadline of
\* an unbounded scan.
LEMMA ReadGood ==
    ASSUME JournalInv, NEW o \in DOMAIN operations, NEW t \in 0..clock
    PROVE  /\ GoodRow(operations[o])
           /\ t \in Nat /\ clock \in Nat
           /\ t <= clock /\ clock < UnboundedDeadline
BY TimeAssumption DEF JournalInv, TypeOK, RowsDecodable, GoodRow

\* A client's submit preserves the invariant.
LEMMA SubmitPreserves ==
    ASSUME JournalInv, NEW o \in Ops, NEW kind \in SubmitKinds, NEW key \in Keys,
           NEW input \in Inputs, NEW deadline \in Requests(kind),
           Submit(o, kind, key, input, deadline)
    PROVE  JournalInv'
<1> DEFINE row == NewRow(kind, key, input, deadline, clock)
           old == {p \in DOMAIN tombstones : Scope(tombstones[p]) = <<kind, key>>}
<1>1. deadline \in Nat /\ clock \in Nat /\ kind \in Kinds
  BY TimeAssumption, NameAssumption DEF JournalInv, TypeOK, Requests
<1>2. GoodRow(row)
  BY <1>1, NewRowGood DEF Submit, TombstonesOf
<1>3. operations' = With(operations, o, row) /\ tombstones' = Without(tombstones, old)
  BY DEF Submit, TombstonesOf
<1> HIDE DEF row, old
<1>4. /\ DOMAIN operations' \subseteq Ops
      /\ \A x \in DOMAIN operations' : GoodRow(operations'[x])
  BY <1>2, <1>3 DEF With, JournalInv, TypeOK, RowsDecodable, GoodRow
<1>5. /\ DOMAIN tombstones' \subseteq Ops
      /\ \A x \in DOMAIN tombstones' : tombstones'[x] \in Tombstone
  BY <1>3 DEF Without, JournalInv, TypeOK
<1>6. TypeOK'
  BY <1>4, <1>5 DEF JournalInv, TypeOK, GoodRow, Submit, TombstonesOf
<1> QED
  BY <1>4, <1>6 DEF JournalInv, RowsDecodable, GoodRow

\* Cancelling, before or after the launch, preserves the invariant.
LEMMA CancelPreserves ==
    ASSUME JournalInv, NEW o \in Ops, Cancel(o) \/ CancelBeforeLaunch(o)
    PROVE  JournalInv'
<1>1. o \in DOMAIN operations
  BY DEF Cancel, CancelBeforeLaunch, Cancellable, Loadable
<1>2. GoodRow(operations[o]) /\ clock \in Nat /\ clock < UnboundedDeadline
  BY <1>1, ReadGood, TimeAssumption DEF JournalInv, TypeOK
<1> DEFINE r == operations[o]
<1>3. /\ r.updated <= clock /\ clock < r.deadline
      /\ r.status \in {"queued", "running"}
      /\ \/ Update(o, CancelRow(r, clock))
         \/ r.status = "queued" /\ Update(o, CancelQueuedRow(r, clock))
  BY DEF Cancel, CancelBeforeLaunch, Cancellable, Loadable
<1> HIDE DEF r
<1>4. CASE Update(o, CancelRow(r, clock))
  BY <1>1, <1>2, <1>3, <1>4, CancelRowGood, UpdatePreserves DEF r
<1>5. CASE r.status = "queued" /\ Update(o, CancelQueuedRow(r, clock))
  BY <1>1, <1>2, <1>3, <1>5, CancelQueuedRowGood, UpdatePreserves DEF r
<1> QED
  BY <1>3, <1>4, <1>5

\* Failing lost project-exec leases leaves a table of good rows, because each
\* new row is checked before the claim may commit.
LEMMA FailLostGood ==
    ASSUME JournalInv, NEW t \in 0..clock, NEW grant, NEW lost \in LostBatches(grant, t),
           MayFailLost(lost, t)
    PROVE  /\ DOMAIN FailLost(lost, t) = DOMAIN operations
           /\ \A x \in DOMAIN operations : GoodRow(FailLost(lost, t)[x])
<1>1. t \in Nat
  BY DEF JournalInv, TypeOK
<1>2. lost \subseteq DOMAIN operations
  BY DEF LostBatches, OldestBatches, LostProjectExec
<1>3. ASSUME NEW x \in DOMAIN operations
      PROVE  GoodRow(FailLost(lost, t)[x])
  BY <1>1, <1>2, UnknownRowTyped
     DEF FailLost, MayFailLost, GoodRow, JournalInv, TypeOK, RowsDecodable
<1> QED
  BY <1>3 DEF FailLost

\* A runner's claim preserves the invariant.
LEMMA ClaimPreserves ==
    ASSUME JournalInv, NEW t \in 0..clock, NEW grant \in Grants,
           \/ \E o \in Ops, tok \in Tokens : ClaimNext(o, grant, tok, t)
           \/ ClaimNone(grant, t)
    PROVE  JournalInv'
<1>1. t \in Nat
  BY DEF JournalInv, TypeOK
<1>2. ASSUME NEW ops, Write(ops), DOMAIN ops = DOMAIN operations,
             \A x \in DOMAIN operations : GoodRow(ops[x])
      PROVE  JournalInv'
  BY <1>2 DEF Write, JournalInv, TypeOK, RowsDecodable, GoodRow
<1>3. CASE ClaimNone(grant, t)
  <2>1. PICK lost \in LostBatches(grant, t) :
            MayFailLost(lost, t) /\ Write(FailLost(lost, t))
    BY <1>3 DEF ClaimNone
  <2> QED
    BY <2>1, <1>2, FailLostGood
<1>4. CASE \E o \in Ops, tok \in Tokens : ClaimNext(o, grant, tok, t)
  <2>1. PICK o \in Ops, tok \in Tokens : ClaimNext(o, grant, tok, t)
    BY <1>4
  <2> DEFINE ops(lost) == FailLost(lost, t)
  <2>2. PICK lost \in LostBatches(grant, t) :
            /\ MayFailLost(lost, t)
            /\ o \in OldestClaimable(ops(lost), grant, t)
            /\ ops(lost)[o].updated <= t
            /\ Write([ops(lost) EXCEPT ![o] = ClaimRow(ops(lost)[o], tok, t)])
    BY <2>1 DEF ClaimNext
  <2>3. /\ DOMAIN ops(lost) = DOMAIN operations
        /\ \A x \in DOMAIN operations : GoodRow(ops(lost)[x])
    BY <2>2, FailLostGood
  <2> DEFINE new == [ops(lost) EXCEPT ![o] = ClaimRow(ops(lost)[o], tok, t)]
  <2>4. /\ o \in DOMAIN operations
        /\ ops(lost)[o].status \in LiveStatus
        /\ t < ops(lost)[o].deadline
    BY <2>2, <2>3 DEF OldestClaimable, Claimable, LiveStatus, LeasedStatus
  <2> HIDE DEF ops
  <2>5. GoodRow(ClaimRow(ops(lost)[o], tok, t))
    BY <2>2, <2>3, <2>4, <1>1, ClaimRowGood
  <2>6. DOMAIN new = DOMAIN operations /\ \A x \in DOMAIN operations : GoodRow(new[x])
    BY <2>3, <2>4, <2>5
  <2> QED
    BY <2>2, <2>6, <1>2
<1> QED
  BY <1>3, <1>4

\* Every call of a lease holder preserves the invariant.
LEMMA HolderPreserves ==
    ASSUME JournalInv, NEW t \in 0..clock, NEW o \in Ops, NEW tok \in Tokens,
           HolderNext(o, tok, t)
    PROVE  JournalInv'
<1> DEFINE r == operations[o]
<1>1. /\ o \in DOMAIN operations
      /\ r.updated <= t /\ t < r.deadline
  BY DEF HolderNext, AcquireLease, RenewLease, ReleaseLease, UpdateProgress,
         Finish, CommitCompletionIntent, HeldBy, Loadable
<1>2. GoodRow(r) /\ t \in Nat /\ t < UnboundedDeadline
  BY <1>1, ReadGood, TimeAssumption
<1>3. tok # NoToken
  BY NameAssumption
<1>4. CASE AcquireLease(o, tok, t)
  <2>1. r.status \in LiveStatus /\ Update(o, ClaimRow(r, tok, t))
    BY <1>2, <1>4 DEF AcquireLease, IsTerminal, GoodRow, Row, Status
  <2> QED
    BY <2>1, <1>1, <1>2, ClaimRowGood, UpdatePreserves
<1>5. CASE RenewLease(o, tok, t)
  BY <1>1, <1>2, <1>3, <1>5, RenewRowGood, UpdatePreserves
     DEF RenewLease, HeldBy, HasActiveLease
<1>6. CASE ReleaseLease(o, tok, t)
  BY <1>1, <1>2, <1>6, ReleaseRowGood, UpdatePreserves DEF ReleaseLease
<1>7. CASE \E total \in Totals : \E done \in 0..total :
               UpdateProgress(o, tok, done, total, t)
  <2>0. PICK total \in Totals : \E done \in 0..total :
            UpdateProgress(o, tok, done, total, t)
    BY <1>7
  <2>1. PICK done \in 0..total : UpdateProgress(o, tok, done, total, t)
    BY <2>0
  <2>2. total \in Nat \ {0} /\ done \in Nat
    BY TimeAssumption
  <2> QED
    BY <2>1, <2>2, <1>1, <1>2, ProgressRowGood, UpdatePreserves
       DEF UpdateProgress
<1>8. CASE \E status \in TerminalStatus : Finish(o, tok, status, t)
  <2>1. PICK status \in TerminalStatus : Finish(o, tok, status, t)
    BY <1>8
  <2> DEFINE payload == CASE status = "completed" -> "result"
                          [] status = "failed"    -> "error"
                          [] status = "cancelled" -> "none"
  <2>2. /\ payload \in Payloads
        /\ status = "completed" => payload = "result"
        /\ status = "failed" => payload \in Errors
        /\ status = "cancelled" => payload = "none"
    BY DEF TerminalStatus, Payloads, Errors
  <2>3. Update(o, EndRow(r, status, payload, t, t))
    BY <2>1 DEF Finish
  <2>4. r.status \in LeasedStatus /\ r.token # NoToken
    BY <2>1, <1>3 DEF Finish, MayFinishAs, LeasedStatus, HeldBy, HasActiveLease
  <2>5. r.claimed # NoTime
    BY <2>4, <1>2 DEF GoodRow, RowOK, HandoffOK
  <2> HIDE DEF payload
  <2>6. GoodRow(EndRow(r, status, payload, t, t))
    BY <2>2, <2>4, <2>5, <1>1, <1>2, EndRowGood
  <2> QED
    BY <2>3, <2>6, <1>1, UpdatePreserves
<1>9. CASE CommitCompletionIntent(o, tok, t)
  <2>1. GoodRow(DecideRow(r, t))
    BY <1>1, <1>2, <1>9, DecideRowGood DEF CommitCompletionIntent
  <2>2. /\ DOMAIN operations' = DOMAIN operations
        /\ \A x \in DOMAIN operations : GoodRow(operations'[x])
    BY <2>1, <1>9
       DEF CommitCompletionIntent, JournalInv, TypeOK, RowsDecodable, GoodRow
  <2>3. DOMAIN intents' \subseteq Ops /\ \A x \in DOMAIN intents' : intents'[x] \in Nat
    BY <1>2, <1>9 DEF CommitCompletionIntent, With, JournalInv, TypeOK
  <2> QED
    BY <2>2, <2>3, <1>9
       DEF CommitCompletionIntent, JournalInv, TypeOK, RowsDecodable, GoodRow
<1> QED
  BY <1>4, <1>5, <1>6, <1>7, <1>8, <1>9 DEF HolderNext

\* Publishing a decided completion preserves the invariant.
LEMMA FinishIntentPreserves ==
    ASSUME JournalInv, NEW t \in 0..clock, NEW o \in Ops,
           FinishCompletionIntent(o, t)
    PROVE  JournalInv'
<1> DEFINE r == operations[o]
           at == intents[o]
<1>1. /\ o \in DOMAIN operations /\ o \in DOMAIN intents
      /\ r.status = "running" /\ at = r.updated
      /\ at <= t /\ at < r.deadline
  BY DEF FinishCompletionIntent, IntentValid
<1>2. /\ GoodRow(r) /\ t \in Nat /\ t < UnboundedDeadline /\ at \in Nat
      /\ r.updated <= at
  BY <1>1, ReadGood, TimeAssumption DEF JournalInv, TypeOK, GoodRow, Row
<1>3. r.status \in LeasedStatus /\ r.claimed # NoTime
  BY <1>1, <1>2 DEF LeasedStatus, GoodRow, RowOK, HandoffOK
<1>4. GoodRow(EndRow(r, "completed", "result", at, t))
  BY <1>1, <1>2, <1>3, EndRowGood DEF TerminalStatus, Payloads
<1>5. /\ DOMAIN operations' = DOMAIN operations
      /\ \A x \in DOMAIN operations : GoodRow(operations'[x])
  BY <1>4 DEF FinishCompletionIntent, JournalInv, TypeOK, RowsDecodable, GoodRow
<1>6. DOMAIN intents' \subseteq Ops /\ \A x \in DOMAIN intents' : intents'[x] \in Nat
  BY DEF FinishCompletionIntent, Without, JournalInv, TypeOK
<1> QED
  BY <1>5, <1>6
     DEF FinishCompletionIntent, JournalInv, TypeOK, RowsDecodable, GoodRow

\* Overdue work is never an unbounded scan, whose deadline no clock reaches.
LEMMA OverdueBounded ==
    ASSUME JournalInv, NEW t \in 0..clock, NEW o \in DOMAIN operations, Overdue(o, t)
    PROVE  GoodRow(DeadlineRow(operations[o]))
<1>1. GoodRow(operations[o]) /\ t \in Nat /\ t < UnboundedDeadline
  BY ReadGood, TimeAssumption
<1>2. ~IsUnbounded(operations[o]) /\ ~IsTerminal(operations[o])
  BY <1>1 DEF Overdue, IsUnbounded, IsTerminal, LiveStatus, TerminalStatus,
              GoodRow, Row
<1> QED
  BY <1>1, <1>2, DeadlineRowGood

\* Reaping, burying and forgetting in one purge preserve the invariant.
LEMMA PurgePreserves ==
    ASSUME JournalInv, NEW t \in 0..clock, Purge(t)
    PROVE  JournalInv'
<1>1. PICK reaped \in SUBSET Reapable(t) :
        \E gone \in SUBSET Retired(Reap(reaped), t) :
        \E done \in SUBSET DOMAIN Bury(Reap(reaped), gone, t) :
            /\ operations' = Without(Reap(reaped), gone)
            /\ intents' = Without(intents, gone)
            /\ tombstones' = Without(Bury(Reap(reaped), gone, t), done)
            /\ reserved' = Remember(Reap(reaped), gone)
            /\ clock' = clock
  BY DEF Purge, OldestBatches, Elapsed
<1> DEFINE ops == Reap(reaped)
<1>2. PICK gone \in SUBSET Retired(ops, t) :
        \E done \in SUBSET DOMAIN Bury(ops, gone, t) :
            /\ operations' = Without(ops, gone)
            /\ intents' = Without(intents, gone)
            /\ tombstones' = Without(Bury(ops, gone, t), done)
            /\ reserved' = Remember(ops, gone)
            /\ clock' = clock
  BY <1>1
<1>3. DOMAIN ops = DOMAIN operations /\ \A x \in DOMAIN operations : GoodRow(ops[x])
  BY OverdueBounded
     DEF Reap, Reapable, JournalInv, TypeOK, RowsDecodable, GoodRow
<1>4. gone \subseteq DOMAIN operations
  BY <1>3 DEF Retired
<1> HIDE DEF ops
<1>5. /\ DOMAIN operations' \subseteq Ops
      /\ \A x \in DOMAIN operations' : GoodRow(operations'[x])
  BY <1>2, <1>3 DEF Without, JournalInv, TypeOK
<1>6. DOMAIN intents' \subseteq Ops /\ \A x \in DOMAIN intents' : intents'[x] \in Nat
  BY <1>2 DEF Without, JournalInv, TypeOK
<1>7. \A x \in gone : /\ TombstoneOf(ops[x]) \in Tombstone
                      /\ ops[x].retain + TombstoneRetention \in Nat
  BY <1>3, <1>4, TimeAssumption DEF TombstoneOf, Tombstone, GoodRow, Row
<1>8. /\ DOMAIN Bury(ops, gone, t) \subseteq Ops
      /\ \A x \in DOMAIN Bury(ops, gone, t) : Bury(ops, gone, t)[x] \in Tombstone
  BY <1>4, <1>7 DEF Bury, JournalInv, TypeOK
<1>9. /\ DOMAIN tombstones' \subseteq Ops
      /\ \A x \in DOMAIN tombstones' : tombstones'[x] \in Tombstone
  BY <1>2, <1>8 DEF Without
<1>10. reserved' \in [Scopes -> Nat]
  BY <1>2, <1>7 DEF Remember, JournalInv, TypeOK
<1> QED
  BY <1>2, <1>5, <1>6, <1>9, <1>10 DEF JournalInv, TypeOK, RowsDecodable, GoodRow

-----------------------------------------------------------------------------
\* Every step of the journal preserves the invariant.
LEMMA StepKeepsJournal ==
    ASSUME JournalInv, [JournalNext]_journalVars
    PROVE  JournalInv'
<1>1. CASE Tick
  BY <1>1, TimeAssumption DEF Tick, JournalInv, TypeOK, RowsDecodable
<1>2. CASE ClientNext
  BY <1>2, SubmitPreserves, CancelPreserves DEF ClientNext
<1>3. CASE \E t \in 0..clock : RunnerNext(t)
  <2>1. PICK t \in 0..clock : RunnerNext(t)
    BY <1>3
  <2>2. ASSUME NEW o \in Ops, NEW cleaned, FailDeadline(o, cleaned, t)
        PROVE  JournalInv'
    BY <2>2, OverdueBounded, UpdatePreserves DEF FailDeadline
  <2> QED
    BY <2>1, <2>2, ClaimPreserves, HolderPreserves, FinishIntentPreserves,
       PurgePreserves
       DEF RunnerNext
<1>4. CASE UNCHANGED journalVars
  BY <1>4 DEF journalVars, JournalInv, TypeOK, RowsDecodable
<1> QED
  BY <1>1, <1>2, <1>3, <1>4 DEF JournalNext

\* The journal starts empty, and so within the invariant.
LEMMA JournalStarts ==
    ASSUME JournalInit
    PROVE  JournalInv
BY TimeAssumption DEF JournalInit, JournalInv, TypeOK, RowsDecodable

\* The invariant holds in every state of the journal.
THEOREM JournalInvariant == JournalSpec => []JournalInv
<1>1. JournalInit => JournalInv
  BY JournalStarts
<1>2. JournalInv /\ [JournalNext]_journalVars => JournalInv'
  BY StepKeepsJournal
<1> QED
  BY <1>1, <1>2, PTL DEF JournalSpec

\* The tables keep the shape of their columns.
THEOREM TypeCorrect == JournalSpec => []TypeOK
BY JournalInvariant, PTL DEF JournalInv

\* No sequence of journal calls, with any interleaving of callers and any
\* stale timestamps, commits a row that decode_operation or
\* validate_operation_handoff would reject.
THEOREM RowsStayDecodable == JournalSpec => []RowsDecodable
BY JournalInvariant, PTL DEF JournalInv

-----------------------------------------------------------------------------
(***************************************************************************)
(* What the steps do to the records: the action properties of the journal  *)
(* and its idempotency scopes.                                             *)
(***************************************************************************)

\* What a step may make of a record that it leaves in the table.
Keeps(r, s) ==
    /\ IsTerminal(r) => s = r
    /\ Scope(s) = Scope(r) /\ s.input = r.input
    /\ s.created = r.created /\ s.deadline = r.deadline
    /\ s.status \in Successors(r.status)
    /\ r.updated <= s.updated
    /\ r.done <= s.done
    /\ r.claimed # NoTime => s.claimed = r.claimed

\* What a step may make of the table: records leave it when their retention is
\* over, and those that stay are kept.
TableStep ==
    /\ \A o \in DOMAIN operations \ DOMAIN operations' : operations[o].retain <= clock
    /\ \A o \in DOMAIN operations \cap DOMAIN operations' :
          Keeps(operations[o], operations'[o])

-----------------------------------------------------------------------------
(***************************************************************************)
(* Every row transformer keeps the record, under the checks of its callers.*)
(***************************************************************************)
\* A row that is not written is kept.
LEMMA KeepsSame ==
    ASSUME NEW r, GoodRow(r)
    PROVE  Keeps(r, r)
BY DEF GoodRow, Row, Keeps, Successors, Status, LiveStatus, TerminalStatus

\* Cancelling, with or without a runner to tell.
LEMMA KeepsCancel ==
    ASSUME NEW r, GoodRow(r), NEW t \in Nat, r.updated <= t
    PROVE  /\ r.status \in {"queued", "running"} => Keeps(r, CancelRow(r, t))
           /\ r.status = "queued" => Keeps(r, CancelQueuedRow(r, t))
<1>1. r.status \in {"queued", "running"} => Keeps(r, CancelRow(r, t))
  BY DEF GoodRow, Row, Keeps, CancelRow, Scope, IsTerminal, Successors, Status,
         LiveStatus, TerminalStatus
<1>2. r.status = "queued" => Keeps(r, CancelQueuedRow(r, t))
  <2> DEFINE s == CancelQueuedRow(r, t)
  <2>1. /\ s.kind = r.kind /\ s.key = r.key /\ s.input = r.input /\ s.created = r.created
        /\ s.deadline = r.deadline /\ s.status = "cancelled" /\ s.updated = t
        /\ s.done = r.done
    BY DEF GoodRow, Row, CancelQueuedRow, EndRow
  <2>2. r.status = "queued" => r.claimed = NoTime
    BY DEF GoodRow, RowOK, HandoffOK
  <2> HIDE DEF s
  <2> QED
    BY <2>1, <2>2 DEF GoodRow, Row, Keeps, Scope, IsTerminal, Successors, Status,
         LiveStatus, TerminalStatus, s
<1> QED
  BY <1>1, <1>2

\* Leasing a live row.
LEMMA KeepsClaim ==
    ASSUME NEW r, GoodRow(r), NEW t \in Nat, NEW tok, r.updated <= t,
           r.status \in LiveStatus
    PROVE  Keeps(r, ClaimRow(r, tok, t))
BY DEF GoodRow, Row, Keeps, ClaimRow, Scope, IsTerminal, Successors, Status,
       LiveStatus, TerminalStatus

\* Renewing and releasing a lease, deciding, and reporting progress.
LEMMA KeepsHold ==
    ASSUME NEW r, GoodRow(r), NEW t \in Nat, r.updated <= t, r.status \in LiveStatus
    PROVE  /\ Keeps(r, RenewRow(r, t))
           /\ Keeps(r, ReleaseRow(r, t))
           /\ Keeps(r, DecideRow(r, t))
           /\ \A done \in Nat, total \in Nat :
                 r.done <= done => Keeps(r, ProgressRow(r, done, total, t))
<1> USE DEF GoodRow, Row, Keeps, Scope, IsTerminal, Successors, Status,
            LiveStatus, TerminalStatus
<1>1. Keeps(r, RenewRow(r, t))
  BY DEF RenewRow
<1>2. Keeps(r, ReleaseRow(r, t))
  BY DEF ReleaseRow
<1>3. Keeps(r, DecideRow(r, t))
  BY DEF DecideRow
<1>4. \A done \in Nat, total \in Nat :
          r.done <= done => Keeps(r, ProgressRow(r, done, total, t))
  BY DEF ProgressRow
<1> QED
  BY <1>1, <1>2, <1>3, <1>4

\* Ending a row as its status allows.
LEMMA KeepsEnd ==
    ASSUME NEW r, GoodRow(r), NEW at \in Nat, NEW now \in Nat, r.updated <= at,
           NEW status, MayFinishAs(r, status), NEW payload
    PROVE  Keeps(r, EndRow(r, status, payload, at, now))
<1> DEFINE s == EndRow(r, status, payload, at, now)
<1>1. /\ s.kind = r.kind /\ s.key = r.key /\ s.input = r.input /\ s.created = r.created
      /\ s.deadline = r.deadline /\ s.status = status /\ s.updated = at
      /\ s.claimed = r.claimed
      /\ s.done = (IF status = "completed" THEN r.total ELSE r.done)
  BY DEF GoodRow, Row, EndRow
<1>2. r.done <= r.total
  BY DEF GoodRow, RowOK
<1> HIDE DEF s
<1> QED
  BY <1>1, <1>2 DEF GoodRow, Row, Keeps, Scope, IsTerminal, Successors, Status,
     LiveStatus, TerminalStatus, MayFinishAs, s

\* Failing overdue work, and work whose lease was lost.
LEMMA KeepsFail ==
    ASSUME NEW r, GoodRow(r), r.status \in LiveStatus
    PROVE  /\ Keeps(r, DeadlineRow(r))
           /\ \A t \in Nat : r.updated <= t => Keeps(r, UnknownRow(r, t))
<1> USE DEF GoodRow, Row, Keeps, Scope, IsTerminal, Successors, Status,
            LiveStatus, TerminalStatus
<1>1. Keeps(r, DeadlineRow(r))
  <2> DEFINE s == DeadlineRow(r)
  <2>1. /\ s.kind = r.kind /\ s.key = r.key /\ s.input = r.input /\ s.created = r.created
        /\ s.deadline = r.deadline /\ s.status = "failed" /\ s.updated = r.deadline
        /\ s.claimed = r.claimed /\ s.done = r.done
    BY DEF DeadlineRow
  <2>2. r.updated <= r.deadline
    BY DEF RowOK, TimesOK
  <2> HIDE DEF s
  <2> QED
    BY <2>1, <2>2 DEF s
<1>2. ASSUME NEW t \in Nat, r.updated <= t
      PROVE  Keeps(r, UnknownRow(r, t))
  BY <1>2 DEF UnknownRow
<1> QED
  BY <1>1, <1>2

-----------------------------------------------------------------------------
(***************************************************************************)
(* Every step is a table step.                                             *)
(***************************************************************************)
\* Writing one row over a record that keeps it.
LEMMA UpdateIsTableStep ==
    ASSUME JournalInv, NEW o \in DOMAIN operations, NEW r, Keeps(operations[o], r),
           operations' = [operations EXCEPT ![o] = r]
    PROVE  TableStep
<1>1. DOMAIN operations' = DOMAIN operations
  OBVIOUS
<1>2. \A x \in DOMAIN operations : GoodRow(operations[x])
  BY DEF JournalInv, TypeOK, RowsDecodable, GoodRow
<1>3. \A x \in DOMAIN operations : Keeps(operations[x], operations'[x])
  BY <1>2, KeepsSame
<1> QED
  BY <1>1, <1>3 DEF TableStep

\* A client's call.
LEMMA ClientIsTableStep ==
    ASSUME JournalInv, ClientNext
    PROVE  TableStep
<1>1. PICK o \in Ops :
        \/ \E kind \in SubmitKinds, key \in Keys, input \in Inputs :
              \E deadline \in Requests(kind) :
                  Submit(o, kind, key, input, deadline)
        \/ Cancel(o) \/ CancelBeforeLaunch(o)
  BY DEF ClientNext
<1>2. \A x \in DOMAIN operations : GoodRow(operations[x])
  BY DEF JournalInv, TypeOK, RowsDecodable, GoodRow
<1>3. CASE \E kind \in SubmitKinds, key \in Keys, input \in Inputs :
              \E deadline \in Requests(kind) :
                  Submit(o, kind, key, input, deadline)
  <2>1. PICK row : o \notin DOMAIN operations /\ operations' = With(operations, o, row)
    BY <1>3 DEF Submit
  <2>2. /\ DOMAIN operations \subseteq DOMAIN operations'
        /\ \A x \in DOMAIN operations : operations'[x] = operations[x]
    BY <2>1 DEF With
  <2> QED
    BY <2>2, <1>2, KeepsSame DEF TableStep
<1>4. CASE Cancel(o) \/ CancelBeforeLaunch(o)
  <2>1. /\ o \in DOMAIN operations /\ clock \in Nat
        /\ operations[o].updated <= clock
        /\ operations[o].status \in {"queued", "running"}
    BY <1>4 DEF Cancel, CancelBeforeLaunch, Cancellable, Loadable, JournalInv, TypeOK
  <2>2. \/ operations' = [operations EXCEPT ![o] = CancelRow(operations[o], clock)]
        \/ /\ operations[o].status = "queued"
           /\ operations' = [operations EXCEPT ![o] = CancelQueuedRow(operations[o], clock)]
    BY <1>4 DEF Cancel, CancelBeforeLaunch, Update, Write
  <2> QED
    BY <2>1, <2>2, <1>2, KeepsCancel, UpdateIsTableStep
<1> QED
  BY <1>1, <1>3, <1>4

\* A runner's claim.  What is claimed has not been failed as lost before.
LEMMA ClaimIsTableStep ==
    ASSUME JournalInv, NEW t \in 0..clock, NEW grant,
           \/ \E o \in Ops, tok \in Tokens : ClaimNext(o, grant, tok, t)
           \/ ClaimNone(grant, t)
    PROVE  TableStep
<1>1. t \in Nat /\ \A x \in DOMAIN operations : GoodRow(operations[x])
  BY DEF JournalInv, TypeOK, RowsDecodable, GoodRow
<1>2. PICK lost \in LostBatches(grant, t) :
        /\ MayFailLost(lost, t)
        /\ \/ Write(FailLost(lost, t))
           \/ \E o \in Ops, tok \in Tokens :
                 /\ o \in OldestClaimable(FailLost(lost, t), grant, t)
                 /\ FailLost(lost, t)[o].updated <= t
                 /\ Write([FailLost(lost, t) EXCEPT ![o] =
                              ClaimRow(FailLost(lost, t)[o], tok, t)])
  BY DEF ClaimNext, ClaimNone
<1> DEFINE ops == FailLost(lost, t)
<1>3. \A x \in lost : x \in DOMAIN operations /\ operations[x].status \in LiveStatus
  BY DEF LostBatches, OldestBatches, LostProjectExec, LeasedStatus, LiveStatus
<1>4. /\ DOMAIN ops = DOMAIN operations
      /\ \A x \in lost : ops[x] = UnknownRow(operations[x], t)
      /\ \A x \in DOMAIN operations \ lost : ops[x] = operations[x]
  BY <1>3 DEF FailLost
<1>5. \A x \in DOMAIN operations : Keeps(operations[x], ops[x])
  <2>1. \A x \in lost : operations[x].updated <= t
    BY <1>2 DEF MayFailLost
  <2> HIDE DEF ops
  <2> QED
    BY <1>1, <1>3, <1>4, <2>1, KeepsSame, KeepsFail
<1>6. \A x \in lost : ops[x].status = "failed"
  <2>1. \A x \in lost : UnknownRow(operations[x], t).status = "failed"
    BY <1>1, <1>3 DEF UnknownRow, GoodRow, Row
  <2> HIDE DEF ops
  <2> QED
    BY <1>4, <2>1
<1>7. CASE Write(ops)
  BY <1>4, <1>5, <1>7 DEF Write, TableStep
<1>8. ASSUME NEW o \in Ops, NEW tok \in Tokens,
             o \in OldestClaimable(ops, grant, t), ops[o].updated <= t,
             Write([ops EXCEPT ![o] = ClaimRow(ops[o], tok, t)])
      PROVE  TableStep
  <2> HIDE DEF ops
  <2>1. o \in DOMAIN operations /\ ops[o].status \in LiveStatus
    BY <1>4, <1>8 DEF OldestClaimable, Claimable, LeasedStatus, LiveStatus
  <2>2. ops[o] = operations[o]
    BY <1>4, <1>6, <2>1 DEF LiveStatus
  <2>3. Keeps(operations[o], ClaimRow(ops[o], tok, t))
    BY <1>1, <1>8, <2>1, <2>2, KeepsClaim
  <2>4. /\ DOMAIN operations' = DOMAIN operations
        /\ \A x \in DOMAIN operations : Keeps(operations[x], operations'[x])
    BY <1>4, <1>5, <1>8, <2>1, <2>3 DEF Write
  <2> QED
    BY <2>4 DEF TableStep
<1> QED
  BY <1>2, <1>7, <1>8

\* A lease holder's call.
LEMMA HolderIsTableStep ==
    ASSUME JournalInv, NEW t \in 0..clock, NEW o \in Ops, NEW tok \in Tokens,
           HolderNext(o, tok, t)
    PROVE  TableStep
<1> DEFINE r == operations[o]
<1>1. o \in DOMAIN operations /\ r.updated <= t
  BY DEF HolderNext, AcquireLease, RenewLease, ReleaseLease, UpdateProgress,
         Finish, CommitCompletionIntent, HeldBy, Loadable
<1>2. t \in Nat /\ GoodRow(r)
  BY <1>1, ReadGood
<1>3. r.status \in LiveStatus
  <2>1. HasActiveLease(r, tok, t) => r.status \in LeasedStatus
    BY <1>2, NameAssumption DEF GoodRow, RowOK, LeaseOK, HasActiveLease
  <2>2. ~IsTerminal(r) => r.status \in LiveStatus
    BY <1>2 DEF GoodRow, Row, IsTerminal, Status
  <2> QED
    BY <2>1, <2>2 DEF HolderNext, AcquireLease, RenewLease, ReleaseLease, UpdateProgress,
         Finish, CommitCompletionIntent, HeldBy, LeasedStatus, LiveStatus
<1>4. CASE AcquireLease(o, tok, t)
  <2>1. operations' = [operations EXCEPT ![o] = ClaimRow(r, tok, t)]
    BY <1>4 DEF AcquireLease, Update, Write
  <2> QED
    BY <2>1, <1>1, <1>2, <1>3, KeepsClaim, UpdateIsTableStep
<1>5. CASE RenewLease(o, tok, t)
  <2>1. operations' = [operations EXCEPT ![o] = RenewRow(r, t)]
    BY <1>5 DEF RenewLease, Update, Write
  <2> QED
    BY <2>1, <1>1, <1>2, <1>3, KeepsHold, UpdateIsTableStep
<1>6. CASE ReleaseLease(o, tok, t)
  <2>1. operations' = [operations EXCEPT ![o] = ReleaseRow(r, t)]
    BY <1>6 DEF ReleaseLease, Update, Write
  <2> QED
    BY <2>1, <1>1, <1>2, <1>3, KeepsHold, UpdateIsTableStep
<1>7. ASSUME NEW total \in Totals, NEW done \in 0..total,
             UpdateProgress(o, tok, done, total, t)
      PROVE  TableStep
  <2>1. operations' = [operations EXCEPT ![o] = ProgressRow(r, done, total, t)]
    BY <1>7 DEF UpdateProgress, Update, Write
  <2>2. done \in Nat /\ total \in Nat /\ r.done <= done
    BY <1>7, TimeAssumption DEF UpdateProgress, ProgressAllowed
  <2> QED
    BY <2>1, <2>2, <1>1, <1>2, <1>3, KeepsHold, UpdateIsTableStep
<1>8. ASSUME NEW status \in TerminalStatus, Finish(o, tok, status, t)
      PROVE  TableStep
  <2>1. PICK payload : operations' = [operations EXCEPT ![o] = EndRow(r, status, payload, t, t)]
    BY <1>8 DEF Finish, Update, Write
  <2>2. MayFinishAs(r, status)
    BY <1>8 DEF Finish
  <2> QED
    BY <2>1, <2>2, <1>1, <1>2, KeepsEnd, UpdateIsTableStep
<1>9. CASE CommitCompletionIntent(o, tok, t)
  <2>1. operations' = [operations EXCEPT ![o] = DecideRow(r, t)]
    BY <1>9 DEF CommitCompletionIntent
  <2> QED
    BY <2>1, <1>1, <1>2, <1>3, KeepsHold, UpdateIsTableStep
<1> QED
  BY <1>4, <1>5, <1>6, <1>7, <1>8, <1>9 DEF HolderNext

\* The completion of a decision, and a deadline failure.
LEMMA EndIsTableStep ==
    ASSUME JournalInv, NEW t \in 0..clock, NEW o \in Ops,
           FinishCompletionIntent(o, t) \/ \E cleaned \in BOOLEAN : FailDeadline(o, cleaned, t)
    PROVE  TableStep
<1> DEFINE r == operations[o]
<1>1. o \in DOMAIN operations
  BY DEF FinishCompletionIntent, IntentValid, FailDeadline
<1>2. GoodRow(r) /\ t \in Nat
  BY <1>1, ReadGood
<1>3. CASE FinishCompletionIntent(o, t)
  <2>1. /\ o \in DOMAIN intents /\ r.status = "running" /\ r.updated = intents[o]
        /\ operations' = [operations EXCEPT ![o] =
              EndRow(r, "completed", "result", intents[o], t)]
    BY <1>3 DEF FinishCompletionIntent, IntentValid
  <2>2. intents[o] \in Nat /\ r.updated <= intents[o] /\ MayFinishAs(r, "completed")
    BY <2>1 DEF JournalInv, TypeOK, MayFinishAs
  <2> QED
    BY <2>1, <2>2, <1>1, <1>2, KeepsEnd, UpdateIsTableStep
<1>4. CASE \E cleaned \in BOOLEAN : FailDeadline(o, cleaned, t)
  <2>1. /\ r.status \in LiveStatus
        /\ operations' = [operations EXCEPT ![o] = DeadlineRow(r)]
    BY <1>4 DEF FailDeadline, Overdue, Update, Write
  <2> QED
    BY <2>1, <1>1, <1>2, KeepsFail, UpdateIsTableStep
<1> QED
  BY <1>3, <1>4

\* The three phases of a purge, whatever the batches.
LEMMA PurgeShape ==
    ASSUME NEW t, Purge(t)
    PROVE  \E reaped \in SUBSET Reapable(t) :
           \E gone \in SUBSET Retired(Reap(reaped), t) :
           \E done \in SUBSET Elapsed(Bury(Reap(reaped), gone, t), t) :
              /\ operations' = Without(Reap(reaped), gone)
              /\ intents' = Without(intents, gone)
              /\ tombstones' = Without(Bury(Reap(reaped), gone, t), done)
              /\ reserved' = Remember(Reap(reaped), gone)
              /\ clock' = clock
BY DEF Purge, OldestBatches

\* Reaping keeps the records and does not shorten their retention.
LEMMA ReapKeeps ==
    ASSUME JournalInv, NEW t \in 0..clock, NEW reaped \in SUBSET Reapable(t)
    PROVE  /\ DOMAIN Reap(reaped) = DOMAIN operations
           /\ \A x \in DOMAIN operations :
                 /\ Keeps(operations[x], Reap(reaped)[x])
                 /\ GoodRow(Reap(reaped)[x])
                 /\ operations[x].retain <= Reap(reaped)[x].retain
<1>1. \A x \in DOMAIN operations : GoodRow(operations[x])
  BY DEF JournalInv, TypeOK, RowsDecodable, GoodRow
<1>2. \A x \in reaped : /\ x \in DOMAIN operations
                        /\ operations[x].status \in LiveStatus /\ Overdue(x, t)
  BY DEF Reapable, Overdue
<1>3. \A x \in reaped : /\ Keeps(operations[x], DeadlineRow(operations[x]))
                        /\ GoodRow(DeadlineRow(operations[x]))
  BY <1>1, <1>2, KeepsFail, OverdueBounded
<1>4. \A x \in reaped : operations[x].retain <= DeadlineRow(operations[x]).retain
  BY <1>1, <1>2, TimeAssumption DEF DeadlineRow, GoodRow, Row, Later
<1>5. /\ DOMAIN Reap(reaped) = DOMAIN operations
      /\ \A x \in reaped : Reap(reaped)[x] = DeadlineRow(operations[x])
      /\ \A x \in DOMAIN operations \ reaped : Reap(reaped)[x] = operations[x]
  BY <1>2 DEF Reap
<1>6. \A x \in DOMAIN operations : operations[x].retain <= operations[x].retain
  BY <1>1 DEF GoodRow, Row
<1> QED
  BY <1>1, <1>3, <1>4, <1>5, <1>6, KeepsSame

\* A purge: what leaves the table has outlived its retention.
LEMMA PurgeIsTableStep ==
    ASSUME JournalInv, NEW t \in 0..clock, Purge(t)
    PROVE  TableStep
<1>1. PICK reaped \in SUBSET Reapable(t) : \E gone \in SUBSET Retired(Reap(reaped), t) :
          operations' = Without(Reap(reaped), gone)
  BY PurgeShape
<1> DEFINE ops == Reap(reaped)
<1>2. PICK gone \in SUBSET Retired(ops, t) : operations' = Without(ops, gone)
  BY <1>1
<1>3. /\ DOMAIN ops = DOMAIN operations
      /\ \A x \in DOMAIN operations : /\ Keeps(operations[x], ops[x])
                                      /\ operations[x] \in Row /\ ops[x] \in Row
                                      /\ operations[x].retain <= ops[x].retain
  BY ReapKeeps DEF JournalInv, TypeOK, GoodRow
<1> HIDE DEF ops
<1>4. DOMAIN operations' = DOMAIN operations \ gone
      /\ \A x \in DOMAIN operations \ gone : operations'[x] = ops[x]
  BY <1>2, <1>3 DEF Without
<1>5. \A x \in gone : x \in DOMAIN operations /\ ops[x].retain <= t
  BY <1>3 DEF Retired
<1>6. \A x \in gone : operations[x].retain <= clock
  BY <1>3, <1>5, TimeAssumption DEF Row, JournalInv, TypeOK
<1> QED
  BY <1>3, <1>4, <1>6 DEF TableStep

\* Every step of the journal is a table step.
LEMMA StepIsTableStep ==
    ASSUME JournalInv, [JournalNext]_journalVars
    PROVE  TableStep
<1>1. ASSUME operations' = operations
      PROVE  TableStep
  BY <1>1, KeepsSame DEF TableStep, JournalInv, TypeOK, RowsDecodable, GoodRow
<1>2. CASE Tick
  BY <1>1, <1>2 DEF Tick
<1>3. CASE ClientNext
  BY <1>3, ClientIsTableStep
<1>4. CASE \E t \in 0..clock : RunnerNext(t)
  BY <1>4, ClaimIsTableStep, HolderIsTableStep, EndIsTableStep, PurgeIsTableStep
     DEF RunnerNext
<1>5. CASE UNCHANGED journalVars
  BY <1>1, <1>5 DEF journalVars
<1> QED
  BY <1>2, <1>3, <1>4, <1>5 DEF JournalNext

-----------------------------------------------------------------------------
(***************************************************************************)
(* Idempotency scopes.                                                     *)
(***************************************************************************)
\* A scope is reserved by a record, by a tombstone that lasts as long as the
\* promise, or by nothing once the promise is over.
WindowInv ==
    \A s \in Scopes :
        \/ reserved[s] <= clock
        \/ \E o \in DOMAIN operations : Scope(operations[o]) = s
        \/ \E p \in DOMAIN tombstones :
              Scope(tombstones[p]) = s /\ reserved[s] <= tombstones[p].until

\* The invariant of the scopes.
ScopeInv == OneRecordPerScope /\ WindowInv

\* A write to the operations table that neither adds nor removes a record.
LEMMA WriteKeepsScopes ==
    ASSUME JournalInv, ScopeInv, TableStep, DOMAIN operations' = DOMAIN operations,
           clock' = clock, UNCHANGED <<tombstones, reserved>>
    PROVE  ScopeInv'
<1>1. \A o \in DOMAIN operations : Scope(operations'[o]) = Scope(operations[o])
  BY DEF TableStep, Keeps
<1> QED
  BY <1>1 DEF ScopeInv, OneRecordPerScope, WindowInv

\* A submission takes a scope that nothing reserves any more.
LEMMA SubmitKeepsScopes ==
    ASSUME JournalInv, ScopeInv, NEW o \in Ops, NEW kind \in SubmitKinds, NEW key \in Keys,
           NEW input \in Inputs, NEW deadline \in Requests(kind),
           Submit(o, kind, key, input, deadline)
    PROVE  /\ ScopeInv'
           /\ DOMAIN operations' \ DOMAIN operations = {o}
           /\ reserved[Scope(operations'[o])] <= clock
<1> DEFINE scope == <<kind, key>>
           row == NewRow(kind, key, input, deadline, clock)
           old == {p \in DOMAIN tombstones : Scope(tombstones[p]) = scope}
<1>1. /\ o \notin DOMAIN operations \cup DOMAIN tombstones
      /\ \A p \in DOMAIN operations : Scope(operations[p]) # scope
      /\ \A p \in old : tombstones[p].until <= clock
      /\ operations' = With(operations, o, row)
      /\ tombstones' = Without(tombstones, old)
      /\ UNCHANGED <<intents, clock, reserved>>
  BY DEF Submit, TombstonesOf
<1>2. scope \in Scopes /\ reserved \in [Scopes -> Nat] /\ clock \in Nat
  BY NameAssumption DEF Scopes, JournalInv, TypeOK
<1>3. Scope(row) = scope
  BY DEF Scope, NewRow
<1> HIDE DEF row, scope
<1>4. /\ DOMAIN operations' = DOMAIN operations \cup {o}
      /\ operations'[o] = row
      /\ \A p \in DOMAIN operations : operations'[p] = operations[p]
  BY <1>1 DEF With
<1>5. /\ DOMAIN tombstones' = DOMAIN tombstones \ old
      /\ \A p \in DOMAIN tombstones \ old : tombstones'[p] = tombstones[p]
  BY <1>1 DEF Without
<1>6. reserved[scope] <= clock
  <2>1. CASE \E p \in DOMAIN tombstones :
                Scope(tombstones[p]) = scope /\ reserved[scope] <= tombstones[p].until
    BY <1>1, <1>2, <2>1 DEF JournalInv, TypeOK, Tombstone
  <2> QED
    BY <1>1, <1>2, <2>1 DEF ScopeInv, WindowInv
<1>7. OneRecordPerScope'
  <2>1. DOMAIN operations' \cap DOMAIN tombstones' = {}
    BY <1>1, <1>4, <1>5 DEF ScopeInv, OneRecordPerScope
  <2>2. \A x \in DOMAIN operations' : Scope(operations'[x]) =
            IF x = o THEN scope ELSE Scope(operations[x])
    BY <1>1, <1>3, <1>4
  <2>3. \A p \in DOMAIN tombstones' : /\ p \in DOMAIN tombstones
                                      /\ Scope(tombstones'[p]) = Scope(tombstones[p])
                                      /\ Scope(tombstones[p]) # scope
    BY <1>5
  <2>4. \A x, y \in DOMAIN operations' :
          Scope(operations'[x]) = Scope(operations'[y]) => x = y
    BY <1>1, <1>4, <2>2 DEF ScopeInv, OneRecordPerScope
  <2>5. \A p, q \in DOMAIN tombstones' :
          Scope(tombstones'[p]) = Scope(tombstones'[q]) => p = q
    BY <2>3 DEF ScopeInv, OneRecordPerScope
  <2>6. \A x \in DOMAIN operations', p \in DOMAIN tombstones' :
          Scope(operations'[x]) # Scope(tombstones'[p])
    BY <1>4, <2>2, <2>3 DEF ScopeInv, OneRecordPerScope
  <2> QED
    BY <2>1, <2>4, <2>5, <2>6 DEF OneRecordPerScope
<1>8. WindowInv'
  <2>1. ASSUME NEW s \in Scopes
        PROVE  \/ reserved[s] <= clock
               \/ \E x \in DOMAIN operations' : Scope(operations'[x]) = s
               \/ \E p \in DOMAIN tombstones' :
                      Scope(tombstones'[p]) = s /\ reserved[s] <= tombstones'[p].until
    <3>1. CASE s = scope
      BY <3>1, <1>6
    <3>2. CASE s # scope
      BY <3>2, <1>4, <1>5 DEF ScopeInv, WindowInv
    <3> QED
      BY <3>1, <3>2
  <2> QED
    BY <2>1, <1>1 DEF WindowInv
<1> QED
  BY <1>1, <1>3, <1>4, <1>6, <1>7, <1>8 DEF ScopeInv

\* A purge hands the scope of a record to its tombstone, and drops a tombstone
\* only when its time is over.
LEMMA PurgeKeepsScopes ==
    ASSUME JournalInv, ScopeInv, NEW t \in 0..clock, Purge(t)
    PROVE  ScopeInv' /\ DOMAIN operations' \subseteq DOMAIN operations
<1>1. PICK reaped \in SUBSET Reapable(t) : \E gone \in SUBSET Retired(Reap(reaped), t) :
        \E done \in SUBSET Elapsed(Bury(Reap(reaped), gone, t), t) :
              /\ operations' = Without(Reap(reaped), gone)
              /\ tombstones' = Without(Bury(Reap(reaped), gone, t), done)
              /\ reserved' = Remember(Reap(reaped), gone)
              /\ clock' = clock
  BY PurgeShape
<1> DEFINE ops == Reap(reaped)
<1>2. PICK gone \in SUBSET Retired(ops, t) :
        \E done \in SUBSET Elapsed(Bury(ops, gone, t), t) :
              /\ operations' = Without(ops, gone)
              /\ tombstones' = Without(Bury(ops, gone, t), done)
              /\ reserved' = Remember(ops, gone)
              /\ clock' = clock
  BY <1>1
<1> DEFINE tombs == Bury(ops, gone, t)
<1>3. PICK done \in SUBSET Elapsed(tombs, t) :
              /\ operations' = Without(ops, gone)
              /\ tombstones' = Without(tombs, done)
              /\ reserved' = Remember(ops, gone)
              /\ clock' = clock
  BY <1>2
<1>4. /\ DOMAIN ops = DOMAIN operations
      /\ \A x \in DOMAIN operations : /\ ops[x] \in Row
                                      /\ Scope(ops[x]) = Scope(operations[x])
  BY ReapKeeps DEF Keeps, GoodRow
<1> HIDE DEF ops
<1>5. gone \subseteq DOMAIN operations
  BY <1>4 DEF Retired
<1> DEFINE buried == {o \in gone : ops[o].retain + TombstoneRetention > t}
<1>6. /\ DOMAIN tombs = DOMAIN tombstones \cup buried
      /\ \A x \in buried : tombs[x] = TombstoneOf(ops[x])
      /\ \A x \in DOMAIN tombstones \ buried : tombs[x] = tombstones[x]
  BY DEF Bury
<1>7. \A x \in buried : /\ Scope(TombstoneOf(ops[x])) = Scope(ops[x])
                        /\ TombstoneOf(ops[x]).until = ops[x].retain + TombstoneRetention
  BY DEF TombstoneOf, Scope
<1> HIDE DEF tombs
<1>8. /\ DOMAIN operations' = DOMAIN operations \ gone
      /\ \A x \in DOMAIN operations \ gone : operations'[x] = ops[x]
      /\ DOMAIN tombstones' = DOMAIN tombs \ done
      /\ \A x \in DOMAIN tombs \ done : tombstones'[x] = tombs[x]
  BY <1>3, <1>4 DEF Without
<1>9. t \in Int /\ clock \in Int /\ t <= clock /\ TombstoneRetention \in Nat
  BY TimeAssumption DEF JournalInv, TypeOK
<1>10. \A x \in DOMAIN tombs : Scope(tombs[x]) =
          IF x \in buried THEN Scope(operations[x]) ELSE Scope(tombstones[x])
  BY <1>4, <1>5, <1>6, <1>7
<1>11. OneRecordPerScope'
  <2>1. DOMAIN operations' \cap DOMAIN tombstones' = {}
    BY <1>6, <1>8 DEF ScopeInv, OneRecordPerScope
  <2>2. \A o, p \in DOMAIN operations' :
          Scope(operations'[o]) = Scope(operations'[p]) => o = p
    BY <1>4, <1>8 DEF ScopeInv, OneRecordPerScope
  <2>3. \A o, p \in DOMAIN tombs : Scope(tombs[o]) = Scope(tombs[p]) => o = p
    BY <1>5, <1>6, <1>10 DEF ScopeInv, OneRecordPerScope
  <2>4. \A o \in DOMAIN operations \ gone, p \in DOMAIN tombs :
          Scope(operations[o]) # Scope(tombs[p])
    BY <1>5, <1>6, <1>10 DEF ScopeInv, OneRecordPerScope
  <2> QED
    BY <1>4, <1>8, <2>1, <2>2, <2>3, <2>4 DEF OneRecordPerScope
<1>12. WindowInv'
  <2> SUFFICES ASSUME NEW s \in Scopes
               PROVE  \/ reserved'[s] <= clock
                      \/ \E x \in DOMAIN operations' : Scope(operations'[x]) = s
                      \/ \E p \in DOMAIN tombstones' :
                            Scope(tombstones'[p]) = s /\ reserved'[s] <= tombstones'[p].until
    BY <1>3 DEF WindowInv
  <2>0. \A x \in done : tombs[x].until <= t
    BY <1>3 DEF Elapsed
  <2>1. CASE \E o \in gone : Scope(ops[o]) = s
    <3>1. PICK o \in gone : o = CHOOSE x \in gone : Scope(ops[x]) = s
      BY <2>1
    <3>2. Scope(ops[o]) = s /\ reserved'[s] = ops[o].retain + TombstoneRetention
      BY <1>3, <2>1, <3>1 DEF Remember
    <3>3. ops[o].retain \in Int
      BY <1>4, <1>5 DEF Row
    <3>4. CASE o \notin buried
      BY <1>9, <3>2, <3>3, <3>4
    <3>5. CASE o \in buried /\ o \in done
      <4>1. tombs[o].until = reserved'[s]
        BY <1>6, <1>7, <3>2, <3>5
      <4> QED
        BY <1>9, <2>0, <3>2, <3>3, <3>5, <4>1
    <3>6. CASE o \in buried /\ o \notin done
      <4>1. o \in DOMAIN tombstones' /\ tombstones'[o] = TombstoneOf(ops[o])
        BY <1>6, <1>8, <3>6
      <4> QED
        BY <1>7, <3>2, <3>3, <3>6, <4>1, <1>9
    <3> QED
      BY <3>4, <3>5, <3>6
  <2>2. CASE ~\E o \in gone : Scope(ops[o]) = s
    <3>1. reserved'[s] = reserved[s]
      BY <1>3, <2>2 DEF Remember
    <3>2. reserved[s] \in Nat
      BY DEF JournalInv, TypeOK
    <3>3. CASE \E o \in DOMAIN operations : Scope(operations[o]) = s
      BY <1>4, <1>8, <2>2, <3>3
    <3>4. ASSUME NEW p \in DOMAIN tombstones, Scope(tombstones[p]) = s,
                 reserved[s] <= tombstones[p].until
          PROVE  \/ reserved'[s] <= clock
                 \/ \E q \in DOMAIN tombstones' :
                       Scope(tombstones'[q]) = s /\ reserved'[s] <= tombstones'[q].until
      <4>1. p \notin buried /\ tombs[p] = tombstones[p] /\ p \in DOMAIN tombs
        BY <1>5, <1>6, <3>4 DEF ScopeInv, OneRecordPerScope
      <4>2. tombstones[p].until \in Nat
        BY <3>4 DEF JournalInv, TypeOK, Tombstone
      <4>3. CASE p \in done
        BY <4>1, <4>2, <4>3, <1>9, <2>0, <3>1, <3>2, <3>4
      <4>4. CASE p \notin done
        BY <4>1, <4>4, <1>8, <3>1, <3>4
      <4> QED
        BY <4>3, <4>4
    <3> QED
      BY <3>1, <3>3, <3>4 DEF ScopeInv, WindowInv
  <2> QED
    BY <2>1, <2>2
<1> QED
  BY <1>8, <1>11, <1>12 DEF ScopeInv

\* The steps that neither add nor remove records, and all the others: the scopes
\* are kept, and a record appears only in a scope that is free.
LEMMA StepKeepsScopes ==
    ASSUME JournalInv, ScopeInv, [JournalNext]_journalVars
    PROVE  /\ ScopeInv'
           /\ \A o \in DOMAIN operations' \ DOMAIN operations :
                 reserved[Scope(operations'[o])] <= clock
<1>1. TableStep
  BY StepIsTableStep
<1>2. ASSUME DOMAIN operations' = DOMAIN operations, clock' = clock,
             UNCHANGED <<tombstones, reserved>>
      PROVE  /\ ScopeInv'
             /\ \A o \in DOMAIN operations' \ DOMAIN operations :
                   reserved[Scope(operations'[o])] <= clock
  BY <1>1, <1>2, WriteKeepsScopes
<1>3. ASSUME NEW o, NEW r, Update(o, r)
      PROVE  /\ DOMAIN operations' = DOMAIN operations /\ clock' = clock
             /\ UNCHANGED <<tombstones, reserved>>
  BY <1>3 DEF Update, Write
<1>4. CASE Tick
  <2>1. operations' = operations /\ UNCHANGED <<tombstones, reserved>>
    BY <1>4 DEF Tick
  <2>2. \A s \in Scopes : reserved[s] <= clock => reserved[s] <= clock'
    BY <1>4 DEF Tick, JournalInv, TypeOK
  <2> QED
    BY <2>1, <2>2 DEF ScopeInv, OneRecordPerScope, WindowInv
<1>5. CASE ClientNext
  <2>1. PICK o \in Ops :
        \/ \E kind \in SubmitKinds, key \in Keys, input \in Inputs :
              \E deadline \in Requests(kind) :
                  Submit(o, kind, key, input, deadline)
        \/ Cancel(o) \/ CancelBeforeLaunch(o)
    BY <1>5 DEF ClientNext
  <2>2. CASE Cancel(o) \/ CancelBeforeLaunch(o)
    BY <1>2, <1>3, <2>2 DEF Cancel, CancelBeforeLaunch
  <2>3. CASE \E kind \in SubmitKinds, key \in Keys, input \in Inputs :
              \E deadline \in Requests(kind) :
                  Submit(o, kind, key, input, deadline)
    BY <2>3, SubmitKeepsScopes
  <2> QED
    BY <2>1, <2>2, <2>3
<1>6. ASSUME NEW t \in 0..clock, RunnerNext(t)
      PROVE  /\ ScopeInv'
             /\ \A o \in DOMAIN operations' \ DOMAIN operations :
                   reserved[Scope(operations'[o])] <= clock
  <2>1. ASSUME NEW grant,
               \/ \E o \in Ops, tok \in Tokens : ClaimNext(o, grant, tok, t)
               \/ ClaimNone(grant, t)
        PROVE  /\ DOMAIN operations' = DOMAIN operations /\ clock' = clock
               /\ UNCHANGED <<tombstones, reserved>>
    BY <2>1 DEF ClaimNext, ClaimNone, FailLost, Write
  <2>2. ASSUME NEW o \in Ops, NEW tok \in Tokens, HolderNext(o, tok, t)
        PROVE  /\ DOMAIN operations' = DOMAIN operations /\ clock' = clock
               /\ UNCHANGED <<tombstones, reserved>>
    BY <1>3, <2>2 DEF HolderNext, AcquireLease, RenewLease, ReleaseLease, UpdateProgress,
         Finish, CommitCompletionIntent
  <2>3. ASSUME NEW o \in Ops,
               FinishCompletionIntent(o, t) \/ \E cleaned \in BOOLEAN : FailDeadline(o, cleaned, t)
        PROVE  /\ DOMAIN operations' = DOMAIN operations /\ clock' = clock
               /\ UNCHANGED <<tombstones, reserved>>
    BY <1>3, <2>3 DEF FinishCompletionIntent, FailDeadline
  <2>4. CASE Purge(t)
    BY <2>4, PurgeKeepsScopes
  <2> QED
    BY <1>2, <1>6, <2>1, <2>2, <2>3, <2>4 DEF RunnerNext
<1>7. CASE UNCHANGED journalVars
  BY <1>2, <1>7 DEF journalVars
<1> QED
  BY <1>4, <1>5, <1>6, <1>7 DEF JournalNext

-----------------------------------------------------------------------------
\* The scope invariant holds in every state of the journal.
THEOREM ScopeInvariant == JournalSpec => []ScopeInv
<1>1. JournalInit => ScopeInv
  BY DEF JournalInit, ScopeInv, OneRecordPerScope, WindowInv
<1>2. JournalInv /\ ScopeInv /\ [JournalNext]_journalVars => ScopeInv'
  BY StepKeepsScopes
<1> QED
  BY <1>1, <1>2, JournalInvariant, PTL DEF JournalSpec

\* No write of the journal is ever stopped by its unique indexes or overlap
\* triggers: a scope has one record or tombstone, an id denotes one of them.
THEOREM ScopesStayUnique == JournalSpec => []OneRecordPerScope
BY ScopeInvariant, PTL DEF ScopeInv

\* Through every sequence of purges and submissions, with whatever stale
\* timestamps, a purged record's scope is not used again before its tombstone's
\* time is over.
THEOREM WindowIsKept == JournalSpec => IdempotencyWindow
<1>1. JournalInv /\ ScopeInv /\ [JournalNext]_journalVars =>
        [\A o \in DOMAIN operations' \ DOMAIN operations :
            reserved[Scope(operations'[o])] <= clock]_journalVars
  BY StepKeepsScopes
<1> QED
  BY <1>1, JournalInvariant, ScopeInvariant, PTL DEF JournalSpec, IdempotencyWindow

\* A terminal record is immutable and leaves the journal only after its
\* retention, whatever is called and with whatever timestamp.
THEOREM TerminalRecordsStay == JournalSpec => TerminalRecordsFrozen
<1>1. JournalInv /\ [JournalNext]_journalVars =>
        [\A o \in DOMAIN operations :
          \/ o \notin DOMAIN operations' /\ operations[o].retain <= clock
          \/ /\ o \in DOMAIN operations'
             /\ IsTerminal(operations[o]) => operations'[o] = operations[o]]_journalVars
  BY StepIsTableStep DEF TableStep, Keeps
<1> QED
  BY <1>1, JournalInvariant, PTL DEF JournalSpec, TerminalRecordsFrozen

\* A record keeps its identity and follows the documented state machine,
\* forwards in time and progress, in every transaction.
THEOREM HistoryIsLegal == JournalSpec => LegalHistory
<1>1. JournalInv /\ [JournalNext]_journalVars =>
        [\A o \in DOMAIN operations \cap DOMAIN operations' :
          LET r == operations[o]
              s == operations'[o]
          IN  /\ Scope(s) = Scope(r) /\ s.input = r.input
              /\ s.created = r.created /\ s.deadline = r.deadline
              /\ s.status \in Successors(r.status)
              /\ r.updated <= s.updated
              /\ r.done <= s.done
              /\ r.claimed # NoTime => s.claimed = r.claimed]_journalVars
  BY StepIsTableStep DEF TableStep, Keeps
<1> QED
  BY <1>1, JournalInvariant, PTL DEF JournalSpec, LegalHistory
=============================================================================
