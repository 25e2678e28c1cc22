----------------------------- MODULE AuditChain -----------------------------
(***************************************************************************)
(* The audit log (backend/app/audit): per-stream hash chains that many     *)
(* transactions append to at once, the verification endpoint and the       *)
(* per-case export, which read them while they grow.                       *)
(*                                                                         *)
(* tip and log are the committed tables audit_streams and audit_events.    *)
(* newTip[w] and newLog[w] are what the transaction of writer w has        *)
(* written and not committed; a tip in newTip[w] is a row w has locked.    *)
(* At READ COMMITTED every statement sees what is committed when it starts *)
(* and what its own transaction wrote: each is a step of its own.          *)
(*                                                                         *)
(* UNIQUE (stream, seq) makes the events of a stream a function from seq.  *)
(* The hash of an event is the sequence of all the events it chains: SHA   *)
(* 256 without collisions.                                                 *)
(***************************************************************************)
EXTENDS Integers, FiniteSets, FiniteSetsExt, Sequences

CONSTANTS
    Stream,     \* audit streams: case:<id>, alert:<id>
    Writer,     \* database sessions that write audit events
    Changes,    \* what an event says (the hashed fields but seq and prev_hash)
    Exported,   \* the content of case.audit_exported
    NoStream,   \* not a stream
    Fragile,    \* bound: the streams whose rows may be damaged, each once
    MaxSeq      \* bound: events appended to a stream

ASSUME AuditChainAssumption ==
    /\ Exported \notin Changes
    /\ NoStream \notin Stream
    /\ Fragile \subseteq Stream
    /\ MaxSeq \in Nat

Body == Changes \cup {Exported}
Hash == Seq(Nat \X Body)
Genesis == <<>>

\* _event_hash.
EventHash(prev, seq, body) == Append(prev, <<seq, body>>)

Event == [prev: Hash, body: Body, hash: Hash]
NoRows == [k \in {} |-> Genesis]

Tip == [seq: Nat, hash: Hash]
NoTip == [seq |-> -1, hash |-> Genesis]
GenesisTip == [seq |-> 0, hash |-> Genesis]

VARIABLES
    tip,       \* [Stream -> Tip]: table audit_streams, NoTip for no row
    log,       \* [Stream -> Rows]: table audit_events, by seq
    wr,        \* the position of each writer in its transaction
    newTip,    \* newTip[w][s]: the tip w has locked, as w has written it
    newLog,    \* newLog[w][s]: the events w has inserted
    bundle,    \* the export each writer is building or has sent
    check,     \* the verification that is running or has last run
    damaged    \* history: the streams whose rows were changed from outside

vars == <<tip, log, wr, newTip, newLog, bundle, check, damaged>>

SeenTip(w, s) == IF newTip[w][s] = NoTip THEN tip[s] ELSE newTip[w][s]

Extend(rows, more) ==
    [k \in DOMAIN rows \cup DOMAIN more |-> IF k \in DOMAIN more THEN more[k] ELSE rows[k]]

-----------------------------------------------------------------------------
(* verify_stream and the anchor against the tip. *)

\* Mutant: an event is only compared with its own prev_hash.
NoExpectedPrev(rows, k) == rows[k].prev

\* Mutant: the expected hash is not advanced from event to event.
AlwaysGenesis(rows, k) == Genesis

\* The hash of the event before k in seq order.
ExpectedPrev(rows, k) ==
    LET before == {j \in DOMAIN rows : j < k}
    IN  IF before = {} THEN Genesis ELSE rows[Max(before)].hash

\* verify_stream: the seqs at which the chain is broken.
BrokenSeqs(rows) ==
    {k \in DOMAIN rows : \/ rows[k].prev # ExpectedPrev(rows, k)
                         \/ rows[k].hash # EventHash(rows[k].prev, k, rows[k].body)}

Anchored(t, rows) ==
    /\ rows[Max(DOMAIN rows)].hash = t.hash
    /\ Cardinality(DOMAIN rows) = t.seq

\* What audit:verify accepts of a stream with a tip.
Verified(t, rows) ==
    IF DOMAIN rows = {} THEN t = GenesisTip
    ELSE BrokenSeqs(rows) = {} /\ Anchored(t, rows)

\* chain_verified of an export: anchored only when there is an event and a tip.
ChainVerified(t, rows) ==
    /\ BrokenSeqs(rows) = {}
    /\ DOMAIN rows # {} /\ t # NoTip => Anchored(t, rows)

-----------------------------------------------------------------------------
NoBundle == [pc |-> "none", stream |-> NoStream, rows |-> NoRows, verified |-> FALSE,
             suspect |-> FALSE]

Init ==
    /\ tip = [s \in Stream |-> NoTip]
    /\ log = [s \in Stream |-> NoRows]
    /\ wr = [w \in Writer |-> [pc |-> "idle", stream |-> NoStream]]
    /\ newTip = [w \in Writer |-> [s \in Stream |-> NoTip]]
    /\ newLog = [w \in Writer |-> [s \in Stream |-> NoRows]]
    /\ bundle = [w \in Writer |-> NoBundle]
    /\ check = [pc |-> "idle", tips |-> [s \in Stream |-> NoTip], todo |-> {},
                broken |-> {}, suspects |-> {}]
    /\ damaged = {}

-----------------------------------------------------------------------------
(* record_audit, inside the transaction of the change it describes.  A     *)
(* transaction may record several events, in one stream or in several.     *)

\* Mutant: the tip is read without FOR UPDATE.
TipReadable(w, s) == TRUE

\* No other transaction has inserted or locked the tip of s.
TipFree(w, s) == \A u \in Writer \ {w} : newTip[u][s] = NoTip

\* INSERT the genesis tip ON CONFLICT DO NOTHING: it waits for an insert that
\* another transaction has not committed.
EnsureStream(w, s) ==
    /\ wr[w].pc \in {"idle", "open"}
    /\ bundle[w].pc = "built" => s = bundle[w].stream /\ newLog[w][s] = NoRows
    /\ SeenTip(w, s).seq < MaxSeq
    /\ IF SeenTip(w, s) = NoTip
       THEN TipFree(w, s) /\ newTip' = [newTip EXCEPT ![w][s] = GenesisTip]
       ELSE UNCHANGED newTip
    /\ bundle' = [bundle EXCEPT ![w] = IF wr[w].pc = "idle" THEN NoBundle ELSE @]
    /\ wr' = [wr EXCEPT ![w] = [pc |-> "lock", stream |-> s]]
    /\ UNCHANGED <<tip, log, newLog, check, damaged>>

\* SELECT the tip FOR UPDATE: waits for the transaction that holds it, then reads
\* what that has committed.  scalar_one raises when there is no row.
LockTip(w) ==
    LET s == wr[w].stream
    IN  /\ wr[w].pc = "lock"
        /\ SeenTip(w, s) # NoTip
        /\ TipFree(w, s)
        /\ newTip' = [newTip EXCEPT ![w][s] = SeenTip(w, s)]
        /\ wr' = [wr EXCEPT ![w].pc = "append"]
        /\ UNCHANGED <<tip, log, newLog, bundle, check, damaged>>

\* Mutant: last_hash is left behind.
NextTipSameHash(t, hash) == [seq |-> t.seq + 1, hash |-> t.hash]

NextTip(t, hash) == [seq |-> t.seq + 1, hash |-> hash]

\* UNIQUE (stream, seq): a duplicate raises, and the transaction rolls back.
SeqUnused(w, s, k) ==
    k \notin DOMAIN log[s] /\ \A u \in Writer : k \notin DOMAIN newLog[u][s]

\* The flush: INSERT the event, UPDATE the tip.
AppendEvent(w, body) ==
    LET s == wr[w].stream
        t == newTip[w][s]
        hash == EventHash(t.hash, t.seq + 1, body)
        event == [prev |-> t.hash, body |-> body, hash |-> hash]
    IN  /\ wr[w].pc = "append" /\ t.seq < MaxSeq
        /\ body = Exported <=> bundle[w].pc = "built"
        /\ SeqUnused(w, s, t.seq + 1)
        /\ newLog' = [newLog EXCEPT ![w][s] = Extend(@, [k \in {t.seq + 1} |-> event])]
        /\ newTip' = [newTip EXCEPT ![w][s] = NextTip(t, hash)]
        /\ wr' = [wr EXCEPT ![w].pc = "open"]
        /\ UNCHANGED <<tip, log, bundle, check, damaged>>

Released(w) ==
    /\ newTip' = [newTip EXCEPT ![w] = [s \in Stream |-> NoTip]]
    /\ newLog' = [newLog EXCEPT ![w] = [s \in Stream |-> NoRows]]
    /\ wr' = [wr EXCEPT ![w] = [pc |-> "idle", stream |-> NoStream]]

\* The commit of the change and of its events; an export is sent after it.
Commit(w) ==
    /\ wr[w].pc = "open"
    /\ \E s \in Stream : newLog[w][s] # NoRows
    /\ tip' = [s \in Stream |-> SeenTip(w, s)]
    /\ log' = [s \in Stream |-> Extend(log[s], newLog[w][s])]
    /\ bundle' = [bundle EXCEPT ![w].pc = IF @ = "built" THEN "sent" ELSE @]
    /\ Released(w)
    /\ UNCHANGED <<check, damaged>>

\* Mutant: the bundle is returned although its event was not committed.
SentAnyway(b) == IF b.pc = "built" THEN [b EXCEPT !.pc = "sent"] ELSE b

\* The bundle of a request that fails is never sent.
Dropped(b) == NoBundle

\* An exception, a lost connection, a deadlock victim.
Rollback(w) ==
    /\ wr[w].pc # "idle"
    /\ bundle' = [bundle EXCEPT ![w] = Dropped(@)]
    /\ Released(w)
    /\ UNCHANGED <<tip, log, check, damaged>>

-----------------------------------------------------------------------------
(* export_case_audit: reads, then an event of its own. *)

\* SELECT the events of the stream of an existing case.
ExportEvents(w, s) ==
    /\ wr[w].pc = "idle"
    /\ log[s] # NoRows \/ s \in damaged
    /\ bundle' = [bundle EXCEPT ![w] = [pc |-> "events", stream |-> s, rows |-> log[s],
                                        verified |-> FALSE, suspect |-> s \in damaged]]
    /\ wr' = [wr EXCEPT ![w].pc = "anchor"]
    /\ UNCHANGED <<tip, log, newTip, newLog, check, damaged>>

\* SELECT the tip, later, and compare.
ExportAnchor(w) ==
    LET b == bundle[w]
    IN  /\ wr[w].pc = "anchor"
        /\ bundle' = [bundle EXCEPT ![w].pc = "built",
                                    ![w].verified = ChainVerified(tip[b.stream], b.rows)]
        /\ wr' = [wr EXCEPT ![w].pc = "open"]
        /\ UNCHANGED <<tip, log, newTip, newLog, check, damaged>>

-----------------------------------------------------------------------------
(* verify_audit: one statement for the tips, one per stream, one for orphans. *)

VerifyTips ==
    /\ check.pc \in {"idle", "done"}
    /\ check' = [pc |-> "streams", tips |-> tip, todo |-> {s \in Stream : tip[s] # NoTip},
                 broken |-> {}, suspects |-> damaged]
    /\ UNCHANGED <<tip, log, wr, newTip, newLog, bundle, damaged>>

VerifyEvents(s) ==
    /\ check.pc = "streams" /\ s \in check.todo
    /\ check' = [check EXCEPT !.todo = @ \ {s},
                              !.broken = IF Verified(check.tips[s], log[s]) THEN @
                                         ELSE @ \cup {s}]
    /\ UNCHANGED <<tip, log, wr, newTip, newLog, bundle, damaged>>

\* Events under a stream that had no tip when the tips were read.
Orphans(tips) == {s \in Stream : log[s] # NoRows /\ tips[s] = NoTip}

VerifyOrphans ==
    /\ check.pc = "streams" /\ check.todo = {}
    /\ check' = [check EXCEPT !.pc = "done", !.broken = @ \cup Orphans(check.tips)]
    /\ UNCHANGED <<tip, log, wr, newTip, newLog, bundle, damaged>>

-----------------------------------------------------------------------------
(* What verification is for: rows changed from outside the application (a   *)
(* manual fix, a partial restore).  The application itself has no UPDATE or *)
(* DELETE on audit_events and no DELETE on audit_streams.                   *)

Damage(s) ==
    /\ s \in Fragile \ damaged
    /\ log[s] # NoRows
    /\ damaged' = damaged \cup {s}
    /\ UNCHANGED <<wr, newTip, newLog, bundle, check>>

EditEvent(s, k, body) ==
    /\ Damage(s)
    /\ k \in DOMAIN log[s] /\ body # log[s][k].body
    /\ log' = [log EXCEPT ![s][k].body = body]
    /\ UNCHANGED tip

LoseEvents(s, lost) ==
    /\ Damage(s)
    /\ lost \subseteq DOMAIN log[s] /\ lost # {}
    /\ log' = [log EXCEPT ![s] = [k \in DOMAIN log[s] \ lost |-> log[s][k]]]
    /\ UNCHANGED tip

\* A tip row is locked while a writer holds it.
ChangeTip(s, t) ==
    /\ Damage(s)
    /\ \A w \in Writer : newTip[w][s] = NoTip
    /\ t # tip[s]
    /\ tip' = [tip EXCEPT ![s] = t]
    /\ UNCHANGED log

-----------------------------------------------------------------------------
Writes(w) ==
    \/ \E s \in Stream : EnsureStream(w, s) \/ ExportEvents(w, s)
    \/ LockTip(w)
    \/ \E body \in Body : AppendEvent(w, body)
    \/ Commit(w)
    \/ Rollback(w)
    \/ ExportAnchor(w)

Verifies == VerifyTips \/ VerifyOrphans \/ \E s \in Stream : VerifyEvents(s)

Damages(s) ==
    \/ \E k \in DOMAIN log[s], body \in Body : EditEvent(s, k, body)
    \/ \E lost \in SUBSET DOMAIN log[s] : LoseEvents(s, lost)
    \/ \E seq \in 0..MaxSeq, hash \in {Genesis, tip[s].hash} :
           ChangeTip(s, [seq |-> seq, hash |-> hash])
    \/ ChangeTip(s, NoTip)

Next ==
    \/ \E w \in Writer : Writes(w)
    \/ Verifies
    \/ \E s \in Stream : Damages(s)

Spec == Init /\ [][Next]_vars

-----------------------------------------------------------------------------
(* Properties. *)

EventRows(rows) == DOMAIN rows \subseteq Nat /\ \A k \in DOMAIN rows : rows[k] \in Event

\* Every variable keeps its type.
TypeOK ==
    /\ tip \in [Stream -> Tip \cup {NoTip}]
    /\ \A s \in Stream : EventRows(log[s])
    /\ wr \in [Writer -> [pc: {"idle", "open", "lock", "append", "anchor"},
                          stream: Stream \cup {NoStream}]]
    /\ newTip \in [Writer -> [Stream -> Tip \cup {NoTip}]]
    /\ \A w \in Writer, s \in Stream : EventRows(newLog[w][s])
    /\ \A w \in Writer : /\ bundle[w].pc \in {"none", "events", "built", "sent"}
                         /\ bundle[w].stream \in Stream \cup {NoStream}
                         /\ EventRows(bundle[w].rows)
    /\ check \in [pc: {"idle", "streams", "done"}, tips: [Stream -> Tip \cup {NoTip}],
                  todo: SUBSET Stream, broken: SUBSET Stream, suspects: SUBSET Stream]
    /\ damaged \in SUBSET Fragile

\* Whatever transactions interleave, fail or retry, the committed rows of a stream
\* nobody damaged are a chain that verifies and agrees with its tip: an event never
\* commits without its tip, nor a tip without its event.
ChainsVerify ==
    \A s \in Stream \ damaged :
        IF tip[s] = NoTip THEN log[s] = NoRows ELSE log[s] # NoRows /\ Verified(tip[s], log[s])

\* Two writers never pick the same seq: an append that holds the tip is never refused
\* by UNIQUE (stream, seq) (audit/service.py: without the genesis row and its lock
\* "two writers both pick seq 1").
SeqsDoNotCollide ==
    \A w \in Writer :
        LET s == wr[w].stream
        IN  wr[w].pc = "append" /\ s \notin damaged => SeqUnused(w, s, newTip[w][s].seq + 1)

\* A stream damaged before a verification or an export of it starts is reported by it,
\* whatever is appended, before or during it, after the damage.  An export of a stream
\* that has no event left reports nothing: its anchor is behind an "if events".
DamageReported ==
    /\ check.pc = "done" => check.suspects \subseteq check.broken
    /\ \A w \in Writer :
           bundle[w].pc = "sent" /\ bundle[w].suspect /\ DOMAIN bundle[w].rows # {} =>
               ~bundle[w].verified

\* Verification and the export can be wrong only about a stream that was appended to
\* while they read it: the tip has moved since, or, for an export, an event other than
\* its own is not in the bundle.
FalseAlarmsAreAppends ==
    /\ check.pc = "done" =>
           \A s \in check.broken \ damaged : tip[s] # check.tips[s]
    /\ \A w \in Writer :
           LET b == bundle[w]
           IN  b.pc = "sent" /\ ~b.verified /\ b.stream \notin damaged =>
                   Cardinality(DOMAIN log[b.stream] \ DOMAIN b.rows) > 1

\* A bundle that was sent has its case.audit_exported event, later than every event in
\* the bundle: no export leaves without a trace.
ExportsAreAudited ==
    \A w \in Writer :
        LET b == bundle[w]
        IN  b.pc = "sent" /\ b.stream \notin damaged =>
                \E k \in DOMAIN log[b.stream] :
                    /\ log[b.stream][k].body = Exported
                    /\ \A j \in DOMAIN b.rows : j < k

=============================================================================
