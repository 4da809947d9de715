----------------------------- MODULE EventStore -----------------------------
(***************************************************************************)
(* The audit log (event_store) on top of the retrieval commands: a run     *)
(* gathers what the corpus, the return panel, the feature batch and the    *)
(* vector memory told it, and appends one event for each in a single       *)
(* transaction.  The id of an event is a hash of what it says, so events   *)
(* that say the same are one row: INSERT ... ON CONFLICT DO NOTHING skips  *)
(* an event that is there, and waits while another transaction holds one   *)
(* it has not committed.                                                   *)
(*                                                                         *)
(* This module is also where the commands of Retrieval run side by side.   *)
(***************************************************************************)
EXTENDS Retrieval

CONSTANTS
    Aligned,     \* the candle the panel and the batch are aligned with
    MaxAudits    \* bound: runs are started until so many differ in their log

ASSUME AlignedAssumption == Aligned \in Window /\ Kind[Aligned] = "kline"
ASSUME AuditsAssumption  == MaxAudits \in Nat

VARIABLES
    events,      \* the rows of event_store.agent_events
    pending,     \* the rows each process has inserted and not committed
    drafted,     \* how many of its drafts it has gone through
    facts,       \* what it has gathered for them
    appended     \* history: the drafts of the transactions that committed

audit == <<events, pending, drafted, facts, appended>>
vars == <<retrieval, audit>>

EventTypes == {"corpus", "panel", "batch", "memory"}

Event == [type : EventTypes, fact : Nat, results : SUBSET Answer]

NoFacts == [fetched |-> 0, panel |-> 0, item |-> 0]

TypeOK ==
    /\ RetrievalTypeOK
    /\ events \subseteq Event
    /\ pending \in [Runs -> SUBSET Event]
    /\ drafted \in [Runs -> 0..4]
    /\ facts \in [Runs -> [fetched : Nat, panel : Nat, item : Nat]]
    /\ \A written \in appended : written \subseteq Event

-----------------------------------------------------------------------------
\* bnb_swap_corpus_payload counts the blocks fetched for this run,
\* olap_event_payload and feature_batch_item_payload tell the candle,
\* vector_result_payload the titles and previews.
Corpus(r) == [type |-> "corpus", fact |-> facts[r].fetched, results |-> {}]
Panel(r)  == [type |-> "panel",  fact |-> facts[r].panel,   results |-> {}]
Item(r)   == [type |-> "batch",  fact |-> facts[r].item,    results |-> {}]
Memory(r) == [type |-> "memory", fact |-> 0,                results |-> answer[r]]

\* Faulty drafts: they come in the order their results arrived.
DraftsAsArrived(r) ==
    IF facts[r].fetched > 0 THEN <<Corpus(r), Panel(r), Item(r), Memory(r)>>
                            ELSE <<Memory(r), Item(r), Panel(r), Corpus(r)>>

\* Faulty drafts: the retrieval is told of the symbol as well.
DraftsOfBothSubjects(r) == <<Corpus(r), Panel(r), Item(r), Memory(r), Memory(r)>>

\* build_event_drafts
Drafts(r) == <<Corpus(r), Panel(r), Item(r), Memory(r)>>

Rest(r) == drafted' = [drafted EXCEPT ![r] = 0] /\ facts' = [facts EXCEPT ![r] = NoFacts]

Begin(r, c) ==
    /\ c = "events" => Cardinality(appended) < MaxAudits
    /\ Start(r, c)
    /\ UNCHANGED audit

\* The run reports the blocks whose timestamps its first corpus run had to
\* fetch: those of the swaps nobody had stored before.
Gather(r) ==
    /\ Fetch(r)
    /\ facts' = IF command[r] = "events" /\ at[r] = 1
                THEN [facts EXCEPT ![r].fetched =
                        Cardinality({k \in Fetched("fetch") : Kind[k] = "swap" /\ source[k] = 0})]
                ELSE facts
    /\ UNCHANGED <<events, pending, drafted, appended>>

\* run_olap_return_panel_smoke and run_feature_batch_smoke, once the swaps and
\* candles are there (FeaturePipeline has their steps).
Note(r) ==
    /\ Stage(r) \in {"panel", "batch"}
    /\ facts' = IF Stage(r) = "panel" THEN [facts EXCEPT ![r].panel = source[Aligned]]
                                      ELSE [facts EXCEPT ![r].item = source[Aligned]]
    /\ Advance(r)
    /\ UNCHANGED <<rows, batch, answer, events, pending, drafted, appended>>

Project(r) == (Take(r) \/ Put(r) \/ Ask(r)) /\ UNCHANGED audit

Drafting(r) == Stage(r) = "append" /\ answer[r] # {} /\ drafted[r] < Len(Drafts(r))

\* Its next draft waits for a transaction of q.
Waits(r, q) == Drafting(r) /\ q # r /\ Drafts(r)[drafted[r] + 1] \in pending[q]

\* Faulty insert: what another has inserted is skipped at once.
InsertSkipping(r) ==
    /\ Drafting(r)
    /\ LET next == Drafts(r)[drafted[r] + 1]
       IN  pending' = IF next \in events \/ \E q \in Runs \ {r} : next \in pending[q] THEN pending
                      ELSE [pending EXCEPT ![r] = @ \cup {next}]
    /\ drafted' = [drafted EXCEPT ![r] = @ + 1]
    /\ UNCHANGED <<retrieval, events, facts, appended>>

\* INSERT_AGENT_EVENT_SQL for one draft of append_events
Insert(r) ==
    /\ Drafting(r)
    /\ \A q \in Runs : ~Waits(r, q)
    /\ LET next == Drafts(r)[drafted[r] + 1]
       IN  pending' = IF next \in events THEN pending
                      ELSE [pending EXCEPT ![r] = @ \cup {next}]
    /\ drafted' = [drafted EXCEPT ![r] = @ + 1]
    /\ UNCHANGED <<retrieval, events, facts, appended>>

\* The end of append_events.
Commit(r) ==
    /\ Stage(r) = "append"
    /\ drafted[r] = Len(Drafts(r))
    /\ events' = events \cup pending[r]
    /\ pending' = [pending EXCEPT ![r] = {}]
    /\ appended' = appended \cup {{Drafts(r)[i] : i \in DOMAIN Drafts(r)}}
    /\ Advance(r)
    /\ UNCHANGED <<rows, batch, answer, drafted, facts>>

\* load_subject_events, count_payload_matches and the plans, which only read,
\* are the last thing before the end.
End(r) == Finish(r) /\ Rest(r) /\ UNCHANGED <<events, pending, appended>>

\* The error or the end of the process rolls its transaction back.
Fail(r) ==
    /\ Stop(r)
    /\ Rest(r)
    /\ pending' = [pending EXCEPT ![r] = {}]
    /\ UNCHANGED <<events, appended>>

Ingest(k) == Change(k) /\ UNCHANGED audit

Init ==
    /\ RetrievalInit
    /\ events = {}
    /\ pending = [r \in Runs |-> {}]
    /\ drafted = [r \in Runs |-> 0]
    /\ facts = [r \in Runs |-> NoFacts]
    /\ appended = {}

Run(r) == Gather(r) \/ Note(r) \/ Project(r) \/ Insert(r) \/ Commit(r) \/ End(r)

Next ==
    \/ \E r \in Runs : Run(r) \/ Fail(r) \/ \E c \in Commands : Begin(r, c)
    \/ \E k \in Keys : Ingest(k)

Spec == Init /\ [][Next]_vars

-----------------------------------------------------------------------------
(* What must hold.                                                         *)

Stages(c) == {Program[c][i] : i \in DOMAIN Program[c]}

DocumentsOf == [kline |-> "klineDocs", swap |-> "swapDocs", log |-> "logDocs"]

\* The rows command c derives anew whatever else there is: its LIMITs reach them.
Renewed == [c \in Commands |-> {k \in Keys :
    /\ DocumentsOf[Kind[k]] \in Stages(c)
    /\ \A s \in Stages(c) \cap Limited :
          Kind[k] \in Projection[s].kinds =>
              Cardinality({l \in Keys : Kind[l] \in Projection[s].kinds /\ Ahead(l, k)}) < Limit[c][s]}]

\* The step that copies all the documents on, on the way to what s writes.
Whole(s) == IF s \in {"search", "chunks", "model"} THEN {"search"} ELSE {s} \ Limited

\* The rows renewed by every command with such a step.
Kept == [s \in Projections |-> {k \in Keys :
    \A c \in Commands : Stages(c) \cap Whole(s) # {} => k \in Renewed[c]}]

\* What a command has derived or answered is no older than the sources were when
\* the database was last left alone, however the commands overlap that have
\* begun since: what one overwrites with an older row was read since, too.  When
\* the sources have not changed since, the tables tell them exactly.  So it is
\* for the rows the LIMITs of all of them reach; a command with a smaller LIMIT
\* copies an old document on and puts the row of another one back.
NoStalerThanQuiet ==
    \A r \in Runs : Active(r) =>
        /\ \A i \in 1..(at[r] - 1) :
              LET s == Program[command[r]][i]
              IN  s \in Projections =>
                    \A k \in Renewed[command[r]] \cap Kept[s] :
                        Kind[k] \in Projection[s].kinds => table[Projection[s].into][k] >= floor[k]
        /\ \A a \in answer[r] : a.key \in Renewed[command[r]] \cap Kept["chunks"] =>
              a.title >= floor[a.key] /\ a.preview >= floor[a.key]

\* The log holds the four events of every run whose append_events committed and
\* no others, although a run leaves out those another run has inserted.
AuditIsWhole == events = UNION appended

\* Runs that append the same events never wait in a circle, however many they are:
\* among any of them one waits for none of the others.
NoWaitCircle ==
    \A S \in (SUBSET Runs) \ {{}} : \E r \in S : \A q \in S : ~Waits(r, q)
=============================================================================
