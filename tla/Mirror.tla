------------------------------- MODULE Mirror -------------------------------
(***************************************************************************)
(* The Telegram mirror (scripts/mirror_v1.py, tribe_mirror_v1.py): a       *)
(* poller whose effect is a sequence of posts to an external chat that has *)
(* no idempotency key.                                                     *)
(*                                                                         *)
(* MirrorProgressStore keeps, beside the inbox, the first part of each     *)
(* rendering that Telegram has not confirmed.  Every database transaction  *)
(* and every exchange with Telegram or the hub is a step; a run may stall  *)
(* or die between any two, a post may succeed with its answer lost, and a  *)
(* deployment may change the rendering between two runs.                   *)
(***************************************************************************)
EXTENDS Polling

CONSTANTS
    Chunks,             \* envelope -> into how many chunks its text splits
    MaxMirrorParts,     \* MAX_MIRROR_PARTS
    Refused,            \* envelopes that decryption or the policy rejects
    MaxUpgrades         \* bound: how often the deployed rendering changes

ASSUME MirrorAssumption ==
    /\ Chunks \in [Envelope -> Nat \ {0}]
    /\ MaxMirrorParts \in Nat \ {0}
    /\ Refused \subseteq Envelope
    /\ MaxUpgrades \in Nat

VARIABLES
    workers,        \* the state of each mirror run
    progress,       \* mirror_part_progress: one row per key
    rendering,      \* the rendering the deployed code produces
    posts,          \* the chat: how often each part of each key was posted
    shown,          \* the chat: what each key was posted as, envelope and rendering
    doubts,         \* history: posts of each part whose fate a run never learned
    crashes, losses \* history: runs that died, exchanges that failed

mirrorVars == <<inbox, stalled, workers, progress, rendering, posts, shown, doubts, crashes, losses>>
everything == <<vars, mirrorVars>>

Part == 1..MaxMirrorParts

\* len(render_parts): a text of too many chunks becomes a single notice.
Parts(e) == IF Chunks[e] > MaxMirrorParts THEN 1 ELSE Chunks[e]

ProgressRow == [envelope : Envelope \cup {NoMessage}, rendering : Nat,
                next : 0..MaxMirrorParts]
NoProgress == [envelope |-> NoMessage, rendering |-> 0, next |-> 0]

\* next counts the parts this run knows to be confirmed.
Run == [pc : {"idle", "next", "resume", "send", "advance", "finish", "clear",
              "release", "ack"},
        now : Nat, rendering : Nat, batch : SUBSET ClaimItem,
        next : 0..MaxMirrorParts, outcome : Outcome \cup {""}]
Resting == [pc |-> "idle", now |-> 0, rendering |-> 0, batch |-> {}, next |-> 0,
            outcome |-> ""]

Head1(w) == FirstClaim(workers[w].batch)

\* The exception that leaves the endpoint's loop.
Abort(w) == workers' = [workers EXCEPT ![w] = Resting]

-----------------------------------------------------------------------------
(* main: claim, begin *)

Poll(w) ==
    /\ workers[w].pc = "idle"
    /\ ClaimBatch
    /\ workers' = [workers EXCEPT ![w] =
                     [Resting EXCEPT !.pc = "next", !.now = clock,
                                     !.rendering = rendering, !.batch = Granted]]
    /\ UNCHANGED <<inbox, progress, rendering, posts, shown, doubts, crashes, losses, stalled>>

\* store.begin and the branch on prior.
Begin(w) ==
    LET c     == Head1(w)
        prior == BeginAnswer(inbox[c.key], c.envelope, workers[w].now)
    IN  /\ workers[w].pc = "next" /\ workers[w].batch # {}
        /\ InboxBegin(c.key, c.envelope, workers[w].now)
        /\ \/ prior = "new" /\ workers' = [workers EXCEPT ![w].pc = "resume"]
           \/ prior = "conflict" /\ Abort(w)
           \/ prior = "processing" /\ workers' = [workers EXCEPT ![w].batch = @ \ {c}]
           \/ /\ prior \in {"processed", "terminal_failed"}
              /\ workers' = [workers EXCEPT ![w].pc = "ack", ![w].outcome = prior]
    /\ UNCHANGED <<vars, progress, rendering, posts, shown, doubts, crashes, losses, stalled>>

-----------------------------------------------------------------------------
(* deliver_rendered_parts *)

\* The run goes on with part next + 1, or is through.
Continue(w, next) ==
    workers' = [workers EXCEPT
        ![w].next = next,
        ![w].pc = IF next < Parts(Head1(w).envelope) THEN "send" ELSE "finish",
        ![w].outcome = IF next < Parts(Head1(w).envelope) THEN "" ELSE "processed"]

\* Mutant: a changed rendering is not noticed.
SameRendering_Envelope(w, row) == row.envelope = Head1(w).envelope

\* The persisted row is about exactly the parts this run has rendered.
SameRendering(w, row) ==
    row.envelope = Head1(w).envelope /\ row.rendering = workers[w].rendering

\* Mutant: a retry starts over.
ResumeAt_Start(row) == 0

\* A retry goes on behind the last part that was confirmed.
ResumeAt(row) == row.next

\* decrypt, render_parts and progress.resume.  A MirrorPolicyError or
\* ProtocolError, "retry rendering differs" included, is terminal.
Resume(w) ==
    LET c   == Head1(w)
        row == progress[c.key]
    IN  /\ workers[w].pc = "resume"
        /\ \/ /\ c.envelope \notin Refused /\ row = NoProgress
              /\ progress' = [progress EXCEPT ![c.key] =
                    [envelope |-> c.envelope, rendering |-> workers[w].rendering, next |-> 0]]
              /\ Continue(w, 0)
           \/ /\ c.envelope \notin Refused /\ row # NoProgress /\ SameRendering(w, row)
              /\ Continue(w, ResumeAt(row))
              /\ UNCHANGED progress
           \/ /\ \/ c.envelope \in Refused
                 \/ row # NoProgress /\ ~SameRendering(w, row)
              /\ workers' = [workers EXCEPT ![w].pc = "finish",
                                            ![w].outcome = "terminal_failed"]
              /\ UNCHANGED progress
    /\ UNCHANGED <<vars, inbox, rendering, posts, shown, doubts, crashes, losses, stalled>>

Posted(w) ==
    LET k == Head1(w).key
    IN  /\ posts' = [posts EXCEPT ![k][workers[w].next + 1] = @ + 1]
        /\ shown' = [shown EXCEPT ![k] = @ \cup {<<Head1(w).envelope, workers[w].rendering>>}]

Doubted(w) == doubts' = [doubts EXCEPT ![Head1(w).key][workers[w].next + 1] = @ + 1]

\* telegram.send_rendered: confirmed; or refused or unreachable; or posted
\* with the answer lost.  The last two raise the same RuntimeError.
Send(w) ==
    /\ workers[w].pc = "send"
    /\ \/ /\ Posted(w)
          /\ workers' = [workers EXCEPT ![w].pc = "advance"]
          /\ UNCHANGED <<doubts, losses>>
       \/ /\ losses < MaxLosses /\ losses' = losses + 1
          /\ workers' = [workers EXCEPT ![w].pc = "release"]
          /\ \/ UNCHANGED <<posts, shown, doubts>>
             \/ Posted(w) /\ Doubted(w)
    /\ UNCHANGED <<vars, inbox, progress, rendering, crashes, stalled>>

\* The UPDATE of advance finds its row: same rendering, cursor not moved.
CursorMatches(w) ==
    LET row == progress[Head1(w).key]
    IN  row # NoProgress /\ SameRendering(w, row) /\ row.next = workers[w].next

\* Mutant: advance skips a part.
Advance_Skips(w) ==
    /\ workers[w].pc = "advance"
    /\ CursorMatches(w)
    /\ progress' = [progress EXCEPT ![Head1(w).key].next = @ + 2]
    /\ Continue(w, workers[w].next + 2)
    /\ UNCHANGED <<vars, inbox, rendering, posts, shown, doubts, crashes, losses, stalled>>

\* progress.advance: the part is confirmed and durably so.
Advance(w) ==
    /\ workers[w].pc = "advance"
    /\ CursorMatches(w)
    /\ progress' = [progress EXCEPT ![Head1(w).key].next = @ + 1]
    /\ Continue(w, workers[w].next + 1)
    /\ UNCHANGED <<vars, inbox, rendering, posts, shown, doubts, crashes, losses, stalled>>

\* advance finds no row, or the sidecar database fails (locked, full):
\* mirror_progress_ambiguous.
AdvanceFailed(w) ==
    /\ workers[w].pc = "advance"
    /\ \/ ~CursorMatches(w) /\ UNCHANGED losses
       \/ losses < MaxLosses /\ losses' = losses + 1
    /\ Doubted(w)
    /\ workers' = [workers EXCEPT ![w].pc = "release"]
    /\ UNCHANGED <<vars, inbox, progress, rendering, posts, shown, crashes, stalled>>

-----------------------------------------------------------------------------
(* main: settle and acknowledge *)

\* store.finish.  A row that was released meanwhile raises ClientError.
Finish(w) ==
    LET k == Head1(w).key
    IN  /\ workers[w].pc = "finish"
        /\ \/ /\ InboxFinish(k, workers[w].outcome, workers[w].now)
              /\ workers' = [workers EXCEPT ![w].pc = "clear"]
           \/ inbox[k].state = "none" /\ Abort(w) /\ UNCHANGED inbox
    /\ UNCHANGED <<vars, progress, rendering, posts, shown, doubts, crashes, losses, stalled>>

\* progress.clear
Clear(w) ==
    /\ workers[w].pc = "clear"
    /\ progress' = [progress EXCEPT ![Head1(w).key] = NoProgress]
    /\ workers' = [workers EXCEPT ![w].pc = "ack"]
    /\ UNCHANGED <<vars, inbox, rendering, posts, shown, doubts, crashes, losses, stalled>>

\* Mutant: a failed part is reported as processed.
Release_Processed(w) ==
    /\ workers[w].pc = "release"
    /\ InboxRelease(Head1(w).key)
    /\ workers' = [workers EXCEPT ![w].pc = "ack", ![w].outcome = "processed"]
    /\ UNCHANGED <<vars, progress, rendering, posts, shown, doubts, crashes, losses, stalled>>

\* The MirrorDeliveryError handler: store.release, then a retryable ack.
Release(w) ==
    /\ workers[w].pc = "release"
    /\ InboxRelease(Head1(w).key)
    /\ workers' = [workers EXCEPT ![w].pc = "ack", ![w].outcome = "retryable_failed"]
    /\ UNCHANGED <<vars, progress, rendering, posts, shown, doubts, crashes, losses, stalled>>

Ack1(w) == MakeAck(Head1(w), workers[w].outcome, workers[w].now)

SendAck(w) ==
    /\ workers[w].pc = "ack"
    /\ clock < workers[w].now + AuthTtl
    /\ Acknowledge(Ack1(w), clock)
    /\ workers' = [workers EXCEPT ![w].pc = "next", ![w].outcome = "",
                                  ![w].next = 0, ![w].batch = @ \ {Head1(w)}]
    /\ UNCHANGED <<inbox, progress, rendering, posts, shown, doubts, crashes, losses, stalled>>

\* The hub refused the ack, or never saw it.
AckFailed(w) ==
    /\ workers[w].pc = "ack"
    /\ \/ losses < MaxLosses /\ losses' = losses + 1
       \/ AckRefused(Ack1(w), workers[w].now) /\ losses' = losses
    /\ Abort(w)
    /\ UNCHANGED <<vars, inbox, progress, rendering, posts, shown, doubts, crashes, stalled>>

Return(w) ==
    /\ workers[w].pc = "next" /\ workers[w].batch = {}
    /\ workers' = [workers EXCEPT ![w] = Resting]
    /\ UNCHANGED <<vars, inbox, progress, rendering, posts, shown, doubts, crashes, losses, stalled>>

-----------------------------------------------------------------------------
(* Environment *)

\* A run dies.  Between a post and its advance the part stays in doubt.
Crash(w) ==
    /\ workers[w].pc # "idle" /\ crashes < MaxCrashes
    /\ crashes' = crashes + 1
    /\ IF workers[w].pc = "advance" THEN Doubted(w) ELSE UNCHANGED doubts
    /\ workers' = [workers EXCEPT ![w] = Resting]
    /\ UNCHANGED <<vars, inbox, progress, rendering, posts, shown, losses, stalled>>

\* Another version of the code is deployed: later runs render differently.
Upgrade ==
    /\ rendering < MaxUpgrades
    /\ rendering' = rendering + 1
    /\ UNCHANGED <<vars, inbox, workers, progress, posts, shown, doubts, crashes, losses, stalled>>

TimePasses ==
    /\ \A w \in Worker : workers[w].pc # "idle" => clock < workers[w].now + MaxStall
    /\ Tick
    /\ stalled' = (stalled \/ \E w \in Worker : Late(workers[w]))
    /\ UNCHANGED <<inbox, workers, progress, rendering, posts, shown, doubts, crashes, losses>>

\* The hub admits a message, or its operator applies retention.
Hub == (EnqueueAny(clock) \/ MaintenanceAny(clock)) /\ UNCHANGED mirrorVars

MirrorInit ==
    /\ Init
    /\ inbox = [k \in Key |-> NoInboxRow]
    /\ workers = [w \in Worker |-> Resting]
    /\ progress = [k \in Key |-> NoProgress]
    /\ rendering = 0
    /\ posts = [k \in Key |-> [i \in Part |-> 0]]
    /\ shown = [k \in Key |-> {}]
    /\ doubts = [k \in Key |-> [i \in Part |-> 0]]
    /\ crashes = 0
    /\ losses = 0
    /\ stalled = FALSE

Steps(w) ==
    \/ Poll(w) \/ Begin(w) \/ Resume(w) \/ Send(w)
    \/ Advance(w) \/ AdvanceFailed(w)
    \/ Finish(w) \/ Clear(w) \/ Release(w)
    \/ SendAck(w) \/ AckFailed(w) \/ Return(w)

MirrorNext ==
    \/ TimePasses
    \/ Hub
    \/ Upgrade
    \/ \E w \in Worker : Steps(w)
    \/ \E w \in Worker : Crash(w)

MirrorSpec == MirrorInit /\ [][MirrorNext]_everything

-----------------------------------------------------------------------------
(* Properties *)

\* The progress table, the runs and the chat are well formed; in particular
\* no run ever addresses a part beyond the posting limit.
MirrorTypeOK ==
    /\ inbox \in [Key -> InboxRow]
    /\ workers \in [Worker -> Run]
    /\ progress \in [Key -> ProgressRow]
    /\ rendering \in Nat
    /\ posts \in [Key -> [Part -> Nat]]
    /\ shown \in [Key -> SUBSET (Envelope \X Nat)]
    /\ doubts \in [Key -> [Part -> Nat]]
    /\ crashes \in Nat /\ losses \in Nat /\ stalled \in BOOLEAN

\* The durable cursor never runs ahead of the chat, and the chat has no gaps:
\* every part below the cursor or below a posted part has been posted
\* ("advanced only after Telegram confirms a part"), over any retry, take-over
\* or crash.
CursorBehindChat ==
    \A k \in Key, i, j \in Part :
        i <= j /\ (j <= progress[k].next \/ posts[k][j] > 0) => posts[k][i] > 0

\* As long as no run stalls past the processing timeout, a confirmed part is
\* never posted again: every repetition of a part is paid for by one earlier
\* post of the same part whose fate was lost.
ConfirmedOnce ==
    ~stalled =>
        \A k \in Key, i \in Part : posts[k][i] <= 1 + doubts[k][i]

\* Every part of envelope e stands in the chat under key k, and nothing else
\* does; only after a stall may the chat show other bytes under the key.
StandsInChat(k, e) ==
    IF \E s \in shown[k] : s[1] # e
    THEN stalled
    ELSE \A i \in 1..Parts(e) : posts[k][i] > 0

\* The hub holds a delivery as acknowledged only when the whole message
\* stands in the chat, however many runs took part in posting it.  The one
\* exception: finish does not compare the envelope, so a run that stalled
\* until its message was purged and its key reused may settle the other bytes.
AcknowledgedIsWhole ==
    \A k \in Key :
        deliveries[<<k, Me>>].state = "acknowledged" => StandsInChat(k, messages[k])

\* As long as no run stalls past the processing timeout, the chat never shows
\* one message in two renderings or as two envelopes, even if the code is
\* upgraded between two retries or the hub purges the message and admits
\* other bytes under its key.
OneRendering ==
    ~stalled => \A k \in Key : Cardinality(shown[k]) <= 1
=============================================================================
