------------------------------ MODULE Notifier ------------------------------
(***************************************************************************)
(* Discord notifications (notify/notifier.go): ProcessBlock starts one     *)
(* NotifyBlock goroutine per live block, which checks whether an hour or a *)
(* day has ended and puts messages on a bounded channel without waiting;   *)
(* one sender goroutine posts them, retrying while it is rate limited, and *)
(* ends when ctx is canceled or Stop tells it to drain the channel.        *)
(*                                                                         *)
(* A block is its height, which gives its hour and its day; a message is   *)
(* its type and the height or period it is about.  The two trackers are    *)
(* read and written by all NotifyBlock goroutines without a lock; of the   *)
(* fields of the time they hold only one word differs between two values,  *)
(* so a race yields the old value or the new one.                          *)
(***************************************************************************)
EXTENDS Integers, Sequences, FiniteSets

CONSTANTS
  Blocks,           \* heights processed as live
  QuietBlocks,      \* of these, the ones without timestamp and without embeds
  SlashBlocks,      \* and the ones with a slash, posted to two webhooks
  BlocksPerHour, HoursPerDay,
  Summaries,        \* the summaries configured, of "hour" and "day"
  ChannelSize,      \* channelBufferSize
  MaxRetries,       \* maxRetries
  MaxConcurrent,    \* how many NotifyBlock goroutines may be running at once
  CatchUp           \* TRUE if gap recovery processes older blocks as live

ASSUME NotifierAssumption ==
  /\ Blocks \subseteq Nat \ {0} /\ QuietBlocks \subseteq Blocks /\ SlashBlocks \subseteq Blocks
  /\ QuietBlocks \cap SlashBlocks = {}
  /\ BlocksPerHour \in Nat \ {0} /\ HoursPerDay \in Nat \ {0}
  /\ Summaries \subseteq {"hour", "day"}
  /\ ChannelSize \in Nat \ {0} /\ MaxRetries \in Nat /\ MaxConcurrent \in Nat \ {0}
  /\ CatchUp \in BOOLEAN

VARIABLES
  ch,               \* Notifier.ch
  last,             \* lastHourlySummary and lastDailySummary, 0 for the zero time
  jobs,             \* the NotifyBlock goroutine of each height
  canceled,         \* ctx.Done()
  done,             \* Stop has closed Notifier.done
  sender,           \* the sender goroutine: "select", "posting", "retrying", "returned"
  draining,         \* it is in drain()
  expired,          \* the context of drain() has expired
  msg,              \* the message it is sending, as a sequence of at most one
  attempt,          \* of sendWithRetry
  accepted,         \* history: messages put on the channel
  resolved,         \* history: messages sent or given up
  sentTotal, errorTotal,    \* psm_discord_notifications_total and ..._errors_total
  dropped,          \* history: number of messages a full channel refused
  summarized,       \* history: periods summarized, in order
  early,            \* history: periods summarized before their last block
  unread            \* history: periods whose summary could not be read

jobVars == <<last, jobs, summarized, early, unread>>
sendVars == <<sender, draining, msg, attempt, resolved>>
vars == <<ch, jobVars, canceled, done, expired, sendVars, accepted, sentTotal, errorTotal,
          dropped>>

Kinds == {"hour", "day"}
Hour(h) == h \div BlocksPerHour + 1
Day(h) == h \div (BlocksPerHour * HoursPerDay) + 1
Period(kind, h) == IF kind = "hour" THEN Hour(h) ELSE Day(h)

Message(type, of) == [type |-> type, of |-> of]

\* the messages NotifyBlock builds for the block itself
BlockMessages(h) ==
  CASE h \in QuietBlocks -> <<>>
    [] h \in SlashBlocks -> <<Message("block", h), Message("slash_critical", h)>>
    [] OTHER -> <<Message("block", h)>>

Active(h) == jobs[h].pc \in {"hour", "day", "enqueue"}
Processed == {h \in Blocks : jobs[h].pc # "idle"}

-----------------------------------------------------------------------------
Init ==
  /\ ch = <<>> /\ last = [k \in Kinds |-> 0]
  /\ jobs = [h \in Blocks |-> [pc |-> "idle", asking |-> 0, todo |-> <<>>]]
  /\ canceled = FALSE /\ done = FALSE /\ expired = FALSE
  /\ sender = "select" /\ draining = FALSE /\ msg = <<>> /\ attempt = 0
  /\ accepted = <<>> /\ resolved = <<>> /\ sentTotal = 0 /\ errorTotal = 0 /\ dropped = 0
  /\ summarized = [k \in Kinds |-> <<>>] /\ early = {} /\ unread = {}

(* NotifyBlock.                                                            *)

\* ProcessBlock has stored and reported a live block and starts the goroutine; the
\* collector goes up the chain, gap recovery may come later with an older block.
Process(h) ==
  /\ jobs[h].pc = "idle" /\ (done => sender # "returned")
  /\ Cardinality({g \in Blocks : Active(g)}) < MaxConcurrent
  /\ CatchUp \/ \A g \in Blocks : g < h => g \in Processed
  /\ jobs' = [jobs EXCEPT ![h].pc = IF h \in QuietBlocks THEN "enqueue" ELSE "hour",
                          ![h].todo = BlockMessages(h)]
  /\ UNCHANGED <<ch, last, summarized, early, unread, canceled, done, expired, sendVars,
                 accepted, sentTotal, errorTotal, dropped>>

\* enqueue: the message is put on the channel, or dropped if the channel is full
PutUnbounded(m) ==                      \* mutant: no bound
  ch' = Append(ch, m) /\ accepted' = Append(accepted, m) /\ UNCHANGED <<errorTotal, dropped>>
Put(m) ==
  \/ /\ Len(ch) < ChannelSize
     /\ ch' = Append(ch, m) /\ accepted' = Append(accepted, m)
     /\ UNCHANGED <<errorTotal, dropped>>
  \/ /\ Len(ch) = ChannelSize
     /\ dropped' = dropped + 1 /\ errorTotal' = errorTotal + 1
     /\ UNCHANGED <<ch, accepted>>

\* the goroutine of h is through with the boundary check of a kind
Advanced(h, kind) ==
  [jobs EXCEPT ![h].pc = IF kind = "hour" THEN "day" ELSE "enqueue", ![h].asking = 0]

\* checkSummaryBoundary: the first block only sets the tracker, a block of the same
\* period leaves it, another one asks for the summary of the period before
CheckBoundary(h, kind) ==
  LET own == Period(kind, h)
      asks == last[kind] \notin {0, own} /\ kind \in Summaries
  IN  /\ jobs[h].pc = kind /\ jobs[h].asking = 0
      /\ jobs' = IF asks THEN [jobs EXCEPT ![h].asking = last[kind]] ELSE Advanced(h, kind)
      /\ last' = IF asks THEN last ELSE [last EXCEPT ![kind] = own]
      /\ UNCHANGED <<ch, summarized, early, unread, canceled, done, expired, sendVars,
                     accepted, sentTotal, errorTotal, dropped>>

\* the blocks of a period that are still to come
Missing(kind, p) == {h \in Blocks \ (QuietBlocks \cup Processed) : Period(kind, h) = p}

\* the summary was read: queue it and move the tracker
SummarizeStays(h, kind) ==              \* mutant: the tracker is not moved
  /\ jobs[h].pc = kind /\ jobs[h].asking # 0
  /\ Put(Message(kind, jobs[h].asking))
  /\ summarized' = [summarized EXCEPT ![kind] = Append(@, jobs[h].asking)]
  /\ early' = early \cup ({jobs[h].asking} \X Missing(kind, jobs[h].asking))
  /\ jobs' = Advanced(h, kind)
  /\ UNCHANGED <<last, unread, canceled, done, expired, sendVars, sentTotal>>
Summarize(h, kind) ==
  /\ jobs[h].pc = kind /\ jobs[h].asking # 0
  /\ Put(Message(kind, jobs[h].asking))
  /\ summarized' = [summarized EXCEPT ![kind] = Append(@, jobs[h].asking)]
  /\ early' = early \cup ({jobs[h].asking} \X Missing(kind, jobs[h].asking))
  /\ last' = [last EXCEPT ![kind] = Period(kind, h)]
  /\ jobs' = Advanced(h, kind)
  /\ UNCHANGED <<unread, canceled, done, expired, sendVars, sentTotal>>

\* it could not be read: no summary, and the tracker moves all the same
SummaryUnread(h, kind) ==
  /\ jobs[h].pc = kind /\ jobs[h].asking # 0
  /\ unread' = unread \cup {<<kind, jobs[h].asking>>}
  /\ last' = [last EXCEPT ![kind] = Period(kind, h)]
  /\ jobs' = Advanced(h, kind)
  /\ UNCHANGED <<ch, summarized, early, canceled, done, expired, sendVars, accepted,
                 sentTotal, errorTotal, dropped>>

\* the embeds of the block, one after the other
EnqueueBlock(h) ==
  /\ jobs[h].pc = "enqueue" /\ jobs[h].todo # <<>>
  /\ Put(Head(jobs[h].todo))
  /\ jobs' = [jobs EXCEPT ![h].todo = Tail(@)]
  /\ UNCHANGED <<last, summarized, early, unread, canceled, done, expired, sendVars, sentTotal>>

NotifyReturns(h) ==
  /\ jobs[h].pc = "enqueue" /\ jobs[h].todo = <<>>
  /\ jobs' = [jobs EXCEPT ![h].pc = "done"]
  /\ UNCHANGED <<ch, last, summarized, early, unread, canceled, done, expired, sendVars,
                 accepted, sentTotal, errorTotal, dropped>>

-----------------------------------------------------------------------------
(* The monitor: the context is canceled, and Stop called once the errgroup *)
(* has ended, which is always after the cancellation.                      *)

Cancel ==
  /\ ~canceled /\ canceled' = TRUE
  /\ UNCHANGED <<ch, jobVars, done, expired, sendVars, accepted, sentTotal, errorTotal, dropped>>

Stop ==
  /\ canceled /\ ~done /\ done' = TRUE
  /\ UNCHANGED <<ch, jobVars, canceled, expired, sendVars, accepted, sentTotal, errorTotal,
                 dropped>>

\* drainTimeout
DrainExpires ==
  /\ draining /\ ~expired /\ expired' = TRUE
  /\ UNCHANGED <<ch, jobVars, canceled, done, sendVars, accepted, sentTotal, errorTotal, dropped>>

-----------------------------------------------------------------------------
(* The sender goroutine.                                                   *)

\* the context the current send runs under is done
SendCanceled == IF draining THEN expired ELSE canceled

\* a message is through: count it and go back to the select
Resolve(m, ok) ==
  /\ resolved' = Append(resolved, m)
  /\ sentTotal' = sentTotal + (IF ok THEN 1 ELSE 0)
  /\ errorTotal' = errorTotal + (IF ok THEN 0 ELSE 1)
  /\ sender' = "select" /\ msg' = <<>> /\ attempt' = 0

\* the first doPost, which fails at once under a context that is done
Take ==
  /\ sender = "select" /\ ch # <<>>
  /\ ch' = Tail(ch)
  /\ IF SendCanceled
     THEN Resolve(Head(ch), FALSE)
     ELSE /\ sender' = "posting" /\ msg' = <<Head(ch)>> /\ attempt' = 0
          /\ UNCHANGED <<resolved, sentTotal, errorTotal>>
  /\ UNCHANGED <<jobVars, canceled, done, expired, draining, accepted, dropped>>

\* Discord accepts the message
PostOK ==
  /\ sender = "posting" /\ Resolve(msg[1], TRUE)
  /\ UNCHANGED <<ch, jobVars, canceled, done, expired, draining, accepted, dropped>>

\* the request fails, or is answered with an error that is not retried
PostFails ==
  /\ sender = "posting" /\ Resolve(msg[1], FALSE)
  /\ UNCHANGED <<ch, jobVars, canceled, done, expired, draining, accepted, dropped>>

\* 429: wait and try again, unless this was the last attempt
RateLimitedForgets ==                   \* mutant: the last 429 is taken for a success
  /\ sender = "posting"
  /\ sender' = "select" /\ msg' = <<>> /\ attempt' = 0
  /\ UNCHANGED <<ch, jobVars, canceled, done, expired, draining, accepted, dropped, resolved,
                 sentTotal, errorTotal>>
RateLimited ==
  /\ sender = "posting"
  /\ \/ attempt = MaxRetries /\ Resolve(msg[1], FALSE)
     \/ attempt < MaxRetries /\ sender' = "retrying"
        /\ UNCHANGED <<msg, attempt, resolved, sentTotal, errorTotal>>
  /\ UNCHANGED <<ch, jobVars, canceled, done, expired, draining, accepted, dropped>>

\* the wait is over, or cut short by the context
RetryElapsed ==
  /\ sender = "retrying"
  /\ IF SendCanceled
     THEN Resolve(msg[1], FALSE)
     ELSE /\ sender' = "posting" /\ attempt' = attempt + 1
          /\ UNCHANGED <<msg, resolved, sentTotal, errorTotal>>
  /\ UNCHANGED <<ch, jobVars, canceled, done, expired, draining, accepted, dropped>>

\* the two ways out of senderLoop
ContextDone ==
  /\ sender = "select" /\ ~draining /\ canceled
  /\ sender' = "returned"
  /\ UNCHANGED <<ch, jobVars, canceled, done, expired, draining, msg, attempt, resolved,
                 accepted, sentTotal, errorTotal, dropped>>

StopReceived ==
  /\ sender = "select" /\ ~draining /\ done
  /\ draining' = TRUE
  /\ UNCHANGED <<ch, jobVars, canceled, done, expired, sender, msg, attempt, resolved,
                 accepted, sentTotal, errorTotal, dropped>>

\* drain returns when the channel is empty or its context has expired
DrainBreaks == FALSE                    \* mutant: the select is left, not the loop
DrainEnds ==
  /\ sender = "select" /\ draining /\ (ch = <<>> \/ expired)
  /\ sender' = "returned"
  /\ UNCHANGED <<ch, jobVars, canceled, done, expired, draining, msg, attempt, resolved,
                 accepted, sentTotal, errorTotal, dropped>>

-----------------------------------------------------------------------------
NotifyNext(h) ==
  \/ EnqueueBlock(h) \/ NotifyReturns(h)
  \/ \E kind \in Kinds : CheckBoundary(h, kind) \/ Summarize(h, kind) \/ SummaryUnread(h, kind)

SenderNext ==
  \/ Take \/ PostOK \/ PostFails \/ RateLimited \/ RetryElapsed
  \/ ContextDone \/ StopReceived \/ DrainEnds

Stopped ==
  /\ done /\ sender = "returned" /\ (\A h \in Blocks : ~Active(h))
  /\ UNCHANGED vars

Next ==
  \/ \E h \in Blocks : Process(h) \/ NotifyNext(h)
  \/ Cancel \/ Stop \/ DrainExpires \/ SenderNext \/ Stopped

Spec == Init /\ [][Next]_vars

\* The sender runs; a post, which has a timeout, is answered or fails, and the
\* waits elapse.  Nobody owes a message or a shutdown.
FairSpec == Spec /\ WF_vars(SenderNext) /\ WF_vars(DrainExpires)

-----------------------------------------------------------------------------
Messages == [type : {"block", "slash_critical", "hour", "day"}, of : Nat]

\* Every variable has its type; enqueue keeps the channel within its capacity and
\* sendWithRetry makes at most MaxRetries + 1 attempts.
TypeOK ==
  /\ ch \in Seq(Messages) /\ Len(ch) <= ChannelSize
  /\ last \in [Kinds -> Nat]
  /\ jobs \in [Blocks -> [pc : {"idle", "hour", "day", "enqueue", "done"}, asking : Nat,
                          todo : Seq(Messages)]]
  /\ canceled \in BOOLEAN /\ done \in BOOLEAN /\ draining \in BOOLEAN /\ expired \in BOOLEAN
  /\ sender \in {"select", "posting", "retrying", "returned"}
  /\ msg \in Seq(Messages) /\ Len(msg) <= 1 /\ attempt \in 0..MaxRetries
  /\ accepted \in Seq(Messages) /\ resolved \in Seq(Messages)
  /\ sentTotal \in Nat /\ errorTotal \in Nat /\ dropped \in Nat
  /\ summarized \in [Kinds -> Seq(Nat)] /\ early \subseteq Nat \X Blocks
  /\ unread \subseteq Kinds \X Nat

\* No message disappears or is sent twice, through retries, cancellation and
\* drain: what the channel took is, in order, what was sent or given up, what is
\* being sent and what is queued; and the two counters account for each message
\* resolved or dropped exactly once.
MessageAccounting ==
  /\ accepted = resolved \o msg \o ch
  /\ sentTotal + errorTotal = Len(resolved) + dropped

Increasing(s) == \A i, j \in 1..Len(s) : i < j => s[i] < s[j]

\* With one NotifyBlock goroutine at a time and blocks in chain order, exactly one
\* summary is made of each hour and day that has ended, after its last block,
\* unless it could not be read.
SummariesExact ==
  MaxConcurrent = 1 /\ ~CatchUp =>
    /\ early = {}
    /\ \A kind \in Summaries :
         /\ Increasing(summarized[kind])
         /\ (\A h \in Blocks : jobs[h].pc \in {"idle", "enqueue", "done"}) =>
              {summarized[kind][i] : i \in 1..Len(summarized[kind])}
              = {p \in {Period(kind, h) : h \in Processed \ QuietBlocks} :
                   p # last[kind] /\ <<kind, p>> \notin unread}

\* Stop returns: the sender goroutine ends, whatever Discord answers and however
\* many messages are queued, so the database is closed after it.
StopReturns == done ~> sender = "returned"

\* "Graceful shutdown drains remaining messages (5s timeout)".
ShutdownDrains == done /\ sender = "returned" => ch = <<>> \/ expired

\* "Hour boundary crossed -- send summary for the completed hour."
CompletedPeriods == early = {} /\ \A kind \in Kinds : Increasing(summarized[kind])

=============================================================================
