--------------------------- MODULE RollingSummary ---------------------------
(***************************************************************************)
(* The compressed history of one chat: RollingSummaryService.              *)
(* maybeApplySummary as RunService calls it for every run of the chat,     *)
(* with the histories the callers send.  A message is its place in         *)
(* app.chat_messages; a summary is the set of messages folded into it,     *)
(* which takes the summarizer at its word (it "carries over" what it was   *)
(* given).  The counter rolling_summary_covers_until is a POSITION in the  *)
(* history a run was given, not a message: two callers that send           *)
(* different histories of one chat read it differently.                    *)
(***************************************************************************)
EXTENDS Naturals, Sequences, FiniteSets, SequencesExt

CONSTANTS
    Runs,           \* runs of the chat at the same time
    Callers,        \* who starts runs, of "tab", "cron" and "search": see History
    MaxMessages,    \* maxMessages of the settings, positive
    MaxChat         \* bound: messages the chat may hold

VARIABLES
    chat,       \* app.chat_messages: the role of each message, in order
    summary,    \* app.chats.rolling_summary and rolling_summary_covers_until
    run         \* each run: where it is, its history, what it loaded, what the model is sent

summaryVars == <<chat, summary, run>>

Note == 0       \* the system note a scheduled run adds; it is not stored

NoSummary == [folded |-> {}, covers |-> 0]

Unsent == [folded |-> {}, tail |-> <<>>]
AtRest == [at |-> "idle", history |-> <<>>, from |-> NoSummary, sent |-> Unsent]

SummaryInit ==
    /\ chat = <<>>
    /\ summary = NoSummary
    /\ run = [r \in Runs |-> AtRest]

-----------------------------------------------------------------------------
(* The history of a run. *)

\* The places of a set, in order, up to the n-th.
InOrder(places, n) ==
    LET upTo[i \in 0 .. n] == IF i = 0 THEN <<>>
                              ELSE IF i \in places THEN Append(upTo[i - 1], i) ELSE upTo[i - 1]
    IN  upTo[n]

Places(roles) == {i \in DOMAIN chat : chat[i] \in roles}
Stored(roles) == InOrder(Places(roles), Len(chat))

\* The histories a caller may send before its own message.  An open tab sends the
\* messages of user and agent; one whose search box is filled in, or from which a message
\* was deleted, sends some of them.  A scheduled run reads the rows whose role is 'user',
\* 'assistant', 'system' or 'tool': answers are stored as 'agent' and are not among them.
History(caller) ==
    CASE caller = "tab"    -> {Stored({"user", "agent"})}
      [] caller = "search" -> {InOrder(kept, Len(chat)) : kept \in SUBSET Places({"user", "agent"})}
      [] caller = "cron"   -> {Append(Stored({"user", "tool"}), Note)}

IsUser(i) == i # Note /\ chat[i] = "user"

\* A run begins: its user message is stored and ends its history.
RunBegins(r) ==
    /\ run[r].at = "idle"
    /\ Len(chat) < MaxChat
    /\ chat' = Append(chat, "user")
    /\ \E caller \in Callers : \E before \in History(caller) :
          run' = [run EXCEPT ![r] = [AtRest EXCEPT !.at = "begun",
                                                 !.history = Append(before, Len(chat) + 1)]]
    /\ UNCHANGED summary

-----------------------------------------------------------------------------
(* maybeApplySummary. *)

\* What was loaded, with the counter cut to the length of the history.
Loaded(s, history) == [s EXCEPT !.covers = IF @ < Len(history) THEN @ ELSE Len(history)]

Window(history, from) == SubSeq(history, from.covers + 1, Len(history))

LastUser(window) ==
    LET users == {i \in DOMAIN window : IsUser(window[i])}
    IN  IF users = {} THEN Len(window) + 1 ELSE Max(users)

Retained(window) == SubSeq(window, LastUser(window), Len(window))
ToCompress(window) == SubSeq(window, 1, LastUser(window) - 1)

\* More messages than the limit, or more tokens than the threshold, which any window may have.
Triggers(window, long) == window # <<>> /\ (long \/ Len(window) > MaxMessages)

Sends(r, folded, tail) ==
    run' = [run EXCEPT ![r].at = "sent", ![r].sent = [folded |-> folded, tail |-> tail]]

\* The summary that exists and the messages after it, or the history as it came.
Reuses(r, from, history, tail) ==
    IF from.covers > 0 THEN Sends(r, from.folded, tail) ELSE Sends(r, {}, history)

\* The summary is loaded, or the query fails and the run goes on as if there were none.
Loads(r) ==
    /\ run[r].at = "begun"
    /\ \E stored \in {summary, NoSummary}, long \in BOOLEAN :
          LET history == run[r].history
              from == Loaded(stored, history)
              window == Window(history, from)
          IN  IF ~Triggers(window, long)
              THEN Reuses(r, from, history, window)
              ELSE IF ToCompress(window) = <<>>
              THEN Reuses(r, from, history, Retained(window))
              ELSE run' = [run EXCEPT ![r].at = "compressing", ![r].from = from]
    /\ UNCHANGED <<chat, summary>>

\* The position the new summary reaches to.
CoversTail(from, window) == from.covers + Len(window)  \* Mutant: the retained tail is counted too.
Covers(from, window) == from.covers + Len(ToCompress(window))

\* The summarizer is given the summary that exists and the messages to compress.
FoldsAnew(from, window) == ToSet(ToCompress(window))   \* Mutant: the old summary is not passed on.
Folds(from, window) == from.folded \cup ToSet(ToCompress(window))

\* The summarizer answers and the chat row is updated.
Compresses(r) ==
    /\ run[r].at = "compressing"
    /\ LET from == run[r].from
           window == Window(run[r].history, from)
       IN  /\ summary' = [folded |-> Folds(from, window), covers |-> Covers(from, window)]
           /\ Sends(r, Folds(from, window), Retained(window))
    /\ UNCHANGED chat

\* The summarizer or the update fails: the history is sent as it came.
FailsToCompress(r) ==
    /\ run[r].at = "compressing"
    /\ Sends(r, {}, run[r].history)
    /\ UNCHANGED <<chat, summary>>

\* The run ends: its tool results and its answer are stored, or it failed and nothing is.
RunEnds(r) ==
    /\ run[r].at = "sent"
    /\ \E rest \in {<<>>, <<"agent">>, <<"tool", "agent">>} :
          /\ Len(chat) + Len(rest) <= MaxChat
          /\ chat' = chat \o rest
    /\ run' = [run EXCEPT ![r] = AtRest]
    /\ UNCHANGED summary

SummaryNext == \E r \in Runs : RunBegins(r) \/ Loads(r) \/ Compresses(r) \/ FailsToCompress(r) \/ RunEnds(r)

SummarySpec == SummaryInit /\ [][SummaryNext]_summaryVars

-----------------------------------------------------------------------------
(* Properties. *)

\* Every message of the history a run was given reaches the model, word for word or
\* through the summary, whatever other run of the chat compressed in between: nothing falls
\* between the counter and the tail (RollingSummaryService.ts 194-337).
NothingFallsBetween ==
    \A r \in Runs : run[r].at = "sent" =>
        ToSet(run[r].history) \subseteq run[r].sent.folded \cup ToSet(run[r].sent.tail)

\* The stored counter and the stored text stay one statement: the summary holds the first
\* covers messages of the chat as a tab sees it and none beyond, although the two runs that
\* may overwrite each other's summary loaded it at different times.
CounterMatchesText ==
    summary.folded = ToSet(SubSeq(Stored({"user", "agent"}), 1, summary.covers))
=============================================================================
