---------------------------- MODULE ArtifactStore ----------------------------
(***************************************************************************)
(* One text file, its mirror in app.artifacts and app.artifact_versions,   *)
(* the panels in which a user edits it and the run of an agent that reads  *)
(* and writes it.  Panels and agent reach the file through the scripts of  *)
(* the files skill, which take no lock: a script is several steps, between *)
(* which other scripts and other programs reach the file.  The agent's     *)
(* envelopes are promoted by the queue of its run, later.                  *)
(*                                                                         *)
(* A checksum names a text, so the model writes the text for it.  What     *)
(* read.py prints and write.py stores of a text is not always that text:   *)
(* Normal ends it with a newline and has LF for its line ends, Captured    *)
(* also cuts a long one.  Panel and route only end a text with a newline.  *)
(***************************************************************************)
EXTENDS Naturals, Sequences

CONSTANTS
    Tabs,           \* panels that are open on the file, or on a draft to be saved there
    Agent,          \* the run of the agent
    Gone,           \* the file does not exist
    Texts,          \* what a file may hold
    Ended,          \* a text with the newline at its end that it may lack
    Unix,           \* a text with LF for CRLF and CR
    Long,           \* texts beyond the limit of a read by the agent
    Stub,           \* their beginning, ended by the line [TRUNCATED ...]
    MaxRequests,    \* bound: requests of all panels
    MaxTyped,       \* bound: drafts opened and changed
    MaxCalls,       \* bound: tool calls of the agent
    MaxOutside,     \* bound: changes by other programs
    MaxRuns,        \* bound: runs of the agent
    MaxTurns        \* bound: their turns with a text

None == "none"

ASSUME ProcessAssumption == Agent \notin Tabs /\ None \notin Tabs \cup {Agent}
ASSUME TextAssumption ==
    /\ Gone \notin Texts /\ None \notin Texts
    /\ Ended \in [Texts -> Texts] /\ Unix \in [Texts -> Texts]
    /\ \A t \in Texts : /\ Ended[Ended[t]] = Ended[t] /\ Unix[Unix[t]] = Unix[t]
                       /\ Unix[Ended[t]] = Ended[Unix[t]]
    /\ Long \subseteq Texts /\ Stub \in Texts /\ Unix[Ended[Stub]] = Stub
ASSUME BoundAssumption == {MaxRequests, MaxTyped, MaxCalls, MaxOutside, MaxRuns, MaxTurns} \subseteq Nat

VARIABLES
    disk,       \* the file
    row,        \* app.artifacts: binding_sha, complete, head_version (an index of versions)
    versions,   \* app.artifact_versions in the order of created_at
    told,       \* the versions older than the last agent message of the chat
    queue,      \* the persistence queue of the run: envelopes and the rows of its turns
    run,        \* the run: whether it is on, and the user's text it was given, word for word
    panel,      \* the panel of each tab
    script,     \* the script each tab and the agent have running, and what follows it
    used,       \* how much of each bound is used up
    overlap,    \* history: the file was changed while another script was at it
    foreign     \* history: the tabs whose checksum others, or a lost answer, have outdated

vars == <<disk, row, versions, told, queue, run, panel, script, used, overlap, foreign>>

Procs == Tabs \cup {Agent}
Normal(t) == Unix[Ended[t]]

\* Where a script is between its first look at the file and its last.
Midway == {"hashed", "checked", "trashed", "written"}

Version == [sha : Texts, text : Texts, by : {"agent", "user"}, source : {"read", "write"}]
Envelope == [kind : {"read", "write", "turn"}, text : Texts \cup {None}, sha : Texts \cup {None},
             complete : BOOLEAN]
Panel == [phase : {"closed", "loading", "ready", "error"}, block : Texts \cup {None},
          bound : BOOLEAN, sha : Texts \cup {None}, original : Texts \cup {None},
          draft : Texts \cup {None}, saving : BOOLEAN, conflict : BOOLEAN]
Script == [at : {"idle", "asked", "done", "looked"} \cup Midway,
           op : {None, "load", "read", "page", "save", "create", "write"},
           text : Texts \cup {None}, expect : Texts \cup {None}, sha : Texts \cup {None}, found : Nat]

NoRow == [there |-> FALSE, sha |-> None, complete |-> FALSE, head |-> 0]
NoScript == [at |-> "idle", op |-> None, text |-> None, expect |-> None, sha |-> None, found |-> 0]
\* A refresh notices no cut (Captured), so every panel may be edited.
Closed == [phase |-> "closed", block |-> None, bound |-> FALSE, sha |-> None, original |-> None,
           draft |-> None, saving |-> FALSE, conflict |-> FALSE]

Init ==
    /\ disk \in Texts \cup {Gone}
    /\ row = NoRow
    /\ versions = <<>>
    /\ told = {}
    /\ queue = <<>>
    /\ run = [on |-> FALSE, given |-> None]
    /\ panel = [t \in Tabs |-> Closed]
    /\ script = [p \in Procs |-> NoScript]
    /\ used = [requests |-> 0, typed |-> 0, calls |-> 0, outside |-> 0, runs |-> 0, turns |-> 0]
    /\ overlap = FALSE
    /\ foreign = {}

-----------------------------------------------------------------------------
(* The mirror. *)

mirror == <<row, versions, told>>

\* The versions that record a checksum.  Nothing makes them unique: of two transactions
\* that look at the same time, both insert.
Holding(sha) == {i \in DOMAIN versions : versions[i].sha = sha}

\* The row after a complete text was recorded: found, or inserted as the last version.
Records(found, text, sha, author, source) ==
    /\ versions' = IF found # 0 THEN versions
                   ELSE Append(versions, [sha |-> sha, text |-> text, by |-> author,
                                          source |-> source])
    /\ row' = [there |-> TRUE, sha |-> sha, complete |-> TRUE,
               head |-> IF found # 0 THEN found ELSE Len(versions) + 1]
    /\ UNCHANGED told

\* What SELECT ... LIMIT 1 may find.
Findable(sha) == IF Holding(sha) = {} THEN {0} ELSE Holding(sha)

-----------------------------------------------------------------------------
(* The scripts of the files skill. *)

\* A script that was asked for and has not looked at the file yet.
Asked(op, text, expect) ==
    [NoScript EXCEPT !.at = "asked", !.op = op, !.text = text, !.expect = expect]

\* The file changes, by a step of p (or by none of the processes).
Changes(p, text) ==
    /\ disk' = text
    /\ overlap' = (overlap \/ \E q \in Procs \ {p} : script[q].at \in Midway)
    /\ foreign' = foreign \cup (Tabs \ {p})

FileKept == UNCHANGED <<disk, overlap, foreign>>

Moves(p, at) == script' = [script EXCEPT ![p].at = at]

\* What a panel does when its request fails: the conflict of checksums is told apart.
Refused(t, why) ==
    IF script[t].op = "load"
    THEN [Closed EXCEPT !.phase = "error"]
    ELSE [panel[t] EXCEPT !.saving = FALSE, !.conflict = (why = "conflict")]

\* The script ends with an error; the agent is told by its tool result.
Fails(p, why) ==
    /\ script' = [script EXCEPT ![p] = NoScript]
    /\ panel' = IF p \in Tabs THEN [panel EXCEPT ![p] = Refused(p, why)] ELSE panel
    /\ UNCHANGED queue

\* read.py has hashed the file and now prints its text; it may be cut for the agent only
\* (the panel asks for two million characters).  extractFilesEnvelope looks for the marker in
\* the last line, and the output of print ends in a newline: the cut is never seen, and the
\* envelope is complete unless the agent gave an offset.
Captured(p, text) ==
    IF p = Agent /\ text \in Long THEN Stub ELSE Normal(text)

ReadsSha(p) ==
    /\ script[p].at = "asked" /\ script[p].op \in {"load", "read", "page"}
    /\ IF disk = Gone
       THEN Fails(p, "gone")
       ELSE /\ script' = [script EXCEPT ![p].at = "hashed", ![p].sha = disk]
            /\ UNCHANGED <<panel, queue>>
    /\ FileKept
    /\ UNCHANGED <<mirror, run, used>>

ReadsText(p) ==
    /\ script[p].at = "hashed"
    /\ IF disk = Gone
       THEN Fails(p, "gone")
       ELSE /\ IF p = Agent
               THEN /\ queue' = Append(queue, [kind |-> "read", text |-> Captured(p, disk),
                                               sha |-> script[p].sha,
                                               complete |-> script[p].op # "page"])
                    /\ script' = [script EXCEPT ![p] = NoScript]
               ELSE /\ script' = [script EXCEPT ![p].at = "done", ![p].text = Captured(p, disk)]
                    /\ UNCHANGED queue
            /\ UNCHANGED panel
    /\ FileKept
    /\ UNCHANGED <<mirror, run, used>>

\* write.py asks whether the file is there, whether it may be replaced, and by its checksum
\* whether it is still the one that was read.  A file that is not there is not asked about.
AnyText(p) == TRUE   \* Mutant: the checksum is not compared.
ShaFits(p) == script[p].expect \in {None, disk}

Checks(p) ==
    /\ script[p].at = "asked" /\ script[p].op \in {"save", "create", "write"}
    /\ CASE disk = Gone -> Moves(p, "trashed") /\ UNCHANGED <<panel, queue>>
         [] disk # Gone /\ script[p].op = "create" -> Fails(p, "exists")
         [] disk # Gone /\ script[p].op # "create" /\ ~ShaFits(p) -> Fails(p, "conflict")
         [] OTHER -> Moves(p, "checked") /\ UNCHANGED <<panel, queue>>
    /\ FileKept
    /\ UNCHANGED <<mirror, run, used>>

\* The previous version goes to .trash/.
Trashes(p) ==
    /\ script[p].at = "checked"
    /\ IF disk = Gone
       THEN Fails(p, "error") /\ FileKept
       ELSE Changes(p, Gone) /\ Moves(p, "trashed") /\ UNCHANGED <<panel, queue>>
    /\ UNCHANGED <<mirror, run, used>>

Writes(p) ==
    /\ script[p].at = "trashed"
    /\ Changes(p, Normal(script[p].text))
    /\ Moves(p, "written")
    /\ UNCHANGED <<mirror, queue, run, panel, used>>

\* The envelope of a write holds the text rebuilt from the call, if its checksum is the one
\* write.py printed.  The newline is rebuilt, LF for CRLF is not.
WriteEnvelope(text) ==
    IF Ended[text] # disk THEN <<>>
    ELSE <<[kind |-> "write", text |-> Ended[text], sha |-> disk, complete |-> TRUE]>>

\* write.py prints the checksum of the file as it now is.
Hashes(p) ==
    /\ script[p].at = "written"
    /\ IF disk = Gone
       THEN Fails(p, "error")
       ELSE /\ IF p = Agent
               THEN /\ queue' = queue \o WriteEnvelope(script[p].text)
                    /\ script' = [script EXCEPT ![p] = NoScript]
               ELSE /\ script' = [script EXCEPT ![p].at = "done", ![p].sha = disk]
                    /\ UNCHANGED queue
            /\ UNCHANGED panel
    /\ FileKept
    /\ UNCHANGED <<mirror, run, used>>

\* The cli server kills a script that takes too long; what it did to the file stays.
Killed(p) ==
    /\ script[p].at \in {"asked"} \cup Midway
    /\ Fails(p, "timeout")
    /\ foreign' = foreign \cup ({p} \cap Tabs)
    /\ UNCHANGED <<disk, overlap, mirror, run, used>>

\* Another program, or a script of the agent that gives no envelope, changes or removes the file.
Outside ==
    /\ used.outside < MaxOutside
    /\ used' = [used EXCEPT !.outside = @ + 1]
    /\ \E text \in (Texts \cup {Gone}) \ {disk} : Changes(None, text)
    /\ UNCHANGED <<mirror, queue, run, panel, script>>

-----------------------------------------------------------------------------
(* The panel: ArtifactPanel.tsx and routes/artifacts.ts. *)

Asks(t, op, text, expect) ==
    /\ used.requests < MaxRequests
    /\ used' = [used EXCEPT !.requests = @ + 1]
    /\ script' = [script EXCEPT ![t] = Asked(op, text, expect)]

\* A card is clicked, or Reload after a conflict or an error: by-path, then refresh.
Opens(t) ==
    /\ row.there
    /\ script[t] = NoScript
    /\ \/ panel[t].phase \in {"closed", "error"}
       \/ panel[t].conflict /\ panel[t].block = None
    /\ Asks(t, "load", None, None)
    /\ panel' = [panel EXCEPT ![t] = [Closed EXCEPT !.phase = "loading"]]
    /\ UNCHANGED <<disk, overlap, foreign, mirror, queue, run>>

Drafted(text) ==
    [Closed EXCEPT !.phase = "ready", !.block = text, !.original = text, !.draft = text]

\* A block of an answer is opened as a draft.
OpensDraft(t) ==
    /\ panel[t].phase = "closed"
    /\ used.typed < MaxTyped
    /\ used' = [used EXCEPT !.typed = @ + 1]
    /\ \E text \in Texts : panel' = [panel EXCEPT ![t] = Drafted(text)]
    /\ UNCHANGED <<disk, overlap, foreign, mirror, queue, run, script>>

\* Reload after a conflict: a panel that was opened on a block shows the block again, though
\* it has been saved and is bound to the file.
ReloadsDraft(t) ==
    /\ panel[t].conflict /\ panel[t].block # None
    /\ panel' = [panel EXCEPT ![t] = Drafted(panel[t].block)]
    /\ UNCHANGED <<disk, overlap, foreign, mirror, queue, run, script, used>>

\* The editor, a textarea with LF for its line ends, takes keys while a save is under way, too.
Types(t) ==
    /\ panel[t].phase = "ready"
    /\ used.typed < MaxTyped
    /\ used' = [used EXCEPT !.typed = @ + 1]
    /\ \E text \in {u \in Texts : Unix[u] = u} \ {panel[t].draft} : panel' = [panel EXCEPT ![t].draft = text]
    /\ UNCHANGED <<disk, overlap, foreign, mirror, queue, run, script>>

Saves(t) ==
    /\ panel[t].phase = "ready" /\ ~panel[t].saving
    /\ panel[t].bound => panel[t].draft # panel[t].original /\ panel[t].sha # None
    /\ IF panel[t].bound
       THEN Asks(t, "save", panel[t].draft, panel[t].sha)
       ELSE Asks(t, "create", panel[t].draft, None)
    /\ panel' = [panel EXCEPT ![t].saving = TRUE, ![t].conflict = FALSE]
    /\ UNCHANGED <<disk, overlap, foreign, mirror, queue, run>>

Closes(t) ==
    /\ panel[t].phase # "closed"
    /\ script[t] = NoScript
    /\ panel' = [panel EXCEPT ![t] = Closed]
    /\ UNCHANGED <<disk, overlap, foreign, mirror, queue, run, script, used>>

\* recordVersion: the insert looks for the checksum in what others have committed, ...
Looks(t) ==
    /\ script[t].at = "done" /\ script[t].op # "create"
    /\ \E found \in Findable(script[t].sha) :
          script' = [script EXCEPT ![t].at = "looked", ![t].found = found]
    /\ UNCHANGED <<disk, overlap, foreign, mirror, queue, run, panel, used>>

\* What the panel holds after the answer.
RefreshAnswer(t) ==
    [Closed EXCEPT !.phase = "ready", !.bound = TRUE, !.sha = script[t].sha,
                   !.original = script[t].text, !.draft = script[t].text]

Untouched(t) == IF panel[t].draft = script[t].text THEN Ended[script[t].text] ELSE panel[t].draft

OldSha(t) == panel[t].sha   \* Mutant: the panel keeps its checksum.
NewSha(t) == script[t].sha

SaveAnswer(t) ==
    [panel[t] EXCEPT !.bound = TRUE, !.sha = NewSha(t), !.original = Ended[script[t].text],
                     !.draft = Untouched(t), !.saving = FALSE, !.conflict = FALSE]

\* The text the route records: what was sent, with a newline at its end.
AsSent(t) == script[t].text   \* Mutant: the missing newline is not added.
Stored(t) == IF script[t].op = "load" THEN script[t].text ELSE Ended[script[t].text]

\* ... and the transaction commits, or fails; its answer arrives, or is lost.
Lands(t) ==
    /\ \/ script[t].at = "looked"
       \/ script[t].at = "done" /\ script[t].op = "create"
    /\ LET loads == script[t].op = "load"
       IN  \E outcome \in {"answered", "lost", "failed"} :
              /\ IF outcome = "failed" THEN UNCHANGED mirror
                 ELSE \E found \in IF script[t].op = "create" THEN Findable(script[t].sha)
                                   ELSE {script[t].found} :
                         Records(found, Stored(t), script[t].sha,
                                 IF loads THEN "agent" ELSE "user",
                                 IF loads THEN "read" ELSE "write")
              /\ panel' = [panel EXCEPT ![t] =
                    IF outcome # "answered" THEN Refused(t, "error")
                    ELSE IF loads THEN RefreshAnswer(t) ELSE SaveAnswer(t)]
              /\ foreign' = IF outcome # "answered" THEN foreign \cup {t}
                            ELSE IF disk = script[t].sha THEN foreign \ {t}
                            ELSE foreign
    /\ script' = [script EXCEPT ![t] = NoScript]
    /\ UNCHANGED <<disk, overlap, queue, run, used>>

-----------------------------------------------------------------------------
(* The run of the agent: RunService.ts and promoteFilesEnvelope. *)

\* The head version, if a user wrote it after the agent's last message.
EditToTell ==
    IF row.there /\ row.head # 0 /\ versions[row.head].by = "user" /\ row.head \notin told
    THEN versions[row.head].text ELSE None

RunStarts ==
    /\ ~run.on /\ used.runs < MaxRuns
    /\ used' = [used EXCEPT !.runs = @ + 1]
    /\ run' = [on |-> TRUE, given |-> EditToTell]
    /\ UNCHANGED <<disk, overlap, foreign, mirror, queue, panel, script>>

\* The agent reads, reads on from an offset, or writes, with or without a checksum it has seen.
Calls ==
    /\ run.on /\ script[Agent] = NoScript /\ used.calls < MaxCalls
    /\ used' = [used EXCEPT !.calls = @ + 1]
    /\ \E call \in [op : {"read", "page"}, text : {None}, expect : {None}]
                  \cup [op : {"create"}, text : Texts, expect : {None}]
                  \cup [op : {"write"}, text : Texts, expect : {None, row.sha}] :
          script' = [script EXCEPT ![Agent] = Asked(call.op, call.text, call.expect)]
    /\ UNCHANGED <<disk, overlap, foreign, mirror, queue, run, panel>>

\* A turn's row is queued.
Speaks ==
    /\ run.on /\ script[Agent] = NoScript
    /\ used.turns < MaxTurns
    /\ used' = [used EXCEPT !.turns = @ + 1]
    /\ queue' = Append(queue, [kind |-> "turn", text |-> None, sha |-> None, complete |-> FALSE])
    /\ UNCHANGED <<disk, overlap, foreign, mirror, run, panel, script>>

\* The head of the queue is stored, or its transaction fails and it is dropped.
StoresTurn ==
    /\ Head(queue).kind = "turn"
    /\ told' = DOMAIN versions
    /\ UNCHANGED <<row, versions>>

Promotes(envelope) ==
    IF envelope.complete
    THEN \E found \in Findable(envelope.sha) :
            Records(found, envelope.text, envelope.sha, "agent", envelope.kind)
    ELSE /\ row' = [there |-> TRUE, sha |-> envelope.sha, complete |-> FALSE, head |-> row.head]
         /\ UNCHANGED <<versions, told>>

Persists ==
    /\ queue # <<>>
    /\ queue' = Tail(queue)
    /\ \/ StoresTurn
       \/ Head(queue).kind # "turn" /\ Promotes(Head(queue))
       \/ UNCHANGED mirror
    /\ UNCHANGED <<disk, overlap, foreign, run, panel, script, used>>

\* The run waits for its queue.
RunEnds ==
    /\ run.on /\ script[Agent] = NoScript /\ queue = <<>>
    /\ run' = [on |-> FALSE, given |-> None]
    /\ UNCHANGED <<disk, overlap, foreign, mirror, queue, panel, script, used>>

-----------------------------------------------------------------------------

ScriptStep(p) ==
    ReadsSha(p) \/ ReadsText(p) \/ Checks(p) \/ Trashes(p) \/ Writes(p) \/ Hashes(p) \/ Killed(p)

PanelStep(t) ==
    Opens(t) \/ OpensDraft(t) \/ ReloadsDraft(t) \/ Types(t) \/ Saves(t) \/ Closes(t) \/ Looks(t) \/ Lands(t)

Next ==
    \/ \E p \in Procs : ScriptStep(p)
    \/ \E t \in Tabs : PanelStep(t)
    \/ Outside
    \/ RunStarts \/ Calls \/ Speaks \/ Persists \/ RunEnds

Spec == Init /\ [][Next]_vars
-----------------------------------------------------------------------------
(* Properties. *)

TypeOK ==
    /\ disk \in Texts \cup {Gone}
    /\ row \in [there : BOOLEAN, sha : Texts \cup {None}, complete : BOOLEAN, head : 0 .. Len(versions)]
    /\ versions \in Seq(Version)
    /\ told \subseteq DOMAIN versions
    /\ queue \in Seq(Envelope)
    /\ run \in [on : BOOLEAN, given : Texts \cup {None}]
    /\ panel \in [Tabs -> Panel]
    /\ script \in [Procs -> Script]
    /\ overlap \in BOOLEAN
    /\ foreign \subseteq Tabs

\* "You get a conflict notice ... instead of a silent overwrite" (docs/en/user/chat/
\* 06_artifacts.md 21): unless two of them were at the file at once, a panel's save moves only
\* that text to the trash, up to line ends and the last newline, which its user was shown or
\* last saved, and replaces no text at all.
SavesSpareOthers ==
    [][\A t \in Tabs :
          /\ ~overlap' /\ Trashes(t) => Normal(disk) = Unix[panel[t].original]
          /\ ~overlap' /\ Writes(t) => disk = Gone]_vars

\* A version that was written through Ontheia, by the agent's write.py or from a panel, holds
\* the text its checksum names, unless two were at the file at once: the agent's to the byte, a
\* panel's but for its line ends, which the route stores as they were sent while write.py turns
\* CRLF into LF.  What a run is given as the user's exact wording is, as far, what the user's
\* save left in the file (artifacts.ts 352, 411-420, ArtifactService.ts 134-149, 569-635).
WritesAreMirrored ==
    ~overlap =>
        /\ \A i \in DOMAIN versions : versions[i].source = "write" =>
               versions[i].sha = IF versions[i].by = "agent" THEN versions[i].text
                                 ELSE Unix[versions[i].text]
        /\ run.given # None =>
               \E i \in DOMAIN versions :
                   versions[i].by = "user" /\ versions[i].sha = Unix[run.given]

\* A conflict is somebody else's doing: a panel whose user alone changed the file is not
\* refused its next save, except after an answer that was lost or a request that failed.
ConflictsAreForeign == \A t \in Tabs : panel[t].conflict => t \in foreign

\* What the user types during a save stays in the editor and counts as unsaved, whatever
\* the save comes to (ArtifactPanel.tsx 275-313).
TypingSurvives ==
    [][\A t \in Tabs :
          /\ panel[t].phase = "ready" /\ panel[t].saving /\ ~panel'[t].saving
          /\ panel[t].draft # script[t].text
          => panel'[t].draft = panel[t].draft]_vars
=============================================================================
