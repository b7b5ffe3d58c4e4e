------------------------ MODULE ArtifactStoreProofs ------------------------
(***************************************************************************)
(* Proofs about the file and its mirror, for any panels, texts and bounds. *)
(* Sound is the inductive invariant of the shapes; on it stand Fresh (what *)
(* a panel knows while nobody else has been at the file) and Undisturbed   *)
(* (what holds until two scripts have been at it at once).                 *)
(***************************************************************************)
EXTENDS ArtifactStore, TLAPS

\* What can be said of a script by itself.
ScriptOK(p, c) ==
    /\ c.at = "idle" => c = NoScript
    /\ c.op = None <=> c.at = "idle"
    /\ p \in Tabs => c.op \in {None, "load", "save", "create"}
    /\ p = Agent => c.op \in {None, "read", "page", "create", "write"}
    /\ c.op \in {"save", "create", "write"} => c.text \in Texts
    /\ c.at = "hashed" => c.sha \in Texts /\ c.op \in {"load", "read", "page"}
    /\ c.at \in {"checked", "trashed", "written"} => c.op \in {"save", "create", "write"}
    /\ c.at = "checked" => c.op # "create"
    /\ c.at \in {"done", "looked"} => p \in Tabs /\ c.sha \in Texts /\ c.text \in Texts
    /\ c.at = "looked" => c.op # "create"

\* How a panel and its request fit together.
PanelOK(c, v) ==
    /\ v.phase = "ready" => v.draft \in Texts /\ v.original \in Texts
    /\ v.saving <=> c.op \in {"save", "create"}
    /\ v.phase = "loading" <=> c.op = "load"
    /\ v.saving \/ v.conflict \/ v.bound => v.phase = "ready"
    /\ v.conflict => c = NoScript
    /\ c.op = "save" => v.bound /\ c.expect = v.sha
    /\ c.op = "create" => ~v.bound
    /\ v.bound => v.sha \in Texts

ScriptsOK == \A p \in Procs : ScriptOK(p, script[p])
PanelsOK == \A t \in Tabs : PanelOK(script[t], panel[t])
FoundOK == \A p \in Procs : script[p].found \in 0 .. Len(versions)
EnvelopesOK ==
    \A i \in 1 .. Len(queue) :
        queue[i].kind # "turn" => queue[i].text \in Texts /\ queue[i].sha \in Texts

Sound == TypeOK /\ ScriptsOK /\ PanelsOK /\ FoundOK /\ EnvelopesOK

LEMMA NormalText ==
  ASSUME NEW t \in Texts
  PROVE  /\ Normal(t) \in Texts /\ Ended[t] \in Texts /\ Unix[Ended[t]] = Normal(t)
         /\ Normal(Normal(t)) = Normal(t) /\ Unix[Normal(t)] = Normal(t)
<1>1. Ended[t] \in Texts /\ Unix[Ended[t]] \in Texts /\ Ended[Ended[t]] = Ended[t]
  BY TextAssumption
<1>2. Ended[Unix[Ended[t]]] = Unix[Ended[t]] /\ Unix[Unix[Ended[t]]] = Unix[Ended[t]]
  BY <1>1, TextAssumption
<1> QED
  BY <1>1, <1>2 DEF Normal

LEMMA CapturedText ==
  ASSUME NEW t \in Texts, NEW p
  PROVE  Captured(p, t) \in Texts
BY TextAssumption, NormalText DEF Captured

LEMMA SoundInit == Init => Sound
<1> SUFFICES ASSUME Init PROVE Sound
  OBVIOUS
<1>1. NoScript \in Script /\ Closed \in Panel
  BY DEF NoScript, Script, Closed, Panel
<1>2. TypeOK
  <2>1. Len(versions) = 0 /\ versions \in Seq(Version) /\ queue \in Seq(Envelope) /\ told = {}
    BY DEF Init
  <2>2. row \in [there : BOOLEAN, sha : Texts \cup {None}, complete : BOOLEAN, head : 0 .. Len(versions)]
    BY <2>1 DEF Init, NoRow
  <2> QED
    BY <1>1, <2>1, <2>2 DEF Init, TypeOK
<1>3. ScriptsOK /\ PanelsOK /\ FoundOK /\ EnvelopesOK
  BY DEF Init, ScriptsOK, PanelsOK, FoundOK, EnvelopesOK, ScriptOK, PanelOK, NoScript, Closed, None, Procs
<1> QED
  BY <1>2, <1>3 DEF Sound

\* The shapes are kept by a step that changes one script, and the panel of that script if it
\* has one.
LEMMA Update ==
  ASSUME Sound, NEW p \in Procs, NEW c \in Script, NEW v,
         ScriptOK(p, c), c.found \in 0 .. Len(versions),
         script' = [script EXCEPT ![p] = c],
         p \in Tabs => v \in Panel /\ PanelOK(c, v),
         \/ p \in Tabs /\ panel' = [panel EXCEPT ![p] = v]
         \/ (p \in Tabs => v = panel[p]) /\ panel' = panel
  PROVE  /\ script' \in [Procs -> Script] /\ panel' \in [Tabs -> Panel]
         /\ ScriptsOK' /\ PanelsOK'
         /\ \A q \in Procs : script'[q].found \in 0 .. Len(versions)
<1>1. script' \in [Procs -> Script]
  BY DEF Sound, TypeOK
<1>2. \A q \in Procs : ScriptOK(q, script'[q]) /\ script'[q].found \in 0 .. Len(versions)
  BY DEF Sound, TypeOK, ScriptsOK, FoundOK
<1>3. panel' \in [Tabs -> Panel]
  BY DEF Sound, TypeOK
<1>4. \A t \in Tabs : PanelOK(script'[t], panel'[t])
  BY DEF Sound, TypeOK, PanelsOK, Procs
<1> QED
  BY <1>1, <1>2, <1>3, <1>4 DEF ScriptsOK, PanelsOK

\* A step that changes no version, no queue and no run is sound when scripts and panels are.
LEMMA Elsewhere ==
  ASSUME Sound, UNCHANGED <<mirror, run>>, disk' \in Texts \cup {Gone},
         overlap' \in BOOLEAN, foreign' \subseteq Tabs,
         queue' \in Seq(Envelope), EnvelopesOK',
         script' \in [Procs -> Script], panel' \in [Tabs -> Panel],
         ScriptsOK', PanelsOK', \A q \in Procs : script'[q].found \in 0 .. Len(versions)
  PROVE  Sound'
BY DEF Sound, TypeOK, mirror, FoundOK

LEMMA NoScriptOK ==
  ASSUME NEW p \in Procs
  PROVE  NoScript \in Script /\ ScriptOK(p, NoScript) /\ NoScript.found \in 0 .. Len(versions)
         /\ NoScript.op = None
<1>1. NoScript.found = 0
  BY DEF NoScript
<1> QED
  BY <1>1 DEF NoScript, Script, ScriptOK, None, Sound, TypeOK

\* A request that fails leaves its panel and its script in order.
LEMMA FailsSound ==
  ASSUME Sound, NEW p \in Procs, NEW why, Fails(p, why), script[p].at # "idle"
  PROVE  /\ script' \in [Procs -> Script] /\ panel' \in [Tabs -> Panel]
         /\ ScriptsOK' /\ PanelsOK'
         /\ \A q \in Procs : script'[q].found \in 0 .. Len(versions)
         /\ UNCHANGED queue
<1>1. script' = [script EXCEPT ![p] = NoScript] /\ UNCHANGED queue
  BY DEF Fails
<1>2. p \in Tabs => Refused(p, why) \in Panel /\ PanelOK(NoScript, Refused(p, why))
  <2> SUFFICES ASSUME p \in Tabs PROVE Refused(p, why) \in Panel /\ PanelOK(NoScript, Refused(p, why))
    OBVIOUS
  <2>1. panel[p] \in Panel /\ PanelOK(script[p], panel[p])
    BY DEF Sound, TypeOK, PanelsOK
  <2>2. script[p].op = "load" \/ script[p].op \in {"save", "create"}
    BY DEF Sound, ScriptsOK, ScriptOK
  <2>3. Refused(p, why) \in Panel
    BY <2>1 DEF Refused, Panel, Closed
  <2>4. CASE script[p].op = "load"
    <3> DEFINE v == [Closed EXCEPT !.phase = "error"]
    <3>1. /\ v.phase = "error" /\ v.saving = FALSE /\ v.conflict = FALSE /\ v.bound = FALSE
      BY DEF Closed
    <3>2. PanelOK(NoScript, v)
      BY <3>1 DEF PanelOK, NoScript, None
    <3>3. Refused(p, why) = v
      BY <2>4 DEF Refused
    <3> QED
      BY <2>3, <3>2, <3>3
  <2>5. CASE script[p].op \in {"save", "create"}
    <3>1. Refused(p, why) = [panel[p] EXCEPT !.saving = FALSE, !.conflict = (why = "conflict")]
      BY <2>5 DEF Refused
    <3> QED
      BY <2>1, <2>3, <2>5, <3>1 DEF Panel, PanelOK, NoScript, None
  <2> QED
    BY <2>2, <2>3, <2>4, <2>5
<1>3. panel' = IF p \in Tabs THEN [panel EXCEPT ![p] = Refused(p, why)] ELSE panel
  BY DEF Fails
<1> QED
  BY <1>1, <1>2, <1>3, NoScriptOK, Update

\* The steps of a script that leave the queue alone and do not fail.
LEMMA MovesSound ==
  ASSUME Sound, NEW p \in Procs, NEW c \in Script, ScriptOK(p, c), c.found = script[p].found,
         p \in Tabs => PanelOK(c, panel[p]),
         script' = [script EXCEPT ![p] = c], UNCHANGED <<panel, queue, mirror, run>>,
         disk' \in Texts \cup {Gone}, overlap' \in BOOLEAN, foreign' \subseteq Tabs
  PROVE  Sound'
<1>1. c.found \in 0 .. Len(versions) /\ (p \in Tabs => panel[p] \in Panel)
  BY DEF Sound, TypeOK, FoundOK
<1>2. /\ script' \in [Procs -> Script] /\ panel' \in [Tabs -> Panel]
      /\ ScriptsOK' /\ PanelsOK'
      /\ \A q \in Procs : script'[q].found \in 0 .. Len(versions)
  BY <1>1, Update
<1>3. queue' \in Seq(Envelope) /\ EnvelopesOK'
  BY DEF Sound, TypeOK, EnvelopesOK
<1> QED
  BY <1>2, <1>3, Elsewhere

\* The steps of a script that fail.
LEMMA FailureSound ==
  ASSUME Sound, NEW p \in Procs, NEW why, Fails(p, why), script[p].at # "idle",
         UNCHANGED <<mirror, run, disk, overlap>>, foreign' \subseteq Tabs
  PROVE  Sound'
<1>1. queue' \in Seq(Envelope) /\ EnvelopesOK'
  BY DEF Sound, TypeOK, EnvelopesOK, Fails
<1>2. disk' \in Texts \cup {Gone} /\ overlap' \in BOOLEAN
  BY DEF Sound, TypeOK
<1> QED
  BY <1>1, <1>2, FailsSound, Elsewhere

LEMMA ChangesSound ==
  ASSUME Sound, NEW p, NEW text \in Texts \cup {Gone}, Changes(p, text)
  PROVE  disk' \in Texts \cup {Gone} /\ overlap' \in BOOLEAN /\ foreign' \subseteq Tabs
BY DEF Sound, TypeOK, Changes

\* A panel fits its script as long as the script goes on with the same request.
LEMMA SameRequest ==
  ASSUME Sound, NEW p \in Procs, NEW c, c.op = script[p].op, c.expect = script[p].expect,
         script[p].at # "idle"
  PROVE  p \in Tabs => PanelOK(c, panel[p])
<1> SUFFICES ASSUME p \in Tabs PROVE PanelOK(c, panel[p])
  OBVIOUS
<1>1. PanelOK(script[p], panel[p]) /\ script[p] # NoScript
  BY DEF Sound, PanelsOK, NoScript
<1> QED
  BY <1>1 DEF PanelOK

LEMMA OwnScript ==
  ASSUME Sound, NEW p \in Procs
  PROVE  script[p] \in Script /\ ScriptOK(p, script[p])
BY DEF Sound, TypeOK, ScriptsOK

LEMMA ReadsShaSound == ASSUME Sound, NEW p \in Procs, ReadsSha(p) PROVE Sound'
<1>1. CASE disk = Gone
  <2>1. Fails(p, "gone") /\ foreign' \subseteq Tabs
    BY <1>1 DEF ReadsSha, FileKept, Sound, TypeOK
  <2> QED
    BY <2>1, FailureSound DEF ReadsSha, FileKept
<1>2. CASE disk # Gone
  <2> DEFINE c == [script[p] EXCEPT !.at = "hashed", !.sha = disk]
  <2>1. disk \in Texts
    BY <1>2 DEF Sound, TypeOK
  <2>2. c \in Script /\ c.found = script[p].found /\ c.op = script[p].op /\ c.at = "hashed"
        /\ c.sha = disk /\ c.text = script[p].text /\ c.expect = script[p].expect
    BY <2>1, OwnScript DEF Script, Midway
  <2>3. script' = [script EXCEPT ![p] = c]
    BY <1>2 DEF ReadsSha
  <2> HIDE DEF c
  <2>4. ScriptOK(p, c)
    BY <2>1, <2>2, OwnScript DEF ReadsSha, ScriptOK, None
  <2>5. p \in Tabs => PanelOK(c, panel[p])
    BY <2>2, SameRequest DEF ReadsSha
  <2> QED
    BY <1>2, <2>2, <2>3, <2>4, <2>5, MovesSound DEF ReadsSha, FileKept, Sound, TypeOK
<1> QED
  BY <1>1, <1>2

\* The agent's script is done, and what it says goes to the queue.
LEMMA AgentDone ==
  ASSUME Sound, script' = [script EXCEPT ![Agent] = NoScript],
         queue' \in Seq(Envelope), EnvelopesOK', UNCHANGED <<mirror, run, disk, overlap, foreign, panel>>
  PROVE  Sound'
<1>1. Agent \in Procs /\ Agent \notin Tabs
  BY ProcessAssumption DEF Procs
<1>2. /\ script' \in [Procs -> Script] /\ panel' \in [Tabs -> Panel]
      /\ ScriptsOK' /\ PanelsOK'
      /\ \A q \in Procs : script'[q].found \in 0 .. Len(versions)
  BY <1>1, NoScriptOK, Update
<1> QED
  BY <1>2, Elsewhere DEF Sound, TypeOK

\* The queue grows by an envelope.
LEMMA Queued ==
  ASSUME Sound, NEW e \in Envelope, queue' = Append(queue, e),
         e.kind # "turn" => e.text \in Texts /\ e.sha \in Texts
  PROVE  queue' \in Seq(Envelope) /\ EnvelopesOK'
BY DEF Sound, TypeOK, EnvelopesOK

LEMMA ReadsTextSound == ASSUME Sound, NEW p \in Procs, ReadsText(p) PROVE Sound'
<1>1. CASE disk = Gone
  <2>1. Fails(p, "gone") /\ foreign' \subseteq Tabs
    BY <1>1 DEF ReadsText, FileKept, Sound, TypeOK
  <2> QED
    BY <2>1, FailureSound DEF ReadsText, FileKept
<1>2. CASE disk # Gone /\ p = Agent
  <2> DEFINE e == [kind |-> "read", text |-> Captured(p, disk), sha |-> script[p].sha,
                   complete |-> script[p].op # "page"]
  <2>1. Captured(p, disk) \in Texts /\ script[p].sha \in Texts
    BY <1>2, CapturedText, OwnScript DEF ReadsText, ScriptOK, Sound, TypeOK
  <2>2. e \in Envelope /\ e.text \in Texts /\ e.sha \in Texts
    BY <2>1 DEF Envelope
  <2>3. queue' = Append(queue, e) /\ script' = [script EXCEPT ![Agent] = NoScript]
    BY <1>2 DEF ReadsText
  <2> HIDE DEF e
  <2>4. queue' \in Seq(Envelope) /\ EnvelopesOK'
    BY <2>2, <2>3, Queued
  <2> QED
    BY <1>2, <2>3, <2>4, AgentDone DEF ReadsText, FileKept
<1>3. CASE disk # Gone /\ p # Agent
  <2> DEFINE c == [script[p] EXCEPT !.at = "done", !.text = Captured(p, disk)]
  <2>1. Captured(p, disk) \in Texts /\ p \in Tabs
    BY <1>3, CapturedText DEF Sound, TypeOK, Procs
  <2>2. c \in Script /\ c.found = script[p].found /\ c.op = script[p].op /\ c.at = "done"
        /\ c.sha = script[p].sha /\ c.text \in Texts /\ c.expect = script[p].expect
    BY <2>1, OwnScript DEF Script
  <2>3. script' = [script EXCEPT ![p] = c]
    BY <1>3 DEF ReadsText
  <2> HIDE DEF c
  <2>4. ScriptOK(p, c)
    BY <2>1, <2>2, OwnScript DEF ReadsText, ScriptOK, None
  <2>5. p \in Tabs => PanelOK(c, panel[p])
    BY <2>2, SameRequest DEF ReadsText
  <2> QED
    BY <1>3, <2>2, <2>3, <2>4, <2>5, MovesSound DEF ReadsText, FileKept, Sound, TypeOK
<1> QED
  BY <1>1, <1>2, <1>3

\* A script goes on to its next step.
LEMMA MovesOn ==
  ASSUME Sound, NEW p \in Procs, NEW at \in {"checked", "trashed", "written"}, Moves(p, at),
         script[p].op \in {"save", "create", "write"}, at = "checked" => script[p].op # "create",
         UNCHANGED <<panel, queue, mirror, run>>,
         disk' \in Texts \cup {Gone}, overlap' \in BOOLEAN, foreign' \subseteq Tabs
  PROVE  Sound'
<1> DEFINE c == [script[p] EXCEPT !.at = at]
<1>1. c \in Script /\ c.found = script[p].found /\ c.op = script[p].op /\ c.at = at
      /\ c.sha = script[p].sha /\ c.text = script[p].text /\ c.expect = script[p].expect
  BY OwnScript DEF Script, Midway
<1>2. script' = [script EXCEPT ![p] = c]
  BY DEF Moves
<1> HIDE DEF c
<1>3. ScriptOK(p, c) /\ script[p].at # "idle"
  BY <1>1, OwnScript DEF ScriptOK, None
<1>4. p \in Tabs => PanelOK(c, panel[p])
  BY <1>1, <1>3, SameRequest
<1> QED
  BY <1>1, <1>2, <1>3, <1>4, MovesSound

LEMMA ChecksSound == ASSUME Sound, NEW p \in Procs, Checks(p) PROVE Sound'
<1>1. disk' \in Texts \cup {Gone} /\ overlap' \in BOOLEAN /\ foreign' \subseteq Tabs
      /\ UNCHANGED <<mirror, run, disk, overlap>>
  BY DEF Checks, FileKept, Sound, TypeOK
<1>2. CASE disk = Gone
  <2>1. Moves(p, "trashed") /\ UNCHANGED <<panel, queue>>
    BY <1>2 DEF Checks
  <2> QED
    BY <1>1, <2>1, MovesOn DEF Checks
<1>3. CASE disk # Gone /\ script[p].op = "create"
  <2>1. Fails(p, "exists") /\ script[p].at # "idle"
    BY <1>3 DEF Checks
  <2> QED
    BY <1>1, <2>1, FailureSound
<1>4. CASE disk # Gone /\ script[p].op # "create" /\ ~ShaFits(p)
  <2>1. Fails(p, "conflict") /\ script[p].at # "idle"
    BY <1>4 DEF Checks
  <2> QED
    BY <1>1, <2>1, FailureSound
<1>5. CASE disk # Gone /\ script[p].op # "create" /\ ShaFits(p)
  <2>1. Moves(p, "checked") /\ UNCHANGED <<panel, queue>>
    BY <1>5 DEF Checks
  <2> QED
    BY <1>1, <1>5, <2>1, MovesOn DEF Checks
<1> QED
  BY <1>2, <1>3, <1>4, <1>5

LEMMA TrashesSound == ASSUME Sound, NEW p \in Procs, Trashes(p) PROVE Sound'
<1>1. CASE disk = Gone
  <2>1. Fails(p, "error") /\ script[p].at # "idle" /\ foreign' \subseteq Tabs
    BY <1>1 DEF Trashes, FileKept, Sound, TypeOK
  <2> QED
    BY <1>1, <2>1, FailureSound DEF Trashes, FileKept
<1>2. CASE disk # Gone
  <2>1. Changes(p, Gone) /\ Moves(p, "trashed") /\ UNCHANGED <<panel, queue, mirror, run>>
    BY <1>2 DEF Trashes
  <2>2. script[p].op \in {"save", "create", "write"}
    BY OwnScript DEF Trashes, ScriptOK
  <2> QED
    BY <2>1, <2>2, ChangesSound, MovesOn
<1> QED
  BY <1>1, <1>2

LEMMA WritesSound == ASSUME Sound, NEW p \in Procs, Writes(p) PROVE Sound'
<1>1. script[p].op \in {"save", "create", "write"} /\ script[p].text \in Texts
  BY OwnScript DEF Writes, ScriptOK
<1>2. Normal(script[p].text) \in Texts \cup {Gone}
  BY <1>1, NormalText
<1> QED
  BY <1>1, <1>2, ChangesSound, MovesOn DEF Writes

LEMMA HashesSound == ASSUME Sound, NEW p \in Procs, Hashes(p) PROVE Sound'
<1>1. CASE disk = Gone
  <2>1. Fails(p, "error") /\ script[p].at # "idle" /\ foreign' \subseteq Tabs
    BY <1>1 DEF Hashes, FileKept, Sound, TypeOK
  <2> QED
    BY <2>1, FailureSound DEF Hashes, FileKept
<1>2. CASE disk # Gone /\ p = Agent
  <2>1. script' = [script EXCEPT ![Agent] = NoScript]
        /\ UNCHANGED <<mirror, run, disk, overlap, foreign, panel>>
    BY <1>2 DEF Hashes, FileKept
  <2>2. disk \in Texts
    BY <1>2 DEF Sound, TypeOK
  <2>3. queue' = queue \o WriteEnvelope(script[p].text)
    BY <1>2 DEF Hashes
  <2>4. queue' \in Seq(Envelope) /\ EnvelopesOK'
    <3>1. CASE Ended[script[p].text] # disk
      <4>1. queue' = queue
        BY <2>3, <3>1 DEF Sound, TypeOK, WriteEnvelope
      <4> QED
        BY <4>1 DEF Sound, TypeOK, EnvelopesOK
    <3>2. CASE Ended[script[p].text] = disk
      <4> DEFINE e == [kind |-> "write", text |-> disk, sha |-> disk, complete |-> TRUE]
      <4>1. e \in Envelope /\ e.text \in Texts /\ e.sha \in Texts
        BY <2>2 DEF Envelope
      <4>2. WriteEnvelope(script[p].text) = <<e>>
        BY <3>2 DEF WriteEnvelope
      <4> HIDE DEF e
      <4>3. queue' = Append(queue, e)
        BY <2>3, <4>1, <4>2 DEF Sound, TypeOK
      <4> QED
        BY <4>1, <4>3, Queued
    <3> QED
      BY <3>1, <3>2
  <2> QED
    BY <2>1, <2>4, AgentDone
<1>3. CASE disk # Gone /\ p # Agent
  <2> DEFINE c == [script[p] EXCEPT !.at = "done", !.sha = disk]
  <2>1. disk \in Texts /\ p \in Tabs
    BY <1>3 DEF Sound, TypeOK, Procs
  <2>2. c \in Script /\ c.found = script[p].found /\ c.op = script[p].op /\ c.at = "done"
        /\ c.sha = disk /\ c.text = script[p].text /\ c.expect = script[p].expect
    BY <2>1, OwnScript DEF Script
  <2>3. script' = [script EXCEPT ![p] = c]
    BY <1>3 DEF Hashes
  <2> HIDE DEF c
  <2>4. ScriptOK(p, c)
    BY <2>1, <2>2, OwnScript DEF Hashes, ScriptOK, None
  <2>5. p \in Tabs => PanelOK(c, panel[p])
    BY <2>2, SameRequest DEF Hashes
  <2> QED
    BY <1>3, <2>2, <2>3, <2>4, <2>5, MovesSound DEF Hashes, FileKept, Sound, TypeOK
<1> QED
  BY <1>1, <1>2, <1>3

LEMMA KilledSound == ASSUME Sound, NEW p \in Procs, Killed(p) PROVE Sound'
<1>1. Fails(p, "timeout") /\ script[p].at # "idle" /\ foreign' \subseteq Tabs
  BY DEF Killed, Midway, Sound, TypeOK
<1> QED
  BY <1>1, FailureSound DEF Killed

-----------------------------------------------------------------------------

LEMMA OutsideSound == ASSUME Sound, Outside PROVE Sound'
<1>1. PICK text \in (Texts \cup {Gone}) \ {disk} : Changes(None, text)
  BY DEF Outside
<1>2. disk' \in Texts \cup {Gone} /\ overlap' \in BOOLEAN /\ foreign' \subseteq Tabs
  BY <1>1, ChangesSound
<1>3. UNCHANGED <<mirror, queue, run, panel, script>>
  BY DEF Outside
<1>4. /\ queue' \in Seq(Envelope) /\ EnvelopesOK' /\ ScriptsOK' /\ PanelsOK'
      /\ script' \in [Procs -> Script] /\ panel' \in [Tabs -> Panel]
      /\ \A q \in Procs : script'[q].found \in 0 .. Len(versions)
  BY <1>3 DEF Sound, TypeOK, EnvelopesOK, ScriptsOK, PanelsOK, FoundOK
<1> QED
  BY <1>2, <1>3, <1>4, Elsewhere

\* A step of a tab that changes its script and its panel only.
LEMMA TabStep ==
  ASSUME Sound, NEW t \in Tabs, NEW c \in Script, NEW v \in Panel,
         ScriptOK(t, c), c.found \in 0 .. Len(versions), PanelOK(c, v),
         script' = [script EXCEPT ![t] = c], panel' = [panel EXCEPT ![t] = v],
         UNCHANGED <<disk, overlap, foreign, mirror, queue, run>>
  PROVE  Sound'
<1>1. t \in Procs
  BY DEF Procs
<1>2. /\ script' \in [Procs -> Script] /\ panel' \in [Tabs -> Panel]
      /\ ScriptsOK' /\ PanelsOK'
      /\ \A q \in Procs : script'[q].found \in 0 .. Len(versions)
  BY <1>1, Update
<1> QED
  BY <1>2, Elsewhere DEF Sound, TypeOK, EnvelopesOK

\* A step of a tab that changes its panel only.
LEMMA PanelChanges ==
  ASSUME Sound, NEW t \in Tabs, NEW v \in Panel, PanelOK(script[t], v),
         panel' = [panel EXCEPT ![t] = v],
         UNCHANGED <<disk, overlap, foreign, mirror, queue, run, script>>
  PROVE  Sound'
<1>1. t \in Procs
  BY DEF Procs
<1>2. script[t] \in Script /\ ScriptOK(t, script[t]) /\ script[t].found \in 0 .. Len(versions)
  BY <1>1, OwnScript DEF Sound, FoundOK
<1>3. script' = [script EXCEPT ![t] = script[t]]
  BY <1>1 DEF Sound, TypeOK
<1> QED
  BY <1>2, <1>3, TabStep

LEMMA OwnPanel ==
  ASSUME Sound, NEW t \in Tabs
  PROVE  /\ panel[t] \in Panel /\ PanelOK(script[t], panel[t])
         /\ script[t] \in Script /\ ScriptOK(t, script[t]) /\ t \in Procs
BY OwnScript DEF Sound, TypeOK, PanelsOK, Procs

\* The script of a new request.
LEMMA Requested ==
  ASSUME Sound, NEW p \in Procs, NEW op, NEW text \in Texts \cup {None},
         NEW expect \in Texts \cup {None},
         \/ p \in Tabs /\ op \in {"load", "save", "create"}
         \/ p = Agent /\ op \in {"read", "page", "create", "write"},
         op \in {"save", "create", "write"} => text \in Texts
  PROVE  LET c == Asked(op, text, expect)
         IN  /\ c \in Script /\ ScriptOK(p, c) /\ c.found \in 0 .. Len(versions)
             /\ c.at = "asked" /\ c.op = op /\ c.expect = expect /\ c.text = text /\ c # NoScript
<1> DEFINE c == Asked(op, text, expect)
<1>1. c \in Script /\ c.found = 0 /\ c.at = "asked" /\ c.op = op /\ c.expect = expect
      /\ c.text = text /\ NoScript.at = "idle"
  BY DEF Asked, NoScript, Script, None
<1>2. 0 \in 0 .. Len(versions)
  BY DEF Sound, TypeOK
<1> HIDE DEF c
<1>3. ScriptOK(p, c)
  BY <1>1, ProcessAssumption DEF ScriptOK, None
<1>4. c # NoScript
  BY <1>1
<1> QED
  BY <1>1, <1>2, <1>3, <1>4 DEF c

LEMMA OpensSound == ASSUME Sound, NEW t \in Tabs, Opens(t) PROVE Sound'
<1> DEFINE c == Asked("load", None, None)
           v == [Closed EXCEPT !.phase = "loading"]
<1>1. c \in Script /\ ScriptOK(t, c) /\ c.found \in 0 .. Len(versions) /\ c.op = "load"
  BY OwnPanel, Requested
<1>2. v \in Panel /\ v.phase = "loading" /\ ~v.saving /\ ~v.conflict /\ ~v.bound
  BY DEF Panel, Closed
<1>3. script' = [script EXCEPT ![t] = c] /\ panel' = [panel EXCEPT ![t] = v]
      /\ UNCHANGED <<disk, overlap, foreign, mirror, queue, run>>
  BY DEF Opens, Asks
<1> HIDE DEF c, v
<1>4. PanelOK(c, v)
  BY <1>1, <1>2 DEF PanelOK
<1> QED
  BY <1>1, <1>2, <1>3, <1>4, TabStep

LEMMA DraftedOK ==
  ASSUME NEW text \in Texts
  PROVE  Drafted(text) \in Panel /\ PanelOK(NoScript, Drafted(text))
<1> DEFINE v == Drafted(text)
<1>1. v \in Panel /\ v.phase = "ready" /\ ~v.saving /\ ~v.conflict /\ ~v.bound
      /\ v.draft = text /\ v.original = text
  BY DEF Panel, Drafted, Closed
<1>2. NoScript.op = None
  BY DEF NoScript
<1> HIDE DEF v
<1>3. PanelOK(NoScript, v)
  BY <1>1, <1>2 DEF PanelOK, None
<1> QED
  BY <1>1, <1>3 DEF v

\* A panel that has no request has no script.
LEMMA NoRequest ==
  ASSUME Sound, NEW t \in Tabs, panel[t].phase # "loading", ~panel[t].saving
  PROVE  script[t] = NoScript
BY OwnPanel DEF PanelOK, ScriptOK

LEMMA OpensDraftSound == ASSUME Sound, NEW t \in Tabs, OpensDraft(t) PROVE Sound'
<1>1. PICK text \in Texts : panel' = [panel EXCEPT ![t] = Drafted(text)]
  BY DEF OpensDraft
<1>2. script[t] = NoScript
  BY OwnPanel, NoRequest DEF OpensDraft, PanelOK
<1> QED
  BY <1>1, <1>2, DraftedOK, PanelChanges DEF OpensDraft

LEMMA ReloadsDraftSound == ASSUME Sound, NEW t \in Tabs, ReloadsDraft(t) PROVE Sound'
<1>1. panel[t].block \in Texts /\ script[t] = NoScript
  BY OwnPanel DEF ReloadsDraft, Panel, PanelOK
<1> QED
  BY <1>1, DraftedOK, PanelChanges DEF ReloadsDraft

LEMMA TypesSound == ASSUME Sound, NEW t \in Tabs, Types(t) PROVE Sound'
<1>1. PICK text \in Texts \ {panel[t].draft} : panel' = [panel EXCEPT ![t].draft = text]
  BY DEF Types
<1> DEFINE v == [panel[t] EXCEPT !.draft = text]
<1>2. panel' = [panel EXCEPT ![t] = v]
  BY <1>1
<1>3. /\ v \in Panel /\ v.draft \in Texts /\ v.original = panel[t].original /\ v.phase = panel[t].phase
      /\ v.saving = panel[t].saving /\ v.conflict = panel[t].conflict /\ v.bound = panel[t].bound
      /\ v.sha = panel[t].sha
  BY OwnPanel DEF Panel
<1> HIDE DEF v
<1>4. PanelOK(script[t], v)
  BY <1>3, OwnPanel DEF PanelOK
<1> QED
  BY <1>2, <1>3, <1>4, PanelChanges DEF Types

LEMMA SavesSound == ASSUME Sound, NEW t \in Tabs, Saves(t) PROVE Sound'
<1> DEFINE v == [panel[t] EXCEPT !.saving = TRUE, !.conflict = FALSE]
           op == IF panel[t].bound THEN "save" ELSE "create"
           expect == IF panel[t].bound THEN panel[t].sha ELSE None
           c == Asked(op, panel[t].draft, expect)
<1>1. /\ v \in Panel /\ v.draft = panel[t].draft /\ v.original = panel[t].original
      /\ v.phase = "ready" /\ v.saving /\ ~v.conflict /\ v.bound = panel[t].bound
      /\ v.sha = panel[t].sha
  BY OwnPanel DEF Panel, Saves
<1>2. panel[t].draft \in Texts /\ expect \in Texts \cup {None} /\ op \in {"save", "create"}
  BY OwnPanel DEF Panel, PanelOK, Saves
<1>3. /\ c \in Script /\ ScriptOK(t, c) /\ c.found \in 0 .. Len(versions)
      /\ c.op = op /\ c.expect = expect /\ c # NoScript
  BY <1>2, OwnPanel, Requested
<1>4. script' = [script EXCEPT ![t] = c] /\ panel' = [panel EXCEPT ![t] = v]
      /\ UNCHANGED <<disk, overlap, foreign, mirror, queue, run>>
  BY DEF Saves, Asks
<1>5. PanelOK(c, v)
  <2>1. op = "save" <=> panel[t].bound
    OBVIOUS
  <2>2. op = "save" => expect = panel[t].sha
    OBVIOUS
  <2>3. op = "create" => ~panel[t].bound
    OBVIOUS
  <2> HIDE DEF c, v, op, expect
  <2> QED
    BY <1>1, <1>2, <1>3, <2>1, <2>2, <2>3, OwnPanel DEF PanelOK, Saves
<1> HIDE DEF c, v
<1> QED
  BY <1>1, <1>3, <1>4, <1>5, TabStep

LEMMA ClosesSound == ASSUME Sound, NEW t \in Tabs, Closes(t) PROVE Sound'
<1>1. Closed \in Panel /\ Closed.phase = "closed" /\ ~Closed.saving /\ ~Closed.conflict /\ ~Closed.bound
  BY DEF Closed, Panel
<1>2. NoScript.op = None
  BY DEF NoScript
<1>3. PanelOK(NoScript, Closed)
  BY <1>1, <1>2 DEF PanelOK, None
<1> QED
  BY <1>1, <1>3, PanelChanges DEF Closes

LEMMA LooksSound == ASSUME Sound, NEW t \in Tabs, Looks(t) PROVE Sound'
<1>1. PICK found \in Findable(script[t].sha) :
        script' = [script EXCEPT ![t].at = "looked", ![t].found = found]
  BY DEF Looks
<1> DEFINE c == [script[t] EXCEPT !.at = "looked", !.found = found]
<1>2. script' = [script EXCEPT ![t] = c]
  BY <1>1
<1>3. found \in 0 .. Len(versions)
  BY <1>1 DEF Findable, Holding, Sound, TypeOK
<1>4. c \in Script /\ c.found = found /\ c.op = script[t].op /\ c.at = "looked"
      /\ c.sha = script[t].sha /\ c.text = script[t].text /\ c.expect = script[t].expect
  <2>1. found \in Nat
    BY <1>3
  <2> QED
    BY <2>1, OwnPanel DEF Script
<1> HIDE DEF c
<1>5. ScriptOK(t, c) /\ script[t].at # "idle"
  BY <1>4, OwnPanel DEF Looks, ScriptOK, None
<1>6. PanelOK(c, panel[t])
  BY <1>4, <1>5, OwnPanel, SameRequest
<1>7. panel' = [panel EXCEPT ![t] = panel[t]]
  BY DEF Looks, Sound, TypeOK
<1> QED
  BY <1>2, <1>3, <1>4, <1>5, <1>6, <1>7, OwnPanel, TabStep DEF Looks

\* What the mirror keeps to, by itself.
MirrorOK ==
    /\ versions \in Seq(Version)
    /\ row \in [there : BOOLEAN, sha : Texts \cup {None}, complete : BOOLEAN, head : 0 .. Len(versions)]
    /\ told \subseteq DOMAIN versions

\* A text is recorded: the mirror stays in order and loses no version.
LEMMA RecordsOK ==
  ASSUME Sound, NEW found \in 0 .. Len(versions), NEW text \in Texts, NEW sha \in Texts,
         NEW author \in {"agent", "user"}, NEW source \in {"read", "write"},
         Records(found, text, sha, author, source)
  PROVE  MirrorOK' /\ Len(versions) \in Nat /\ Len(versions') \in Nat /\ Len(versions') >= Len(versions)
<1> DEFINE new == [sha |-> sha, text |-> text, by |-> author, source |-> source]
<1>1. new \in Version /\ versions \in Seq(Version) /\ told \subseteq DOMAIN versions /\ told' = told
  BY DEF Version, Sound, TypeOK, Records
<1>2. CASE found # 0
  <2>1. versions' = versions /\ row' = [there |-> TRUE, sha |-> sha, complete |-> TRUE, head |-> found]
    BY <1>2 DEF Records
  <2> QED
    BY <1>1, <2>1 DEF MirrorOK
<1>3. CASE found = 0
  <2>1. /\ versions' = Append(versions, new)
        /\ row' = [there |-> TRUE, sha |-> sha, complete |-> TRUE, head |-> Len(versions) + 1]
    BY <1>3 DEF Records
  <2> HIDE DEF new
  <2>2. versions' \in Seq(Version) /\ Len(versions') = Len(versions) + 1
        /\ DOMAIN versions \subseteq DOMAIN versions' /\ Len(versions) \in Nat
    BY <1>1, <2>1
  <2> QED
    BY <1>1, <2>1, <2>2 DEF MirrorOK
<1> QED
  BY <1>2, <1>3

LEMMA FindableOK ==
  ASSUME Sound, NEW sha, NEW found \in Findable(sha)
  PROVE  found \in 0 .. Len(versions)
BY DEF Findable, Holding, Sound, TypeOK

\* A promotion or a failed one.
LEMMA MirrorSound ==
  ASSUME Sound, MirrorOK', Len(versions) \in Nat, Len(versions') \in Nat, Len(versions') >= Len(versions),
         UNCHANGED <<disk, overlap, foreign, run, panel, script>>,
         queue' \in Seq(Envelope), EnvelopesOK'
  PROVE  Sound'
<1>1. TypeOK'
  BY DEF Sound, TypeOK, MirrorOK
<1>2. ScriptsOK' /\ PanelsOK' /\ FoundOK'
  BY DEF Sound, ScriptsOK, PanelsOK, FoundOK
<1> QED
  BY <1>1, <1>2 DEF Sound

LEMMA MirrorKept ==
  ASSUME Sound, UNCHANGED mirror
  PROVE  MirrorOK' /\ Len(versions) \in Nat /\ Len(versions') \in Nat /\ Len(versions') >= Len(versions)
BY DEF Sound, TypeOK, mirror, MirrorOK

\* What the panel holds after a failure or an answer.
LEMMA AnswersOK ==
  ASSUME Sound, NEW t \in Tabs, script[t].at \in {"done", "looked"}, NEW v,
         \/ v = Refused(t, "error")
         \/ script[t].op = "load" /\ v = RefreshAnswer(t)
         \/ script[t].op # "load" /\ v = SaveAnswer(t)
  PROVE  v \in Panel /\ PanelOK(NoScript, v)
<1>1. /\ panel[t] \in Panel /\ PanelOK(script[t], panel[t]) /\ script[t].sha \in Texts
      /\ script[t].text \in Texts /\ script[t].op \in {"load", "save", "create"} /\ NoScript.op = None
  BY OwnPanel DEF ScriptOK, NoScript, None
<1>2. CASE v = Refused(t, "error") /\ script[t].op = "load"
  <2>1. v = [Closed EXCEPT !.phase = "error"]
    BY <1>2 DEF Refused
  <2>2. v \in Panel /\ v.phase = "error" /\ ~v.saving /\ ~v.conflict /\ ~v.bound
    BY <2>1 DEF Closed, Panel
  <2> QED
    BY <1>1, <2>2 DEF PanelOK, None
<1>3. CASE v = Refused(t, "error") /\ script[t].op # "load"
  <2>1. v = [panel[t] EXCEPT !.saving = FALSE, !.conflict = FALSE]
    BY <1>3 DEF Refused
  <2>2. /\ v \in Panel /\ v.phase = panel[t].phase /\ ~v.saving /\ ~v.conflict
        /\ v.bound = panel[t].bound /\ v.sha = panel[t].sha /\ v.draft = panel[t].draft
        /\ v.original = panel[t].original
    BY <1>1, <2>1 DEF Panel
  <2>3. NoScript.op \notin {"load", "save", "create"} /\ panel[t].phase # "loading"
    BY <1>1, <1>3 DEF PanelOK, None
  <2>4. /\ v.phase = "ready" => v.draft \in Texts /\ v.original \in Texts
        /\ v.bound => v.phase = "ready" /\ v.sha \in Texts
    BY <1>1, <2>2 DEF PanelOK
  <2>5. PanelOK(NoScript, v)
    BY <2>2, <2>3, <2>4 DEF PanelOK
  <2> QED BY <2>2, <2>5
<1>4. CASE v = RefreshAnswer(t)
  <2>1. /\ v \in Panel /\ v.phase = "ready" /\ ~v.saving /\ ~v.conflict
        /\ v.bound /\ v.sha = script[t].sha /\ v.draft = script[t].text /\ v.original = script[t].text
    <3>1. v = [phase |-> "ready", block |-> None, bound |-> TRUE, sha |-> script[t].sha,
               original |-> script[t].text, draft |-> script[t].text, saving |-> FALSE, conflict |-> FALSE]
      BY <1>4 DEF RefreshAnswer, Closed
    <3> QED BY <1>1, <3>1 DEF Panel
  <2>2. NoScript.op \notin {"load", "save", "create"}
    BY <1>1 DEF None
  <2>3. PanelOK(NoScript, v)
    BY <1>1, <2>1, <2>2 DEF PanelOK
  <2> QED BY <2>1, <2>3
<1>5. CASE script[t].op # "load" /\ v = SaveAnswer(t)
  <2>1. Untouched(t) \in Texts /\ Ended[script[t].text] \in Texts /\ panel[t].phase = "ready"
    BY <1>1, <1>5, NormalText DEF Untouched, PanelOK
  <2>2. /\ v \in Panel /\ v.phase = "ready" /\ ~v.saving /\ ~v.conflict
        /\ v.bound /\ v.sha = script[t].sha /\ v.draft = Untouched(t)
        /\ v.original = Ended[script[t].text]
    BY <1>1, <1>5, <2>1 DEF SaveAnswer, NewSha, Panel
  <2> QED
    BY <1>1, <2>1, <2>2 DEF PanelOK, None
<1> QED
  BY <1>2, <1>3, <1>4, <1>5

\* What a request that lands does: to the panel, to its checksum's standing and to the mirror.
LEMMA Landed ==
  ASSUME Sound, NEW t \in Tabs, Lands(t)
  PROVE  \E v : /\ panel' = [panel EXCEPT ![t] = v]
                /\ \/ v = Refused(t, "error") /\ foreign' = foreign \cup {t}
                   \/ /\ foreign' = IF disk = script[t].sha THEN foreign \ {t} ELSE foreign
                      /\ \/ script[t].op = "load" /\ v = RefreshAnswer(t)
                         \/ script[t].op # "load" /\ v = SaveAnswer(t)
                /\ \/ UNCHANGED mirror
                   \/ \E found \in 0 .. Len(versions) :
                         Records(found, Stored(t), script[t].sha,
                                 IF script[t].op = "load" THEN "agent" ELSE "user",
                                 IF script[t].op = "load" THEN "read" ELSE "write")
<1>1. PICK outcome \in {"answered", "lost", "failed"} :
        /\ IF outcome = "failed" THEN UNCHANGED mirror
           ELSE \E found \in IF script[t].op = "create" THEN Findable(script[t].sha)
                             ELSE {script[t].found} :
                   Records(found, Stored(t), script[t].sha,
                           IF script[t].op = "load" THEN "agent" ELSE "user",
                           IF script[t].op = "load" THEN "read" ELSE "write")
        /\ panel' = [panel EXCEPT ![t] =
              IF outcome # "answered" THEN Refused(t, "error")
              ELSE IF script[t].op = "load" THEN RefreshAnswer(t) ELSE SaveAnswer(t)]
        /\ foreign' = IF outcome # "answered" THEN foreign \cup {t}
                      ELSE IF disk = script[t].sha THEN foreign \ {t}
                      ELSE foreign
  BY DEF Lands
<1>2. \/ UNCHANGED mirror
      \/ \E found \in 0 .. Len(versions) :
            Records(found, Stored(t), script[t].sha,
                    IF script[t].op = "load" THEN "agent" ELSE "user",
                    IF script[t].op = "load" THEN "read" ELSE "write")
  <2>1. script[t].found \in 0 .. Len(versions)
    BY OwnPanel DEF Sound, FoundOK
  <2> QED
    BY <1>1, <2>1, FindableOK
<1>3. CASE outcome # "answered"
  <2>1. panel' = [panel EXCEPT ![t] = Refused(t, "error")] /\ foreign' = foreign \cup {t}
    BY <1>1, <1>3
  <2> QED
    BY <1>2, <2>1
<1>4. CASE outcome = "answered" /\ script[t].op = "load"
  <2>1. panel' = [panel EXCEPT ![t] = RefreshAnswer(t)]
        /\ foreign' = IF disk = script[t].sha THEN foreign \ {t} ELSE foreign
    BY <1>1, <1>4
  <2> QED
    BY <1>2, <1>4, <2>1
<1>5. CASE outcome = "answered" /\ script[t].op # "load"
  <2>1. panel' = [panel EXCEPT ![t] = SaveAnswer(t)]
        /\ foreign' = IF disk = script[t].sha THEN foreign \ {t} ELSE foreign
    BY <1>1, <1>5
  <2> QED
    BY <1>2, <1>5, <2>1
<1> QED
  BY <1>3, <1>4, <1>5

LEMMA LandsSound == ASSUME Sound, NEW t \in Tabs, Lands(t) PROVE Sound'
<1>1. script' = [script EXCEPT ![t] = NoScript] /\ UNCHANGED <<disk, overlap, queue, run>>
      /\ script[t].at \in {"done", "looked"}
  BY DEF Lands
<1>2. PICK v : /\ panel' = [panel EXCEPT ![t] = v]
               /\ \/ v = Refused(t, "error") /\ foreign' = foreign \cup {t}
                  \/ /\ foreign' = IF disk = script[t].sha THEN foreign \ {t} ELSE foreign
                     /\ \/ script[t].op = "load" /\ v = RefreshAnswer(t)
                        \/ script[t].op # "load" /\ v = SaveAnswer(t)
               /\ \/ UNCHANGED mirror
                  \/ \E found \in 0 .. Len(versions) :
                        Records(found, Stored(t), script[t].sha,
                                IF script[t].op = "load" THEN "agent" ELSE "user",
                                IF script[t].op = "load" THEN "read" ELSE "write")
  BY Landed
<1>3. v \in Panel /\ PanelOK(NoScript, v)
  BY <1>1, <1>2, AnswersOK
<1>4. foreign' \subseteq Tabs
  BY <1>2 DEF Sound, TypeOK
<1>5. /\ script' \in [Procs -> Script] /\ panel' \in [Tabs -> Panel] /\ ScriptsOK' /\ PanelsOK'
      /\ \A q \in Procs : script'[q].found \in 0 .. Len(versions)
  BY <1>1, <1>2, <1>3, OwnPanel, NoScriptOK, Update
<1>6. MirrorOK' /\ Len(versions) \in Nat /\ Len(versions') \in Nat /\ Len(versions') >= Len(versions)
  <2>1. script[t].sha \in Texts /\ Stored(t) \in Texts
    BY <1>1, OwnPanel, NormalText DEF ScriptOK, Stored
  <2> QED
    BY <1>2, <2>1, MirrorKept, RecordsOK
<1>7. FoundOK'
  BY <1>5, <1>6 DEF FoundOK
<1>8. TypeOK' /\ EnvelopesOK'
  BY <1>1, <1>4, <1>5, <1>6 DEF Sound, TypeOK, MirrorOK, EnvelopesOK
<1> QED
  BY <1>5, <1>7, <1>8 DEF Sound

-----------------------------------------------------------------------------

LEMMA RunStartsSound == ASSUME Sound, RunStarts PROVE Sound'
<1>1. EditToTell \in Texts \cup {None}
  <2> SUFFICES ASSUME row.head # 0 PROVE versions[row.head].text \in Texts
    BY DEF EditToTell
  <2>1. row.head \in 1 .. Len(versions) /\ versions \in Seq(Version)
    BY DEF Sound, TypeOK
  <2>2. versions[row.head] \in Version
    BY <2>1
  <2> QED
    BY <2>2 DEF Version
<1>2. run' \in [on : BOOLEAN, given : Texts \cup {None}]
  BY <1>1 DEF RunStarts
<1> QED
  BY <1>2 DEF RunStarts, Sound, TypeOK, mirror, ScriptsOK, PanelsOK, FoundOK, EnvelopesOK

LEMMA CallsSound == ASSUME Sound, Calls PROVE Sound'
<1>1. PICK call \in [op : {"read", "page"}, text : {None}, expect : {None}]
                    \cup [op : {"create"}, text : Texts, expect : {None}]
                    \cup [op : {"write"}, text : Texts, expect : {None, row.sha}] :
          script' = [script EXCEPT ![Agent] = Asked(call.op, call.text, call.expect)]
  BY DEF Calls
<1>2. Agent \in Procs /\ Agent \notin Tabs
  BY ProcessAssumption DEF Procs
<1> DEFINE c == Asked(call.op, call.text, call.expect)
<1>3. /\ call.op \in {"read", "page", "create", "write"} /\ call.text \in Texts \cup {None}
      /\ call.expect \in Texts \cup {None}
      /\ call.op \in {"save", "create", "write"} => call.text \in Texts
  BY <1>1 DEF Sound, TypeOK
<1>4. c \in Script /\ ScriptOK(Agent, c) /\ c.found \in 0 .. Len(versions)
  BY <1>2, <1>3, Requested
<1> HIDE DEF c
<1>5. script' = [script EXCEPT ![Agent] = c] /\ UNCHANGED <<disk, overlap, foreign, mirror, queue, run, panel>>
  BY <1>1 DEF c, Calls
<1>6. /\ script' \in [Procs -> Script] /\ panel' \in [Tabs -> Panel] /\ ScriptsOK' /\ PanelsOK'
      /\ \A q \in Procs : script'[q].found \in 0 .. Len(versions)
  BY <1>2, <1>4, <1>5, Update
<1> QED
  BY <1>5, <1>6, Elsewhere DEF Sound, TypeOK, EnvelopesOK

LEMMA SpeaksSound == ASSUME Sound, Speaks PROVE Sound'
<1> DEFINE e == [kind |-> "turn", text |-> None, sha |-> None, complete |-> FALSE]
<1>1. e \in Envelope /\ e.kind = "turn"
  BY DEF Envelope
<1>2. queue' = Append(queue, e)
  BY DEF Speaks
<1> HIDE DEF e
<1>3. queue' \in Seq(Envelope) /\ EnvelopesOK'
  BY <1>1, <1>2, Queued
<1> QED
  BY <1>3, MirrorKept, MirrorSound DEF Speaks

\* What follows the head of the queue, and the head itself.
LEMMA QueueTail ==
  ASSUME Sound, queue # <<>>, queue' = Tail(queue)
  PROVE  /\ queue' \in Seq(Envelope) /\ EnvelopesOK'
         /\ Head(queue) \in Envelope /\ 1 \in 1 .. Len(queue) /\ Head(queue) = queue[1]
         /\ Head(queue).kind # "turn" => Head(queue).text \in Texts /\ Head(queue).sha \in Texts
<1>1. queue \in Seq(Envelope) /\ Len(queue) \in Nat /\ Len(queue) # 0
  BY DEF Sound, TypeOK
<1>2. queue' \in Seq(Envelope) /\ Len(queue') = Len(queue) - 1
      /\ \A i \in 1 .. Len(queue') : queue'[i] = queue[i + 1] /\ i + 1 \in 1 .. Len(queue)
  BY <1>1
<1>3. Head(queue) = queue[1] /\ 1 \in 1 .. Len(queue)
  BY <1>1
<1> QED
  BY <1>1, <1>2, <1>3 DEF Sound, EnvelopesOK

LEMMA PersistsSound == ASSUME Sound, Persists PROVE Sound'
<1>1. queue' \in Seq(Envelope) /\ EnvelopesOK'
  BY QueueTail DEF Persists
<1>2. UNCHANGED <<disk, overlap, foreign, run, panel, script>>
  BY DEF Persists
<1>3. MirrorOK' /\ Len(versions) \in Nat /\ Len(versions') \in Nat /\ Len(versions') >= Len(versions)
  <2>1. CASE StoresTurn
    BY <2>1 DEF StoresTurn, Sound, TypeOK, MirrorOK
  <2>2. CASE Head(queue).kind # "turn" /\ Promotes(Head(queue))
    <3> DEFINE e == Head(queue)
    <3>1. e \in Envelope /\ e.text \in Texts /\ e.sha \in Texts /\ e.kind \in {"read", "write"}
      BY <2>2, QueueTail DEF Persists, Envelope
    <3> HIDE DEF e
    <3>2. CASE e.complete
      <4>1. PICK found \in Findable(e.sha) : Records(found, e.text, e.sha, "agent", e.kind)
        BY <2>2, <3>2 DEF e, Promotes
      <4> QED
        BY <3>1, <4>1, FindableOK, RecordsOK
    <3>3. CASE ~e.complete
      <4>1. /\ row' = [there |-> TRUE, sha |-> e.sha, complete |-> FALSE, head |-> row.head]
            /\ UNCHANGED <<versions, told>>
        BY <2>2, <3>3 DEF e, Promotes
      <4> QED
        BY <3>1, <4>1 DEF Sound, TypeOK, MirrorOK
    <3> QED
      BY <3>2, <3>3
  <2>3. CASE UNCHANGED mirror
    BY <2>3, MirrorKept
  <2> QED
    BY <2>1, <2>2, <2>3 DEF Persists
<1> QED
  BY <1>1, <1>2, <1>3, MirrorSound

LEMMA RunEndsSound == ASSUME Sound, RunEnds PROVE Sound'
BY DEF RunEnds, Sound, TypeOK, mirror, ScriptsOK, PanelsOK, FoundOK, EnvelopesOK

LEMMA SoundStep == Sound /\ [Next]_vars => Sound'
<1> SUFFICES ASSUME Sound, [Next]_vars PROVE Sound'
  OBVIOUS
<1>1. ASSUME NEW p \in Procs, ScriptStep(p) PROVE Sound'
  BY <1>1, ReadsShaSound, ReadsTextSound, ChecksSound, TrashesSound, WritesSound, HashesSound,
     KilledSound DEF ScriptStep
<1>2. ASSUME NEW t \in Tabs, PanelStep(t) PROVE Sound'
  BY <1>2, OpensSound, OpensDraftSound, ReloadsDraftSound, TypesSound, SavesSound, ClosesSound,
     LooksSound, LandsSound DEF PanelStep
<1>3. ASSUME Outside \/ RunStarts \/ Calls \/ Speaks \/ Persists \/ RunEnds PROVE Sound'
  BY <1>3, OutsideSound, RunStartsSound, CallsSound, SpeaksSound, PersistsSound, RunEndsSound
<1>4. ASSUME UNCHANGED vars PROVE Sound'
  BY <1>4 DEF vars, Sound, TypeOK, ScriptsOK, PanelsOK, FoundOK, EnvelopesOK
<1> QED
  BY <1>1, <1>2, <1>3, <1>4 DEF Next

\* Every variable keeps its type, for any panels, texts and bounds.
THEOREM ArtifactTypes == Spec => []TypeOK
<1>1. Sound => TypeOK
  BY DEF Sound
<1> QED
  BY <1>1, SoundInit, SoundStep, PTL DEF Spec

-----------------------------------------------------------------------------
(* What a user types during a save. *)

LEMMA SavingPanel ==
  ASSUME Sound, NEW t \in Tabs, panel[t].saving
  PROVE  /\ panel[t].phase = "ready" /\ ~panel[t].conflict /\ script[t] # NoScript
         /\ script[t].op \in {"save", "create"}
<1>1. PanelOK(script[t], panel[t]) /\ NoScript.op = None
  BY OwnPanel DEF NoScript
<1> QED
  BY <1>1 DEF PanelOK, None

\* A failed save changes neither the draft nor the text it is compared with.
LEMMA RefusedSave ==
  ASSUME Sound, NEW t \in Tabs, panel[t].saving, NEW why
  PROVE  Refused(t, why).draft = panel[t].draft
<1>1. Refused(t, why) = [panel[t] EXCEPT !.saving = FALSE, !.conflict = (why = "conflict")]
  BY SavingPanel DEF Refused
<1> QED
  BY <1>1, OwnPanel DEF Panel

LEMMA ScriptKeepsDraft ==
  ASSUME Sound, NEW t \in Tabs, panel[t].saving, NEW p \in Procs, ScriptStep(p)
  PROVE  panel'[t].draft = panel[t].draft
<1>1. panel' = panel \/ \E why : Fails(p, why)
  BY DEF ScriptStep, ReadsSha, ReadsText, Checks, Trashes, Writes, Hashes, Killed
<1>2. ASSUME NEW why, Fails(p, why), p = t PROVE panel'[t] = Refused(t, why)
  BY <1>2 DEF Fails, Sound, TypeOK
<1>3. ASSUME NEW why, Fails(p, why), p # t PROVE panel'[t] = panel[t]
  BY <1>3 DEF Fails, Sound, TypeOK
<1> QED
  BY <1>1, <1>2, <1>3, RefusedSave

LEMMA LandingKeepsDraft ==
  ASSUME Sound, NEW t \in Tabs, panel[t].saving, panel[t].draft # script[t].text, Lands(t)
  PROVE  panel'[t].draft = panel[t].draft
<1>1. PICK v : /\ panel' = [panel EXCEPT ![t] = v]
               /\ \/ v = Refused(t, "error")
                  \/ script[t].op = "load" /\ v = RefreshAnswer(t)
                  \/ script[t].op # "load" /\ v = SaveAnswer(t)
  BY Landed
<1>2. panel'[t] = v
  BY <1>1 DEF Sound, TypeOK
<1>3. v = SaveAnswer(t) => v.draft = panel[t].draft
  BY OwnPanel DEF SaveAnswer, Untouched, Panel
<1> QED
  BY <1>1, <1>2, <1>3, RefusedSave, SavingPanel

\* The other steps of a panel end no save.
LEMMA PanelKeepsSaving ==
  ASSUME Sound, NEW t \in Tabs, panel[t].saving, NEW u \in Tabs, PanelStep(u), u = t => ~Lands(u)
  PROVE  panel'[t].saving \/ panel'[t] = panel[t]
<1>1. panel[t].phase = "ready" /\ ~panel[t].conflict /\ script[t] # NoScript
  BY SavingPanel
<1>2. CASE u # t
  <2>1. \A v : panel' = [panel EXCEPT ![u] = v] => panel'[t] = panel[t]
    BY <1>2 DEF Sound, TypeOK
  <2>2. \A text : panel' = [panel EXCEPT ![u].draft = text] => panel'[t] = panel[t]
    BY <1>2 DEF Sound, TypeOK
  <2>3. panel' = [panel EXCEPT ![u].saving = TRUE, ![u].conflict = FALSE] => panel'[t] = panel[t]
    BY <1>2 DEF Sound, TypeOK
  <2>4. Lands(u) => panel'[t] = panel[t]
    BY <2>1, Landed
  <2> QED
    BY <2>1, <2>2, <2>3, <2>4
       DEF PanelStep, Opens, OpensDraft, ReloadsDraft, Types, Saves, Closes, Looks
<1>3. CASE u = t
  <2>1. Types(t) \/ Looks(t)
    BY <1>1, <1>3 DEF PanelStep, Opens, OpensDraft, ReloadsDraft, Saves, Closes
  <2>2. Types(t) => panel'[t].saving
    BY OwnPanel DEF Types, Sound, TypeOK, Panel
  <2> QED
    BY <2>1, <2>2 DEF Looks
<1> QED
  BY <1>2, <1>3

\* What a user types while a save is under way is never lost to its answer.
THEOREM ArtifactTypingSurvives == Spec => TypingSurvives
<1> DEFINE Typed == \A t \in Tabs :
               /\ panel[t].phase = "ready" /\ panel[t].saving /\ ~panel'[t].saving
               /\ panel[t].draft # script[t].text
               => panel'[t].draft = panel[t].draft
<1>1. Sound /\ [Next]_vars => [Typed]_vars
  <2> SUFFICES ASSUME Sound, Next, NEW t \in Tabs, panel[t].saving, ~panel'[t].saving,
                      panel[t].draft # script[t].text
               PROVE  panel'[t].draft = panel[t].draft
    OBVIOUS
  <2>1. ASSUME NEW p \in Procs, ScriptStep(p) PROVE panel'[t].draft = panel[t].draft
    BY <2>1, ScriptKeepsDraft
  <2>2. ASSUME NEW u \in Tabs, PanelStep(u) PROVE panel'[t].draft = panel[t].draft
    BY <2>2, LandingKeepsDraft, PanelKeepsSaving
  <2>3. Outside \/ RunStarts \/ Calls \/ Speaks \/ Persists \/ RunEnds => panel' = panel
    BY DEF Outside, RunStarts, Calls, Speaks, Persists, RunEnds
  <2> QED
    BY <2>1, <2>2, <2>3 DEF Next
<1> QED
  BY <1>1, SoundInit, SoundStep, PTL DEF Spec, TypingSurvives

-----------------------------------------------------------------------------
(* Conflicts. *)

\* What a panel and its request know of the file while no one else has been at it.
FreshOK(d, c, v) ==
    /\ ~v.conflict
    /\ c.at = "idle" /\ v.bound => d = v.sha
    /\ c.at = "asked" /\ c.op = "save" => d = c.expect
    /\ c.at = "hashed" => d = c.sha
    /\ c.at \in {"checked", "written"} => d # Gone
    /\ c.at \in {"done", "looked"} => d = c.sha

Fresh == \A t \in Tabs \ foreign : FreshOK(disk, script[t], panel[t])

\* A panel that is bound to no file, and saves no file it was bound to, knows nothing.
LEMMA FreshUnbound ==
  ASSUME NEW d, NEW c, NEW v, ~v.conflict, ~v.bound, c.at \in {"idle", "asked"}, c.op # "save"
  PROVE  FreshOK(d, c, v)
BY DEF FreshOK

LEMMA FreshFailure ==
  ASSUME Sound, NEW t \in Tabs, NEW why, why # "conflict", Fails(t, why),
         script[t].op # "save", script[t].at # "idle"
  PROVE  FreshOK(disk', script'[t], panel'[t])
<1>1. script'[t] = NoScript /\ panel'[t] = Refused(t, why) /\ NoScript.at = "idle" /\ NoScript.op = None
  BY OwnPanel DEF Fails, Sound, TypeOK, NoScript
<1>2. CASE script[t].op = "load"
  <2>1. panel'[t] = [Closed EXCEPT !.phase = "error"]
    BY <1>1, <1>2 DEF Refused
  <2>2. ~panel'[t].conflict /\ ~panel'[t].bound
    BY <2>1 DEF Closed
  <2> QED
    BY <1>1, <2>2, FreshUnbound DEF None
<1>3. CASE script[t].op # "load"
  <2>1. panel'[t] = [panel[t] EXCEPT !.saving = FALSE, !.conflict = (why = "conflict")]
    BY <1>1, <1>3 DEF Refused
  <2>2. panel'[t].bound = panel[t].bound /\ ~panel'[t].conflict
    BY <2>1, OwnPanel DEF Panel
  <2>3. script[t].op = "create"
    BY <1>3, OwnPanel DEF ScriptOK
  <2>4. ~panel[t].bound
    BY <2>3, OwnPanel DEF PanelOK
  <2> QED
    BY <1>1, <2>2, <2>4, FreshUnbound DEF None
<1> QED
  BY <1>2, <1>3

\* A script of a panel that goes on.
LEMMA FreshMove ==
  ASSUME Sound, NEW t \in Tabs, ~panel[t].conflict, NEW c, c.at \notin {"idle", "asked"},
         script' = [script EXCEPT ![t] = c], panel' = panel,
         c.at \in {"hashed", "done", "looked"} => disk' = c.sha,
         c.at \in {"checked", "written"} => disk' # Gone
  PROVE  FreshOK(disk', script'[t], panel'[t])
<1>1. script'[t] = c /\ panel'[t] = panel[t]
  BY OwnPanel DEF Sound, TypeOK
<1> QED
  BY <1>1 DEF FreshOK

LEMMA FreshScript ==
  ASSUME Sound, Fresh, NEW t \in Tabs, ScriptStep(t), t \notin foreign'
  PROVE  FreshOK(disk', script'[t], panel'[t])
<1>1. /\ panel[t] \in Panel /\ PanelOK(script[t], panel[t]) /\ script[t] \in Script
      /\ ScriptOK(t, script[t]) /\ t \in Procs /\ t # Agent
  BY OwnPanel, ProcessAssumption
<1>2. FreshOK(disk, script[t], panel[t]) /\ ~panel[t].conflict
  BY DEF Fresh, FreshOK, ScriptStep, ReadsSha, ReadsText, Checks, Trashes, Writes, Hashes, Killed,
         FileKept, Changes
<1>3. CASE ReadsSha(t)
  <2>1. CASE disk = Gone
    <3>1. Fails(t, "gone")
      BY <1>3, <2>1 DEF ReadsSha
    <3> QED
      BY <1>3, <3>1, FreshFailure DEF ReadsSha
  <2>2. CASE disk # Gone
    <3> DEFINE c == [script[t] EXCEPT !.at = "hashed", !.sha = disk]
    <3>1. script' = [script EXCEPT ![t] = c] /\ panel' = panel /\ disk' = disk
      BY <1>3, <2>2 DEF ReadsSha, FileKept
    <3>2. c.at = "hashed" /\ c.sha = disk
      BY <1>1 DEF Script
    <3> HIDE DEF c
    <3> QED
      BY <1>2, <3>1, <3>2, FreshMove
  <2> QED
    BY <2>1, <2>2
<1>4. CASE ReadsText(t)
  <2>1. disk = script[t].sha /\ disk # Gone
    BY <1>1, <1>2, <1>4, TextAssumption DEF FreshOK, ReadsText, ScriptOK
  <2> DEFINE c == [script[t] EXCEPT !.at = "done", !.text = Captured(t, disk)]
  <2>2. script' = [script EXCEPT ![t] = c] /\ panel' = panel /\ disk' = disk
    BY <1>1, <1>4, <2>1 DEF ReadsText, FileKept
  <2>3. c.at = "done" /\ c.sha = script[t].sha
    BY <1>1 DEF Script
  <2> HIDE DEF c
  <2> QED
    BY <1>2, <2>1, <2>2, <2>3, FreshMove
<1>5. ASSUME NEW at \in {"checked", "trashed", "written"}, Moves(t, at), panel' = panel,
             at # "trashed" => disk' # Gone
      PROVE  FreshOK(disk', script'[t], panel'[t])
  <2> DEFINE c == [script[t] EXCEPT !.at = at]
  <2>1. script' = [script EXCEPT ![t] = c]
    BY <1>5 DEF Moves
  <2>2. c.at = at
    BY <1>1 DEF Script
  <2> HIDE DEF c
  <2> QED
    BY <1>2, <1>5, <2>1, <2>2, FreshMove
<1>6. CASE Checks(t)
  <2>1. disk' = disk /\ script[t].at = "asked"
    BY <1>6 DEF Checks, FileKept
  <2>2. CASE disk = Gone
    <3>1. Moves(t, "trashed") /\ panel' = panel
      BY <1>6, <2>2 DEF Checks
    <3> QED
      BY <1>5, <3>1
  <2>3. CASE disk # Gone /\ script[t].op = "create"
    <3>1. Fails(t, "exists")
      BY <1>6, <2>3 DEF Checks
    <3> QED
      BY <2>1, <2>3, <3>1, FreshFailure
  <2>4. CASE disk # Gone /\ script[t].op # "create"
    <3>1. script[t].op = "save"
      BY <1>1, <1>6, <2>4 DEF Checks, ScriptOK
    <3>2. ShaFits(t)
      BY <1>2, <2>1, <3>1 DEF FreshOK, ShaFits
    <3>3. Moves(t, "checked") /\ panel' = panel
      BY <1>6, <2>4, <3>2 DEF Checks
    <3> QED
      BY <1>5, <2>1, <2>4, <3>3
  <2> QED
    BY <2>2, <2>3, <2>4
<1>7. CASE Trashes(t)
  <2>1. disk # Gone
    BY <1>2, <1>7 DEF FreshOK, Trashes
  <2>2. Moves(t, "trashed") /\ panel' = panel
    BY <1>7, <2>1 DEF Trashes
  <2> QED
    BY <1>5, <2>2
<1>8. CASE Writes(t)
  <2>1. script[t].text \in Texts /\ disk' = Normal(script[t].text)
    BY <1>1, <1>8 DEF Writes, Changes, ScriptOK
  <2>2. disk' # Gone
    BY <2>1, NormalText, TextAssumption
  <2> QED
    BY <1>5, <1>8, <2>2 DEF Writes
<1>9. CASE Hashes(t)
  <2>1. disk # Gone /\ disk' = disk
    BY <1>2, <1>9 DEF FreshOK, Hashes, FileKept
  <2> DEFINE c == [script[t] EXCEPT !.at = "done", !.sha = disk]
  <2>2. script' = [script EXCEPT ![t] = c] /\ panel' = panel
    BY <1>1, <1>9, <2>1 DEF Hashes
  <2>3. c.at = "done" /\ c.sha = disk
    BY <1>1 DEF Script
  <2> HIDE DEF c
  <2> QED
    BY <1>2, <2>1, <2>2, <2>3, FreshMove
<1>10. ~Killed(t)
  BY DEF Killed
<1> QED
  BY <1>3, <1>4, <1>6, <1>7, <1>8, <1>9, <1>10 DEF ScriptStep

\* A panel that shows a block, or nothing, with no request or one to load.
LEMMA FreshReset ==
  ASSUME Sound, NEW t \in Tabs, NEW v, ~v.conflict, ~v.bound, panel' = [panel EXCEPT ![t] = v],
         \/ script' = script /\ script[t] = NoScript
         \/ script' = [script EXCEPT ![t] = Asked("load", None, None)]
  PROVE  FreshOK(disk', script'[t], panel'[t])
<1>1. panel'[t] = v
  BY OwnPanel DEF Sound, TypeOK
<1>2. script'[t] = NoScript \/ script'[t] = Asked("load", None, None)
  BY OwnPanel DEF Sound, TypeOK
<1>3. NoScript.at = "idle" /\ NoScript.op # "save"
  BY DEF NoScript, None
<1>4. Asked("load", None, None).at = "asked" /\ Asked("load", None, None).op = "load"
  BY DEF NoScript, Asked
<1> QED
  BY <1>1, <1>2, <1>3, <1>4, FreshUnbound

LEMMA DraftedUnbound ==
  ASSUME NEW text
  PROVE  ~Drafted(text).conflict /\ ~Drafted(text).bound /\ ~Closed.conflict /\ ~Closed.bound
BY DEF Drafted, Closed

LEMMA FreshLanding ==
  ASSUME Sound, Fresh, NEW t \in Tabs, Lands(t), t \notin foreign'
  PROVE  FreshOK(disk', script'[t], panel'[t])
<1>1. PICK v : /\ panel' = [panel EXCEPT ![t] = v]
               /\ foreign' = IF disk = script[t].sha THEN foreign \ {t} ELSE foreign
               /\ \/ script[t].op = "load" /\ v = RefreshAnswer(t)
                  \/ script[t].op # "load" /\ v = SaveAnswer(t)
  BY Landed
<1>2. script'[t] = NoScript /\ panel'[t] = v /\ disk' = disk
  BY <1>1, OwnPanel DEF Lands, Sound, TypeOK
<1>3. ~v.conflict /\ v.sha = script[t].sha
  BY <1>1, OwnPanel DEF RefreshAnswer, SaveAnswer, NewSha, Closed, Panel
<1>4. disk = script[t].sha
  BY <1>1 DEF Fresh, FreshOK, Lands
<1>5. NoScript.at = "idle" /\ NoScript.op = None
  BY DEF NoScript
<1> QED
  BY <1>2, <1>3, <1>4, <1>5 DEF FreshOK, None

LEMMA FreshPanel ==
  ASSUME Sound, Fresh, NEW t \in Tabs, PanelStep(t), t \notin foreign'
  PROVE  FreshOK(disk', script'[t], panel'[t])
<1>1. CASE Opens(t)
  <2> DEFINE v == [Closed EXCEPT !.phase = "loading"]
  <2>1. ~v.conflict /\ ~v.bound
    BY DEF Closed
  <2>2. panel' = [panel EXCEPT ![t] = v] /\ script' = [script EXCEPT ![t] = Asked("load", None, None)]
    BY <1>1 DEF Opens, Asks
  <2> HIDE DEF v
  <2> QED
    BY <2>1, <2>2, FreshReset
<1>2. CASE OpensDraft(t)
  <2>1. script[t] = NoScript /\ script' = script
    BY <1>2, OwnPanel, NoRequest DEF OpensDraft, PanelOK
  <2>2. PICK text \in Texts : panel' = [panel EXCEPT ![t] = Drafted(text)]
    BY <1>2 DEF OpensDraft
  <2> QED
    BY <2>1, <2>2, DraftedUnbound, FreshReset
<1>3. CASE ReloadsDraft(t)
  <2>1. script[t] = NoScript /\ script' = script /\ panel' = [panel EXCEPT ![t] = Drafted(panel[t].block)]
    BY <1>3, OwnPanel DEF ReloadsDraft, PanelOK
  <2> QED
    BY <2>1, DraftedUnbound, FreshReset
<1>4. CASE Types(t)
  <2>1. PICK text \in Texts \ {panel[t].draft} : panel' = [panel EXCEPT ![t].draft = text]
    BY <1>4 DEF Types
  <2>2. /\ panel'[t].conflict = panel[t].conflict /\ panel'[t].bound = panel[t].bound
        /\ panel'[t].sha = panel[t].sha
    BY <2>1, OwnPanel DEF Sound, TypeOK, Panel
  <2>3. UNCHANGED <<disk, script, foreign>>
    BY <1>4 DEF Types
  <2> QED
    BY <2>2, <2>3 DEF Fresh, FreshOK
<1>5. CASE Saves(t)
  <2>1. script[t] = NoScript /\ NoScript.at = "idle"
    BY <1>5, OwnPanel, NoRequest DEF Saves, NoScript
  <2>2. t \notin foreign /\ disk' = disk
    BY <1>5 DEF Saves
  <2>3. panel'[t].bound = panel[t].bound /\ panel'[t].sha = panel[t].sha /\ ~panel'[t].conflict
    BY <1>5, OwnPanel DEF Saves, Sound, TypeOK, Panel
  <2>4. /\ script'[t].at = "asked"
        /\ panel[t].bound => script'[t].expect = panel[t].sha
        /\ ~panel[t].bound => script'[t].op = "create"
    <3>1. script'[t] = IF panel[t].bound THEN Asked("save", panel[t].draft, panel[t].sha)
                       ELSE Asked("create", panel[t].draft, None)
      BY <1>5, OwnPanel DEF Saves, Asks, Sound, TypeOK
    <3>2. \A op, text, expect : /\ Asked(op, text, expect).at = "asked"
                                /\ Asked(op, text, expect).op = op
                                /\ Asked(op, text, expect).expect = expect
      BY DEF Asked, NoScript
    <3> QED
      BY <3>1, <3>2
  <2> QED
    BY <2>1, <2>2, <2>3, <2>4 DEF Fresh, FreshOK
<1>6. CASE Closes(t)
  <2>1. script[t] = NoScript /\ script' = script /\ panel' = [panel EXCEPT ![t] = Closed]
    BY <1>6 DEF Closes
  <2> QED
    BY <2>1, DraftedUnbound, FreshReset
<1>7. CASE Looks(t)
  <2>1. PICK found \in Findable(script[t].sha) :
          script' = [script EXCEPT ![t].at = "looked", ![t].found = found]
    BY <1>7 DEF Looks
  <2> DEFINE c == [script[t] EXCEPT !.at = "looked", !.found = found]
  <2>2. script' = [script EXCEPT ![t] = c] /\ UNCHANGED <<disk, panel, foreign>>
    BY <1>7, <2>1 DEF Looks
  <2>3. c.at = "looked" /\ c.sha = script[t].sha
    BY OwnPanel DEF Script
  <2> HIDE DEF c
  <2>4. ~panel[t].conflict /\ disk = script[t].sha
    BY <1>7, <2>2 DEF Fresh, FreshOK, Looks
  <2> QED
    BY <2>2, <2>3, <2>4, FreshMove
<1>8. CASE Lands(t)
  BY <1>8, FreshLanding
<1> QED
  BY <1>1, <1>2, <1>3, <1>4, <1>5, <1>6, <1>7, <1>8 DEF PanelStep

\* A process that a step does not touch keeps its script and its panel, and the step changes
\* the file only as Changes says.
LEMMA OthersScript ==
  ASSUME Sound, NEW q \in Procs, NEW p \in Procs, p # q, ScriptStep(p)
  PROVE  /\ script'[q] = script[q]
         /\ q \in Tabs => panel'[q] = panel[q]
         /\ \/ disk' = disk /\ overlap' = overlap /\ foreign \subseteq foreign'
            \/ \E text : Changes(p, text)
<1>1. \A c : script' = [script EXCEPT ![p] = c] => script'[q] = script[q]
  BY DEF Sound, TypeOK
<1>2. \A why : Fails(p, why) => script'[q] = script[q] /\ (q \in Tabs => panel'[q] = panel[q])
  BY <1>1 DEF Fails, Sound, TypeOK
<1>3. \A at : Moves(p, at) => script'[q] = script[q]
  BY DEF Moves, Sound, TypeOK
<1>4. CASE ReadsSha(p)
  BY <1>2, <1>4 DEF ReadsSha, FileKept, Sound, TypeOK
<1>5. CASE ReadsText(p)
  BY <1>1, <1>2, <1>5 DEF ReadsText, FileKept, Sound, TypeOK
<1>6. CASE Checks(p) \/ Trashes(p) \/ Writes(p)
  BY <1>2, <1>3, <1>6 DEF Checks, Trashes, Writes, FileKept
<1>7. CASE Hashes(p)
  BY <1>1, <1>2, <1>7 DEF Hashes, FileKept, Sound, TypeOK
<1>8. CASE Killed(p)
  BY <1>2, <1>8 DEF Killed
<1> QED
  BY <1>4, <1>5, <1>6, <1>7, <1>8 DEF ScriptStep

LEMMA OthersPanel ==
  ASSUME Sound, NEW q \in Procs, NEW u \in Tabs, u # q, PanelStep(u)
  PROVE  /\ script'[q] = script[q] /\ disk' = disk /\ overlap' = overlap
         /\ q \in Tabs => panel'[q] = panel[q]
         /\ q \in foreign => q \in foreign'
<1>1. u \in Procs
  BY DEF Procs
<1>2. \A c : script' = [script EXCEPT ![u] = c] => script'[q] = script[q]
  BY <1>1 DEF Sound, TypeOK
<1>3. \A v : panel' = [panel EXCEPT ![u] = v] => (q \in Tabs => panel'[q] = panel[q])
  BY DEF Sound, TypeOK
<1>4. CASE Opens(u) \/ OpensDraft(u) \/ ReloadsDraft(u) \/ Closes(u)
  BY <1>2, <1>3, <1>4 DEF Opens, OpensDraft, ReloadsDraft, Closes, Asks
<1>5. CASE Types(u) \/ Saves(u)
  BY <1>1, <1>2, <1>5 DEF Types, Saves, Asks, Sound, TypeOK
<1>6. CASE Looks(u)
  BY <1>1, <1>6 DEF Looks, Sound, TypeOK
<1>7. CASE Lands(u)
  <2>1. script'[q] = script[q] /\ disk' = disk /\ overlap' = overlap
    BY <1>2, <1>7 DEF Lands
  <2>2. (q \in Tabs => panel'[q] = panel[q]) /\ (q \in foreign => q \in foreign')
    BY <1>3, <1>7, Landed
  <2> QED
    BY <2>1, <2>2
<1> QED
  BY <1>4, <1>5, <1>6, <1>7 DEF PanelStep

LEMMA FreshStep == Sound /\ Fresh /\ [Next]_vars => Fresh'
<1> SUFFICES ASSUME Sound, Fresh, [Next]_vars, NEW t \in Tabs, t \notin foreign'
             PROVE  FreshOK(disk', script'[t], panel'[t])
  BY DEF Fresh
<1>1. ASSUME UNCHANGED <<disk, script, panel, foreign>> PROVE FreshOK(disk', script'[t], panel'[t])
  BY <1>1 DEF Fresh
<1>2. ASSUME NEW p \in Procs, ScriptStep(p) PROVE FreshOK(disk', script'[t], panel'[t])
  <2>1. p # t => \A text : ~Changes(p, text)
    BY DEF Changes
  <2>2. CASE p # t
    BY <1>2, <2>1, <2>2, OthersScript DEF Fresh, Procs
  <2> QED
    BY <1>2, <2>2, FreshScript
<1>3. ASSUME NEW u \in Tabs, PanelStep(u) PROVE FreshOK(disk', script'[t], panel'[t])
  <2>1. CASE u # t
    BY <1>3, <2>1, OthersPanel DEF Fresh, Procs
  <2> QED
    BY <1>3, <2>1, FreshPanel
<1>4. ~Outside
  <2>1. \A text : Changes(None, text) => t \in foreign'
    BY ProcessAssumption DEF Changes
  <2> QED
    BY <2>1 DEF Outside
<1>5. RunStarts \/ Calls \/ Speaks \/ Persists \/ RunEnds => UNCHANGED <<disk, script, panel, foreign>>
                                                            \/ Calls
  BY DEF RunStarts, Speaks, Persists, RunEnds
<1>6. ASSUME Calls PROVE FreshOK(disk', script'[t], panel'[t])
  <2>1. script'[t] = script[t] /\ UNCHANGED <<disk, panel, foreign>>
    BY <1>6, OwnPanel, ProcessAssumption DEF Calls, Sound, TypeOK, Procs
  <2> QED
    BY <2>1 DEF Fresh
<1> QED
  BY <1>1, <1>2, <1>3, <1>4, <1>5, <1>6 DEF Next, vars

\* A conflict is somebody else's doing.
THEOREM ArtifactConflictsAreForeign == Spec => []ConflictsAreForeign
<1>1. Init => Fresh
  <2>1. NoScript.at = "idle" /\ NoScript.op # "save" /\ ~Closed.conflict /\ ~Closed.bound
    BY DEF NoScript, Closed, None
  <2> QED
    BY <2>1, FreshUnbound DEF Init, Fresh, Procs
<1>2. Fresh => ConflictsAreForeign
  BY DEF Fresh, FreshOK, ConflictsAreForeign
<1> QED
  BY <1>1, <1>2, SoundInit, SoundStep, FreshStep, PTL DEF Spec

-----------------------------------------------------------------------------
(* Until two are at the file at once. *)

\* A script knows the file as it left it, and its texts fit its checksum, ...
StepOK(d, c) ==
    /\ c.at = "hashed" => d = c.sha
    /\ c.at = "checked" => d # Gone /\ (c.op = "save" => d = c.expect)
    /\ c.at = "trashed" => d = Gone
    /\ c.at = "written" => d = Normal(c.text)
    /\ c.at \in {"done", "looked"} =>
          IF c.op = "load" THEN c.text = Normal(c.sha) ELSE c.sha = Normal(c.text)

\* ... and a panel shows what its checksum names.
ShownOK(v) == v.bound => Unix[v.original] = Normal(v.sha)

Undisturbed ==
    ~overlap => /\ \A p \in Procs : StepOK(disk, script[p])
                /\ \A t \in Tabs : ShownOK(panel[t])

WrittenEnvelopes ==
    \A i \in 1 .. Len(queue) : queue[i].kind = "write" => queue[i].text = queue[i].sha

LEMMA IdleStep ==
  ASSUME NEW d, NEW c, c.at \in {"idle", "asked"}
  PROVE  StepOK(d, c)
BY DEF StepOK

\* A process beside which the file is changed undisturbed is not midway.
LEMMA UndisturbedElsewhere ==
  ASSUME Undisturbed, ~overlap', NEW q \in Procs, script'[q] = script[q],
         \/ disk' = disk /\ overlap' = overlap
         \/ \E p, text : p # q /\ Changes(p, text)
  PROVE  StepOK(disk', script'[q])
<1>1. CASE disk' = disk /\ overlap' = overlap
  BY <1>1 DEF Undisturbed
<1>2. ASSUME NEW p, NEW text, p # q, Changes(p, text) PROVE StepOK(disk', script'[q])
  <2>1. ~overlap /\ script[q].at \notin Midway
    BY <1>2 DEF Changes
  <2>2. StepOK(disk, script[q])
    BY <2>1 DEF Undisturbed
  <2> QED
    BY <2>1, <2>2 DEF StepOK, Midway
<1> QED
  BY <1>1, <1>2

LEMMA FailedStep ==
  ASSUME Sound, NEW p \in Procs, NEW why, Fails(p, why)
  PROVE  StepOK(disk', script'[p])
<1>1. script'[p] = NoScript /\ NoScript.at = "idle"
  BY DEF Fails, Sound, TypeOK, NoScript
<1> QED
  BY <1>1, IdleStep

LEMMA FailedShown ==
  ASSUME Sound, NEW t \in Tabs, NEW why, ShownOK(panel[t])
  PROVE  ShownOK(Refused(t, why))
<1>1. CASE script[t].op = "load"
  <2>1. Refused(t, why) = [Closed EXCEPT !.phase = "error"]
    BY <1>1 DEF Refused
  <2>2. ~Refused(t, why).bound
    BY <2>1 DEF Closed
  <2> QED
    BY <2>2 DEF ShownOK
<1>2. CASE script[t].op # "load"
  <2>1. Refused(t, why) = [panel[t] EXCEPT !.saving = FALSE, !.conflict = (why = "conflict")]
    BY <1>2 DEF Refused
  <2>2. /\ Refused(t, why).bound = panel[t].bound /\ Refused(t, why).sha = panel[t].sha
        /\ Refused(t, why).original = panel[t].original
    BY <2>1, OwnPanel DEF Panel
  <2> QED
    BY <2>2 DEF ShownOK
<1> QED
  BY <1>1, <1>2

LEMMA UndisturbedScript ==
  ASSUME Sound, Undisturbed, ~overlap, NEW p \in Procs, ScriptStep(p)
  PROVE  StepOK(disk', script'[p]) /\ (p \in Tabs => ShownOK(panel'[p]))
<1>1. script[p] \in Script /\ ScriptOK(p, script[p]) /\ StepOK(disk, script[p])
  BY OwnScript DEF Undisturbed
<1>2. ASSUME NEW c, script' = [script EXCEPT ![p] = c]
      PROVE  script'[p] = c
  BY <1>2 DEF Sound, TypeOK
<1>3. p \in Tabs => ShownOK(panel'[p])
  <2> SUFFICES ASSUME p \in Tabs PROVE ShownOK(panel'[p])
    OBVIOUS
  <2>1. panel' = panel \/ \E why : Fails(p, why)
    BY DEF ScriptStep, ReadsSha, ReadsText, Checks, Trashes, Writes, Hashes, Killed
  <2>2. ShownOK(panel[p])
    BY DEF Undisturbed
  <2>3. \A why : Fails(p, why) => panel'[p] = Refused(p, why)
    BY DEF Fails, Sound, TypeOK
  <2> QED
    BY <2>1, <2>2, <2>3, FailedShown
<1>4. NoScript.at = "idle"
  BY DEF NoScript
<1>5. CASE \E why : Fails(p, why)
  BY <1>3, <1>5, FailedStep
<1>6. CASE ReadsSha(p) /\ ~\E why : Fails(p, why)
  <2> DEFINE c == [script[p] EXCEPT !.at = "hashed", !.sha = disk]
  <2>1. script' = [script EXCEPT ![p] = c] /\ disk' = disk
    BY <1>6 DEF ReadsSha, FileKept
  <2>2. c.at = "hashed" /\ c.sha = disk
    BY <1>1 DEF Script
  <2> HIDE DEF c
  <2> QED
    BY <1>2, <1>3, <2>1, <2>2 DEF StepOK
<1>7. CASE ReadsText(p) /\ p = Agent /\ ~\E why : Fails(p, why)
  <2>1. script'[p] = NoScript
    BY <1>2, <1>7 DEF ReadsText
  <2> QED
    BY <1>3, <1>4, <2>1, IdleStep
<1>8. CASE ReadsText(p) /\ p # Agent /\ ~\E why : Fails(p, why)
  <2> DEFINE c == [script[p] EXCEPT !.at = "done", !.text = Captured(p, disk)]
  <2>1. script' = [script EXCEPT ![p] = c] /\ disk' = disk
    BY <1>8 DEF ReadsText, FileKept
  <2>2. /\ c.at = "done" /\ c.sha = script[p].sha /\ c.op = script[p].op /\ script[p].at = "hashed"
        /\ c.text = Normal(disk)
    BY <1>1, <1>8 DEF Script, ReadsText, Captured
  <2>3. c.op = "load"
    BY <1>1, <1>8, <2>2 DEF ScriptOK, Procs
  <2> HIDE DEF c
  <2> QED
    BY <1>1, <1>2, <1>3, <2>1, <2>2, <2>3 DEF StepOK
<1>9. ASSUME NEW at \in {"checked", "trashed", "written"}, Moves(p, at)
      PROVE  /\ script'[p].at = at /\ script'[p].op = script[p].op
             /\ script'[p].text = script[p].text /\ script'[p].expect = script[p].expect
  <2>1. script'[p] = [script[p] EXCEPT !.at = at]
    BY <1>9 DEF Moves, Sound, TypeOK
  <2> QED
    BY <1>1, <2>1 DEF Script
<1>10. CASE Checks(p) /\ ~\E why : Fails(p, why)
  <2>1. CASE disk = Gone
    <3>1. Moves(p, "trashed") /\ disk' = disk
      BY <1>10, <2>1 DEF Checks, FileKept
    <3> QED
      BY <1>3, <1>9, <2>1, <3>1 DEF StepOK
  <2>2. CASE disk # Gone
    <3>1. Moves(p, "checked") /\ disk' = disk /\ ShaFits(p)
      BY <1>10, <2>2 DEF Checks, FileKept
    <3>2. script[p].op = "save" => script[p].expect = disk
      <4> SUFFICES ASSUME script[p].op = "save" PROVE script[p].expect = disk
        OBVIOUS
      <4>1. p \in Tabs
        BY <1>1 DEF ScriptOK, Procs, None
      <4>2. script[p].expect \in Texts
        BY <4>1, OwnPanel DEF PanelOK
      <4> QED
        BY <3>1, <4>2, TextAssumption DEF ShaFits
    <3> QED
      BY <1>3, <1>9, <2>2, <3>1, <3>2 DEF StepOK
  <2> QED
    BY <2>1, <2>2
<1>11. CASE Trashes(p) /\ ~\E why : Fails(p, why)
  <2>1. Moves(p, "trashed") /\ disk' = Gone
    BY <1>11 DEF Trashes, Changes
  <2> QED
    BY <1>3, <1>9, <2>1 DEF StepOK
<1>12. CASE Writes(p)
  <2>1. Moves(p, "written") /\ disk' = Normal(script[p].text)
    BY <1>12 DEF Writes, Changes
  <2> QED
    BY <1>3, <1>9, <2>1 DEF StepOK
<1>13. CASE Hashes(p) /\ p = Agent /\ ~\E why : Fails(p, why)
  <2>1. script'[p] = NoScript
    BY <1>2, <1>13 DEF Hashes
  <2> QED
    BY <1>3, <1>4, <2>1, IdleStep
<1>14. CASE Hashes(p) /\ p # Agent /\ ~\E why : Fails(p, why)
  <2> DEFINE c == [script[p] EXCEPT !.at = "done", !.sha = disk]
  <2>1. script' = [script EXCEPT ![p] = c] /\ disk' = disk
    BY <1>14 DEF Hashes, FileKept
  <2>2. c.at = "done" /\ c.sha = disk /\ c.op = script[p].op /\ c.text = script[p].text
        /\ script[p].at = "written"
    BY <1>1, <1>14 DEF Script, Hashes
  <2>3. c.op # "load"
    BY <1>1, <2>2 DEF ScriptOK
  <2> HIDE DEF c
  <2> QED
    BY <1>1, <1>2, <1>3, <2>1, <2>2, <2>3 DEF StepOK
<1>15. Killed(p) => \E why : Fails(p, why)
  BY DEF Killed
<1> QED
  BY <1>5, <1>6, <1>7, <1>8, <1>10, <1>11, <1>12, <1>13, <1>14, <1>15 DEF ScriptStep

LEMMA UndisturbedPanel ==
  ASSUME Sound, Undisturbed, ~overlap, NEW t \in Tabs, PanelStep(t)
  PROVE  StepOK(disk', script'[t]) /\ ShownOK(panel'[t])
<1>1. /\ panel[t] \in Panel /\ PanelOK(script[t], panel[t]) /\ script[t] \in Script
      /\ ScriptOK(t, script[t]) /\ t \in Procs /\ StepOK(disk, script[t]) /\ ShownOK(panel[t])
  BY OwnPanel DEF Undisturbed
<1>2. disk' = disk
  BY DEF PanelStep, Opens, OpensDraft, ReloadsDraft, Types, Saves, Closes, Looks, Lands
<1>3. \A op, text, expect : Asks(t, op, text, expect) => StepOK(disk', script'[t])
  <2>1. \A op, text, expect : Asked(op, text, expect).at = "asked"
    BY DEF Asked, NoScript
  <2>2. \A op, text, expect :
          Asks(t, op, text, expect) => script'[t] = Asked(op, text, expect)
    BY <1>1 DEF Asks, Sound, TypeOK
  <2> QED
    BY <2>1, <2>2, IdleStep
<1>4. \A v : panel' = [panel EXCEPT ![t] = v] => panel'[t] = v
  BY DEF Sound, TypeOK
<1>5. \A text : ShownOK(Drafted(text)) /\ ShownOK(Closed)
  BY DraftedUnbound DEF ShownOK
<1>6. CASE Opens(t)
  <2>1. panel'[t] = [Closed EXCEPT !.phase = "loading"]
    BY <1>4, <1>6 DEF Opens
  <2>2. ~panel'[t].bound
    BY <2>1 DEF Closed
  <2> QED
    BY <1>3, <1>6, <2>2 DEF Opens, ShownOK
<1>7. CASE OpensDraft(t) \/ ReloadsDraft(t) \/ Closes(t)
  BY <1>1, <1>2, <1>4, <1>5, <1>7 DEF OpensDraft, ReloadsDraft, Closes
<1>8. CASE Types(t) \/ Saves(t)
  <2>1. panel'[t].bound = panel[t].bound /\ panel'[t].sha = panel[t].sha
        /\ panel'[t].original = panel[t].original
    BY <1>1, <1>8 DEF Types, Saves, Sound, TypeOK, Panel
  <2>2. StepOK(disk', script'[t])
    BY <1>1, <1>2, <1>3, <1>8 DEF Types, Saves
  <2> QED
    BY <1>1, <2>1, <2>2 DEF ShownOK
<1>9. CASE Looks(t)
  <2>1. PICK found \in Findable(script[t].sha) :
          script' = [script EXCEPT ![t].at = "looked", ![t].found = found]
    BY <1>9 DEF Looks
  <2>2. /\ script'[t].at = "looked" /\ script'[t].sha = script[t].sha
        /\ script'[t].op = script[t].op /\ script'[t].text = script[t].text
    BY <1>1, <2>1 DEF Sound, TypeOK, Script
  <2>3. panel' = panel /\ script[t].at = "done"
    BY <1>9 DEF Looks
  <2> QED
    BY <1>1, <2>2, <2>3 DEF StepOK
<1>10. CASE Lands(t)
  <2>1. script'[t] = NoScript /\ NoScript.at = "idle" /\ script[t].at \in {"done", "looked"}
    BY <1>1, <1>10 DEF Lands, Sound, TypeOK, NoScript
  <2>2. PICK v : /\ panel' = [panel EXCEPT ![t] = v]
                 /\ \/ v = Refused(t, "error")
                    \/ script[t].op = "load" /\ v = RefreshAnswer(t)
                    \/ script[t].op # "load" /\ v = SaveAnswer(t)
    BY <1>10, Landed
  <2>3. ASSUME script[t].op = "load", v = RefreshAnswer(t) PROVE ShownOK(v)
    <3>1. v.original = script[t].text /\ v.sha = script[t].sha
      BY <2>3 DEF RefreshAnswer, Closed
    <3>2. script[t].text = Normal(script[t].sha) /\ script[t].sha \in Texts
      BY <1>1, <2>1, <2>3 DEF StepOK, ScriptOK
    <3> QED
      BY <3>1, <3>2, NormalText DEF ShownOK
  <2>4. ASSUME script[t].op # "load", v = SaveAnswer(t) PROVE ShownOK(v)
    <3>1. v.original = Ended[script[t].text] /\ v.sha = script[t].sha
      BY <1>1, <2>4 DEF SaveAnswer, NewSha, Panel
    <3>2. script[t].sha = Normal(script[t].text) /\ script[t].text \in Texts
      BY <1>1, <2>1, <2>4 DEF StepOK, ScriptOK
    <3> QED
      BY <3>1, <3>2, NormalText DEF ShownOK
  <2>5. ShownOK(v)
    BY <1>1, <2>2, <2>3, <2>4, FailedShown
  <2> QED
    <3>1. panel'[t] = v
      BY <1>4, <2>2
    <3>2. StepOK(disk', script'[t])
      BY <2>1, IdleStep
    <3> QED
      BY <2>5, <3>1, <3>2
<1> QED
  BY <1>6, <1>7, <1>8, <1>9, <1>10 DEF PanelStep

LEMMA UndisturbedStep == Sound /\ Undisturbed /\ [Next]_vars => Undisturbed'
<1> SUFFICES ASSUME Sound, Undisturbed, [Next]_vars, ~overlap'
             PROVE  /\ \A q \in Procs : StepOK(disk', script'[q])
                    /\ \A t \in Tabs : ShownOK(panel'[t])
  BY DEF Undisturbed
<1>1. CASE UNCHANGED vars
  BY <1>1 DEF vars, Undisturbed
<1>2. ASSUME NEW p \in Procs, ScriptStep(p)
      PROVE  /\ \A q \in Procs : StepOK(disk', script'[q])
             /\ \A t \in Tabs : ShownOK(panel'[t])
  <2>1. ~overlap
    BY <1>2 DEF ScriptStep, ReadsSha, ReadsText, Checks, Trashes, Writes, Hashes, Killed, FileKept,
                Changes
  <2>2. ASSUME NEW q \in Procs, q # p PROVE StepOK(disk', script'[q])
    BY <1>2, <2>2, OthersScript, UndisturbedElsewhere
  <2>3. ASSUME NEW t \in Tabs, t # p PROVE ShownOK(panel'[t])
    BY <1>2, <2>1, <2>3, OthersScript DEF Undisturbed, Procs
  <2> QED
    BY <1>2, <2>1, <2>2, <2>3, UndisturbedScript
<1>3. ASSUME NEW u \in Tabs, PanelStep(u)
      PROVE  /\ \A q \in Procs : StepOK(disk', script'[q])
             /\ \A t \in Tabs : ShownOK(panel'[t])
  <2>1. ~overlap
    BY <1>3 DEF PanelStep, Opens, OpensDraft, ReloadsDraft, Types, Saves, Closes, Looks, Lands
  <2>2. ASSUME NEW q \in Procs, q # u PROVE StepOK(disk', script'[q])
    BY <1>3, <2>2, OthersPanel, UndisturbedElsewhere
  <2>3. ASSUME NEW t \in Tabs, t # u PROVE ShownOK(panel'[t])
    BY <1>3, <2>1, <2>3, OthersPanel DEF Undisturbed, Procs
  <2> QED
    BY <1>3, <2>1, <2>2, <2>3, UndisturbedPanel
<1>4. CASE Outside
  <2>1. \E text : Changes(None, text) /\ UNCHANGED <<script, panel>>
    BY <1>4 DEF Outside
  <2>2. None \notin Procs /\ ~overlap
    BY <2>1, ProcessAssumption DEF Procs, Changes
  <2> QED
    BY <2>1, <2>2, UndisturbedElsewhere DEF Undisturbed
<1>5. CASE Calls
  <2>1. PICK call : script' = [script EXCEPT ![Agent] = Asked(call.op, call.text, call.expect)]
    BY <1>5 DEF Calls
  <2>2. Asked(call.op, call.text, call.expect).at = "asked"
    BY DEF Asked, NoScript
  <2>3. UNCHANGED <<disk, overlap, panel>>
    BY <1>5 DEF Calls
  <2>4. StepOK(disk', script'[Agent])
    BY <2>1, <2>2, IdleStep DEF Sound, TypeOK, Procs
  <2>5. \A q \in Procs \ {Agent} : script'[q] = script[q]
    BY <2>1 DEF Sound, TypeOK
  <2> QED
    BY <2>3, <2>4, <2>5 DEF Undisturbed
<1>6. CASE RunStarts \/ Speaks \/ Persists \/ RunEnds
  BY <1>6 DEF RunStarts, Speaks, Persists, RunEnds, Undisturbed
<1> QED
  BY <1>1, <1>2, <1>3, <1>4, <1>5, <1>6 DEF Next

LEMMA UndisturbedInit == Init => Undisturbed
<1>1. NoScript.at = "idle" /\ ~Closed.bound
  BY DEF NoScript, Closed
<1> QED
  BY <1>1, IdleStep DEF Init, Undisturbed, ShownOK

\* A save replaces only what its user was shown, unless two were at the file at once.
THEOREM ArtifactSavesSpareOthers == Spec => SavesSpareOthers
<1> DEFINE Spared == \A t \in Tabs :
               /\ ~overlap' /\ Trashes(t) => Normal(disk) = Unix[panel[t].original]
               /\ ~overlap' /\ Writes(t) => disk = Gone
<1>1. Sound /\ Undisturbed /\ [Next]_vars => [Spared]_vars
  <2> SUFFICES ASSUME Sound, Undisturbed, NEW t \in Tabs, ~overlap'
               PROVE  /\ Trashes(t) => Normal(disk) = Unix[panel[t].original]
                      /\ Writes(t) => disk = Gone
    OBVIOUS
  <2>1. ASSUME Trashes(t) \/ Writes(t) PROVE StepOK(disk, script[t]) /\ ShownOK(panel[t])
    <3>1. ~overlap
      BY <2>1 DEF Trashes, Writes, Changes, FileKept
    <3> QED
      BY <3>1, OwnPanel DEF Undisturbed
  <2>2. ASSUME Trashes(t) PROVE Normal(disk) = Unix[panel[t].original]
    <3>1. script[t].op = "save"
      BY <2>2, OwnPanel DEF Trashes, ScriptOK, None
    <3>2. panel[t].bound /\ script[t].expect = panel[t].sha
      BY <3>1, OwnPanel DEF PanelOK
    <3> QED
      BY <2>1, <2>2, <3>1, <3>2 DEF Trashes, StepOK, ShownOK
  <2>3. ASSUME Writes(t) PROVE disk = Gone
    BY <2>1, <2>3 DEF Writes, StepOK
  <2> QED
    BY <2>2, <2>3
<1> QED
  BY <1>1, SoundInit, SoundStep, UndisturbedInit, UndisturbedStep, PTL DEF Spec, SavesSpareOthers

-----------------------------------------------------------------------------
(* The mirror of what was written. *)

VersionsMirrored ==
    \A i \in DOMAIN versions : versions[i].source = "write" =>
        versions[i].sha = IF versions[i].by = "agent" THEN versions[i].text ELSE Unix[versions[i].text]
UsersWrite == \A i \in DOMAIN versions : versions[i].by = "user" => versions[i].source = "write"
GivenMirrored ==
    run.given # None =>
        \E i \in DOMAIN versions : versions[i].by = "user" /\ versions[i].sha = Unix[run.given]

Mirrored ==
    /\ WrittenEnvelopes /\ UsersWrite
    /\ ~overlap => VersionsMirrored /\ GivenMirrored

\* A text is recorded: at most one version is new, and it is last.
LEMMA RecordsMirrored ==
  ASSUME Sound, NEW found, NEW text, NEW sha, NEW author, NEW source,
         Records(found, text, sha, author, source), UNCHANGED run, UsersWrite,
         author = "user" => source = "write"
  PROVE  /\ UsersWrite'
         /\ VersionsMirrored
            /\ (source = "write" => sha = IF author = "agent" THEN text ELSE Unix[text])
            => VersionsMirrored'
         /\ GivenMirrored => GivenMirrored'
<1>1. versions' = versions
      \/ versions' = Append(versions, [sha |-> sha, text |-> text, by |-> author, source |-> source])
  BY DEF Records
<1>2. CASE versions' = versions
  BY <1>2 DEF UsersWrite, VersionsMirrored, GivenMirrored
<1>3. CASE versions' # versions
  <2> DEFINE new == [sha |-> sha, text |-> text, by |-> author, source |-> source]
  <2>1. new.sha = sha /\ new.text = text /\ new.by = author /\ new.source = source
    OBVIOUS
  <2>2. versions' = Append(versions, new) /\ versions \in Seq(Version)
    BY <1>1, <1>3 DEF Sound, TypeOK
  <2> HIDE DEF new
  <2>3. \A i \in DOMAIN versions : i \in DOMAIN versions' /\ versions'[i] = versions[i]
    BY <2>2
  <2>4. \A i \in DOMAIN versions' : i \in DOMAIN versions \/ versions'[i] = new
    BY <2>2
  <2>5. UsersWrite'
    BY <2>1, <2>3, <2>4 DEF UsersWrite
  <2>6. VersionsMirrored
        /\ (source = "write" => sha = IF author = "agent" THEN text ELSE Unix[text])
        => VersionsMirrored'
    BY <2>1, <2>3, <2>4 DEF VersionsMirrored
  <2>7. GivenMirrored => GivenMirrored'
    BY <2>3 DEF GivenMirrored
  <2> QED
    BY <2>5, <2>6, <2>7
<1> QED
  BY <1>2, <1>3

LEMMA MirroredKept ==
  ASSUME Mirrored, versions' = versions, run' = run, overlap => overlap', WrittenEnvelopes'
  PROVE  Mirrored'
BY DEF Mirrored, UsersWrite, VersionsMirrored, GivenMirrored

\* An envelope goes to the end of the queue.
LEMMA EnvelopeQueued ==
  ASSUME Sound, WrittenEnvelopes, NEW e, queue' = Append(queue, e), e.kind = "write" => e.text = e.sha
  PROVE  WrittenEnvelopes'
BY DEF Sound, TypeOK, WrittenEnvelopes

LEMMA HashedEnvelope ==
  ASSUME Sound, WrittenEnvelopes, NEW text, queue' = queue \o WriteEnvelope(text)
  PROVE  WrittenEnvelopes'
<1>1. CASE Ended[text] # disk
  <2>1. queue' = queue
    BY <1>1 DEF Sound, TypeOK, WriteEnvelope
  <2> QED
    BY <2>1 DEF WrittenEnvelopes
<1>2. CASE Ended[text] = disk
  <2> DEFINE e == [kind |-> "write", text |-> disk, sha |-> disk, complete |-> TRUE]
  <2>1. WriteEnvelope(text) = <<e>>
    BY <1>2 DEF WriteEnvelope
  <2>2. e.text = e.sha
    OBVIOUS
  <2> HIDE DEF e
  <2>3. queue' = Append(queue, e)
    BY <2>1 DEF Sound, TypeOK
  <2> QED
    BY <2>2, <2>3, EnvelopeQueued
<1> QED
  BY <1>1, <1>2

LEMMA MirroredScript ==
  ASSUME Sound, Mirrored, NEW p \in Procs, ScriptStep(p)
  PROVE  Mirrored'
<1>1. versions' = versions /\ run' = run /\ (overlap => overlap')
  <2>1. ASSUME overlap PROVE overlap'
    BY <2>1 DEF ScriptStep, ReadsSha, ReadsText, Checks, Trashes, Writes, Hashes, Killed, FileKept,
                Changes
  <2>2. versions' = versions /\ run' = run
    BY DEF ScriptStep, ReadsSha, ReadsText, Checks, Trashes, Writes, Hashes, Killed, mirror
  <2> QED
    BY <2>1, <2>2
<1>2. WrittenEnvelopes' \/ queue' # queue
  BY DEF Mirrored, WrittenEnvelopes
<1>3. CASE ReadsText(p) /\ queue' # queue
  <2> DEFINE e == [kind |-> "read", text |-> Captured(p, disk), sha |-> script[p].sha,
                   complete |-> script[p].op # "page"]
  <2>1. queue' = Append(queue, e) /\ e.kind = "read"
    BY <1>3 DEF ReadsText, Fails
  <2> HIDE DEF e
  <2>2. WrittenEnvelopes'
    BY <2>1, EnvelopeQueued DEF Mirrored
  <2> QED
    BY <1>1, <2>2, MirroredKept
<1>4. CASE Hashes(p) /\ queue' # queue
  <2>1. queue' = queue \o WriteEnvelope(script[p].text)
    BY <1>4 DEF Hashes, Fails
  <2> QED
    BY <1>1, <2>1, HashedEnvelope, MirroredKept DEF Mirrored
<1>5. CASE ReadsSha(p) \/ Checks(p) \/ Trashes(p) \/ Writes(p) \/ Killed(p)
  <2>1. queue' = queue
    BY <1>5 DEF ReadsSha, Checks, Trashes, Writes, Killed, Fails
  <2> QED
    BY <1>1, <1>2, <2>1, MirroredKept
<1> QED
  BY <1>1, <1>2, <1>3, <1>4, <1>5, MirroredKept DEF ScriptStep

LEMMA MirroredLanding ==
  ASSUME Sound, Undisturbed, Mirrored, NEW t \in Tabs, Lands(t)
  PROVE  Mirrored'
<1>1. UNCHANGED <<overlap, queue, run>> /\ script[t].at \in {"done", "looked"}
  BY DEF Lands
<1>2. WrittenEnvelopes'
  BY <1>1 DEF Mirrored, WrittenEnvelopes
<1>3. CASE UNCHANGED mirror
  BY <1>1, <1>2, <1>3, MirroredKept DEF mirror
<1>4. CASE ~UNCHANGED mirror
  <2>1. PICK found \in 0 .. Len(versions) :
          Records(found, Stored(t), script[t].sha,
                  IF script[t].op = "load" THEN "agent" ELSE "user",
                  IF script[t].op = "load" THEN "read" ELSE "write")
    BY <1>4, Landed
  <2>2. CASE script[t].op = "load"
    <3>1. Records(found, Stored(t), script[t].sha, "agent", "read")
      BY <2>1, <2>2
    <3> QED
      BY <1>1, <1>2, <3>1, RecordsMirrored DEF Mirrored
  <2>3. CASE script[t].op # "load"
    <3>1. Records(found, Stored(t), script[t].sha, "user", "write")
      BY <2>1, <2>3
    <3>2. script[t].text \in Texts /\ Stored(t) = Ended[script[t].text]
      BY <1>1, <2>3, OwnPanel DEF ScriptOK, Stored
    <3>3. ~overlap => script[t].sha = Normal(script[t].text)
      BY <1>1, <2>3, OwnPanel DEF Undisturbed, StepOK
    <3>4. ~overlap => script[t].sha = Unix[Stored(t)]
      BY <3>2, <3>3, NormalText
    <3> QED
      BY <1>1, <1>2, <3>1, <3>4, RecordsMirrored DEF Mirrored
  <2> QED
    BY <2>2, <2>3
<1> QED
  BY <1>3, <1>4

LEMMA MirroredPanel ==
  ASSUME Sound, Undisturbed, Mirrored, NEW t \in Tabs, PanelStep(t)
  PROVE  Mirrored'
<1>1. CASE Lands(t)
  BY <1>1, MirroredLanding
<1>2. CASE ~Lands(t)
  <2>1. UNCHANGED <<versions, overlap, queue, run>>
    BY <1>2 DEF PanelStep, Opens, OpensDraft, ReloadsDraft, Types, Saves, Closes, Looks, mirror
  <2>2. WrittenEnvelopes'
    BY <2>1 DEF Mirrored, WrittenEnvelopes
  <2> QED
    BY <2>1, <2>2, MirroredKept
<1> QED
  BY <1>1, <1>2

LEMMA MirroredPersists == ASSUME Sound, Mirrored, Persists PROVE Mirrored'
<1>1. queue \in Seq(Envelope) /\ queue # <<>> /\ queue' = Tail(queue) /\ UNCHANGED <<overlap, run>>
  BY DEF Persists, Sound, TypeOK
<1>2. WrittenEnvelopes'
  BY <1>1 DEF Mirrored, WrittenEnvelopes
<1>3. Head(queue) = queue[1] /\ 1 \in 1 .. Len(queue)
  BY <1>1
<1>4. Head(queue).kind = "write" => Head(queue).text = Head(queue).sha
  BY <1>3 DEF Mirrored, WrittenEnvelopes
<1>5. CASE versions' = versions
  BY <1>1, <1>2, <1>5, MirroredKept
<1>6. CASE versions' # versions
  <2>1. \E found : Records(found, Head(queue).text, Head(queue).sha, "agent", Head(queue).kind)
    BY <1>6 DEF Persists, StoresTurn, Promotes, mirror
  <2> QED
    BY <1>1, <1>2, <1>4, <2>1, RecordsMirrored DEF Mirrored
<1> QED
  BY <1>5, <1>6

\* What a run is given is the text of a version by the user, that was written.
LEMMA MirroredRunStarts == ASSUME Sound, Mirrored, RunStarts PROVE Mirrored'
<1>1. UNCHANGED <<versions, overlap, queue>> /\ run' = [on |-> TRUE, given |-> EditToTell]
  BY DEF RunStarts, mirror
<1>2. run'.given = EditToTell
  BY <1>1
<1>3. VersionsMirrored => GivenMirrored'
  <2> SUFFICES ASSUME VersionsMirrored, EditToTell # None PROVE GivenMirrored'
    BY <1>2 DEF GivenMirrored
  <2>1. row.head # 0 /\ versions[row.head].by = "user" /\ EditToTell = versions[row.head].text
    BY DEF EditToTell
  <2>2. row.head \in DOMAIN versions
    BY <2>1 DEF Sound, TypeOK
  <2>3. versions[row.head].sha = Unix[EditToTell]
    BY <2>1, <2>2 DEF Mirrored, UsersWrite, VersionsMirrored
  <2> QED
    BY <1>1, <1>2, <2>1, <2>2, <2>3 DEF GivenMirrored
<1> QED
  BY <1>1, <1>3 DEF Mirrored, WrittenEnvelopes, UsersWrite, VersionsMirrored

LEMMA MirroredStep == Sound /\ Undisturbed /\ Mirrored /\ [Next]_vars => Mirrored'
<1> SUFFICES ASSUME Sound, Undisturbed, Mirrored, [Next]_vars PROVE Mirrored'
  OBVIOUS
<1>1. ASSUME NEW p \in Procs, ScriptStep(p) PROVE Mirrored'
  BY <1>1, MirroredScript
<1>2. ASSUME NEW t \in Tabs, PanelStep(t) PROVE Mirrored'
  BY <1>2, MirroredPanel
<1>3. CASE Outside \/ Calls \/ UNCHANGED vars
  <2>1. UNCHANGED <<versions, queue, run>> /\ (overlap => overlap')
    <3>1. ASSUME overlap PROVE overlap'
      BY <1>3, <3>1 DEF Outside, Calls, vars, Changes
    <3>2. UNCHANGED <<versions, queue, run>>
      BY <1>3 DEF Outside, Calls, vars, mirror
    <3> QED
      BY <3>1, <3>2
  <2>2. WrittenEnvelopes'
    BY <2>1 DEF Mirrored, WrittenEnvelopes
  <2> QED
    BY <2>1, <2>2, MirroredKept
<1>4. CASE Speaks
  <2> DEFINE e == [kind |-> "turn", text |-> None, sha |-> None, complete |-> FALSE]
  <2>1. queue' = Append(queue, e) /\ e.kind = "turn" /\ UNCHANGED <<versions, run, overlap>>
    BY <1>4 DEF Speaks, mirror
  <2> HIDE DEF e
  <2>2. WrittenEnvelopes'
    BY <2>1, EnvelopeQueued DEF Mirrored
  <2> QED
    BY <2>1, <2>2, MirroredKept
<1>5. CASE RunEnds
  <2>1. UNCHANGED <<versions, queue, overlap>> /\ run'.given = None
    BY <1>5 DEF RunEnds, mirror
  <2> QED
    BY <2>1 DEF Mirrored, WrittenEnvelopes, UsersWrite, VersionsMirrored, GivenMirrored
<1> QED
  BY <1>1, <1>2, <1>3, <1>4, <1>5, MirroredRunStarts, MirroredPersists DEF Next

\* What was written through Ontheia is mirrored as it is in the file, a panel's text but for its
\* line ends, and handed to the agent so.
THEOREM ArtifactWritesAreMirrored == Spec => []WritesAreMirrored
<1>1. Init => Mirrored
  <2> SUFFICES ASSUME Init PROVE Mirrored
    OBVIOUS
  <2>1. Len(queue) = 0 /\ DOMAIN versions = {} /\ run.given = None
    BY DEF Init
  <2> QED
    BY <2>1 DEF Mirrored, WrittenEnvelopes, UsersWrite, VersionsMirrored, GivenMirrored
<1>2. Mirrored => WritesAreMirrored
  BY DEF Mirrored, VersionsMirrored, GivenMirrored, WritesAreMirrored
<1> QED
  BY <1>1, <1>2, SoundInit, SoundStep, UndisturbedInit, UndisturbedStep, MirroredStep, PTL DEF Spec

=============================================================================
