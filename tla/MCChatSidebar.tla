--------------------------- MODULE MCChatSidebar ---------------------------
(***************************************************************************)
(* ChatSidebar in four scenes: two users sign in and out of one browser;   *)
(* a user leaves it to the other with a run under way; one user edits      *)
(* chats and projects; one user starts and stops runs.                     *)
(***************************************************************************)
EXTENDS ChatSidebar, TLC

CONSTANTS Ann, Bob

VARIABLE scene

In(s) == scene = s /\ UNCHANGED scene

SignedIn(u) ==
  /\ owner = <<u>> /\ valid = {1} /\ token = 1 /\ me = u
  /\ listed = chats /\ folders = parent

MCInit ==
  /\ valid \in SUBSET {1}
  /\ \E c \in ChatIds, p \in Projects :
       /\ chats = [d \in ChatIds |-> [of |-> IF d = c \/ valid # {} THEN Ann ELSE Bob,
                                    in |-> IF d = c THEN Root ELSE p, name |-> "first"]]
       /\ parent = [q \in Projects |-> IF q = p THEN Root ELSE Gone]
  /\ IF valid = {}
     THEN /\ scene = "session" /\ owner = <<>> /\ token = 0 /\ me = NoUser
          /\ listed = [c \in ChatIds |-> Gone] /\ folders = [p \in Projects |-> Gone]
     ELSE scene \in {"leaves", "edits", "runs"} /\ SignedIn(Ann)
  /\ runs = <<>> /\ edits = 0
  /\ leaving = {} /\ asked = {} /\ refreshed = {}
  /\ stop = [c \in ChatIds |-> 0]
  /\ reading = {} /\ lists = {} /\ recents = {} /\ opens = {} /\ todo = {}
  /\ hidden = {} /\ mixed = FALSE

Signs == scene \in {"session", "leaves"}
MayRun == scene \in {"leaves", "runs"} /\ (scene = "leaves" => runs = <<>>)

MCNext ==
  \/ \E u \in Users : In(scene) /\ Signs /\ Login(u)
  \/ \E s \in Sessions : In(scene) /\ Signs /\ UserAnswers(s)
  \/ \E s \in Sessions : In("session") /\ UserFails(s)
  \/ \E s \in Sessions : In("session") /\ RefreshAnswers(s)
  \/ \E s \in Sessions : In("session") /\ RefreshFails(s)
  \/ \E s \in Sessions : In(scene) /\ Signs /\ LogoutAnswers(s)
  \/ \E s \in Sessions : In("session") /\ SessionExpires(s)
  \/ In("session") /\ Refresh
  \/ In(scene) /\ Signs /\ Logout
  \/ In(scene) /\ scene # "leaves" /\ ReloadPage
  \/ In(scene) /\ scene # "runs" /\ PollChats
  \/ \E a \in lists : In(scene) /\ ListAnswers(a)
  \/ In("runs") /\ PollRuns
  \/ \E a \in recents : In("runs") /\ RecentAnswers(a)
  \/ \E c \in ChatIds : In(scene) /\ MayRun /\ RunStarts(c)
  \/ \E c \in ChatIds : In("runs") /\ StopRun(c)
  \/ \E c \in ChatIds : In("runs") /\ OpenChat(c)
  \/ \E r \in DOMAIN runs : In("runs") /\ RunAges(r)
  \/ \E r \in DOMAIN runs : In(scene) /\ StreamCompletes(r)
  \/ \E r \in DOMAIN runs : In("runs") /\ StreamEnds(r)
  \/ \E r \in DOMAIN runs, st \in {"running", "tripped"} : In("runs") /\ RunGoes(r, st)
  \/ \E r \in DOMAIN runs : In(scene) /\ RunGoes(r, "ended")
  \/ \E o \in opens : In("runs") /\ OpenAnswers(o)
  \/ \E c \in ChatIds : In("edits") /\ DeleteChat(c)
  \/ \E c \in ChatIds : In("edits") /\ MoveChat(c)
  \/ \E c \in ChatIds : In("edits") /\ RenameChat(c)
  \/ \E c \in ChatIds : In("edits") /\ Elsewhere(c)
  \/ \E c \in ChatIds, p \in Projects : In("edits") /\ CreateProjectChat(c, p)
  \/ \E p \in Projects : In("edits") /\ CreateProject(p)
  \/ \E p \in Projects : In("edits") /\ RenameProject(p)
  \/ \E p \in Projects : In("edits") /\ MoveProject(p)
  \/ \E p \in Projects : In("edits") /\ DeleteProject(p)
  \/ \E h \in todo : In(scene) /\ Continues(h)
  \/ \E h \in todo : In(scene) /\ HandlerFails(h)

MCFairness ==
  /\ WF_<<sidebarVars, scene>>(In(scene) /\ scene # "runs" /\ PollChats)
  /\ WF_<<sidebarVars, scene>>(\E a \in lists : In(scene) /\ ListAnswers(a))
  /\ WF_<<sidebarVars, scene>>(\E s \in Sessions :
       In(scene) /\ Signs /\ (LogoutAnswers(s) \/ UserAnswers(s)))
  /\ WF_<<sidebarVars, scene>>(\E h \in todo : In(scene) /\ (Continues(h) \/ HandlerFails(h)))

MCSpec == MCInit /\ [][MCNext]_<<sidebarVars, scene>> /\ MCFairness
=============================================================================
