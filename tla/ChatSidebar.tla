---------------------------- MODULE ChatSidebar ----------------------------
(***************************************************************************)
(* One browser, from login to logout: the session (auth-context.tsx), the  *)
(* sidebar's list of chats and stop buttons (chat-sidebar-context.tsx),    *)
(* the projects it shows (app-sidebar.tsx), and the routes of chats and    *)
(* projects that answer it.  Other browsers edit the same rows.            *)
(*                                                                         *)
(* A request reaches the host in the step that sends it; its answer is     *)
(* kept in one of the sets below and used by a later step, in any order.   *)
(* How many chats and runs an answer may name is left out: the list has    *)
(* room for the chats of a user.                                           *)
(***************************************************************************)
EXTENDS Naturals, FiniteSets, Sequences

CONSTANTS Users, NoUser, ChatIds, Projects,
          Root,           \* a chat of the history, a project at the top
          Gone,           \* no row, no entry
          MaxSessions,    \* bound: logins and signups
          MaxRuns,        \* bound: runs started
          MaxCalls,       \* bound: requests of one kind under way
          MaxEdits        \* bound: edits, sessions that expire, runs that grow old, pages loaded again

VARIABLES
  owner,     \* the users of the sessions issued so far; 0 is no session
  valid,     \* sessions the host accepts
  chats,     \* app.chats
  parent,    \* app.projects: parent_id
  runs,      \* the chats and states of the runs started so far
  edits,
  token,     \* the session token, in the state and in localStorage
  me,        \* user of the auth context
  leaving,   \* logouts that await their answer
  asked,     \* sessions of loadUser calls under way
  refreshed, \* sessions of refresh calls under way
  listed,    \* messages: the chats of the sidebar
  stop,      \* activeRunByChatId: the run of a chat that can be stopped, or 0
  reading,   \* runs whose stream this page reads and has seen no complete event on
  folders,   \* projects of the sidebar
  lists,     \* answers of GET /chats under way
  recents,   \* answers of GET /runs/recent under way
  opens,     \* the answer of GET /chats/:id under way, for the chat that is open
  todo,      \* handlers that await an answer
  hidden,    \* history: runs that a glimpsed error, their age, a dropped stream or a late
             \* load may hide
  mixed      \* history: an answer crossed a login

host        == <<owner, valid, chats, parent, runs, edits>>
session     == <<token, me, leaving, asked, refreshed>>
screen      == <<listed, stop, reading, folders, lists, recents, opens, todo>>
sidebarVars == <<host, session, screen, hidden, mixed>>

-----------------------------------------------------------------------------
Sessions == 1 .. Len(owner)
UserOf(s) == IF s = 0 THEN NoUser ELSE owner[s]

Row == [of : Users, in : Projects \cup {Root}, name : {"first", "second"}]

ASSUME SidebarAssumption ==
  /\ NoUser \notin Users /\ Root \notin Projects /\ Gone \notin Projects \cup {Root} \cup Row
  /\ {MaxSessions, MaxRuns, MaxCalls, MaxEdits} \subseteq Nat

Own(u, c) == IF chats[c] # Gone /\ chats[c].of = u THEN chats[c] ELSE Gone

RowsOf(u) == [c \in ChatIds |-> Own(u, c)]
Projected == {p \in Projects : parent[p] # Gone}

IsAuthenticated == token # 0 /\ me # NoUser

Answers(set, answer) == Cardinality(set) < MaxCalls /\ set' = set \cup {answer}

SidebarInit ==
  /\ owner = <<>> /\ valid = {}
  /\ chats \in [ChatIds -> Row \cup {Gone}]
  /\ parent \in [Projects -> {Root, Gone}]
  /\ \A c \in ChatIds : chats[c] # Gone => chats[c].in \in Projected \cup {Root}
  /\ runs = <<>> /\ edits = 0
  /\ token = 0 /\ me = NoUser /\ leaving = {}
  /\ asked = {} /\ refreshed = {}
  /\ listed = [c \in ChatIds |-> Gone]
  /\ stop = [c \in ChatIds |-> 0]
  /\ folders = [p \in Projects |-> Gone]
  /\ reading = {} /\ lists = {} /\ recents = {} /\ opens = {} /\ todo = {}
  /\ hidden = {} /\ mixed = FALSE


-----------------------------------------------------------------------------
(* What the host answers *)

(* GET /chats *)
ChatList == [of |-> owner[token], rows |-> RowsOf(owner[token])]

(* GET /runs/recent: a complete event ends a run, and so does an error     *)
(* event that is its last, or its age: without either it is called failed  *)
(* after an hour.                                                          *)
SeemsOver(r) == runs[r].st # "running" \/ runs[r].old
Recent == [ended |-> {r \in DOMAIN runs : runs[r].of = owner[token] /\ SeemsOver(r)}]

(* GET /chats/:id names the run that executeRun still has, if any.         *)
OpenedChat(c) == [chat |-> c,
              run  |-> \E r \in DOMAIN runs : runs[r].chat = c /\ runs[r].st # "ended"]

(* GET /projects *)
Tree == [do |-> "projects", of |-> token, tree |-> parent, reload |-> FALSE]

AskChats == token \in valid /\ Answers(lists, ChatList)

(* A run that has not ended may be taken for ended by the answer.          *)
AskRecent ==
  /\ token \in valid
  /\ recents' = recents \cup {Recent}
  /\ Cardinality(recents') <= MaxCalls
  /\ hidden' = hidden \cup {r \in DOMAIN runs : SeemsOver(r) /\ runs[r].st # "ended"}

-----------------------------------------------------------------------------
(* The session *)

(* The effects of a render after token and user changed: without a user    *)
(* the lists are emptied, and with a first one chats, runs and projects    *)
(* are loaded.  Stop buttons and requests under way stay.                  *)
Becomes(s, u) ==
  /\ token' = s /\ me' = u
  /\ CASE s # 0 /\ u # NoUser /\ ~IsAuthenticated ->
            /\ lists' = lists \cup {[of |-> u, rows |-> RowsOf(u)]}
            /\ folders' = [p \in Projects |-> Gone]
            /\ todo' = todo \cup {[do |-> "projects", of |-> s, tree |-> parent, reload |-> FALSE]}
            /\ UNCHANGED <<listed, opens>>
       [] (s = 0 \/ u = NoUser) /\ IsAuthenticated ->
            /\ listed' = [c \in ChatIds |-> Gone] /\ opens' = {}
            /\ UNCHANGED <<lists, folders, todo>>
       [] OTHER -> UNCHANGED <<listed, lists, folders, todo, opens>>

(* login, or signup without an approval: the new token also starts the     *)
(* effect that asks for its user.                                          *)
Login(u) ==
  LET s == Len(owner) + 1 IN
  /\ ~IsAuthenticated /\ s <= MaxSessions
  /\ owner' = Append(owner, u) /\ valid' = valid \cup {s}
  /\ Becomes(s, u)
  /\ asked' = asked \cup {s}
  /\ UNCHANGED <<chats, parent, runs, edits, leaving, refreshed, stop, reading, recents, hidden,
                 mixed>>

\* Mutant: the answer of a cancelled effect is used.
AnswersAnyone(s) ==
  /\ s \in asked /\ asked' = asked \ {s}
  /\ Becomes(token, owner[s])
  /\ UNCHANGED <<host, leaving, refreshed, stop, reading, recents, hidden, mixed>>

(* An answer of /auth/me to an effect that was cancelled is dropped ...    *)
UserAnswers(s) ==
  /\ s \in asked /\ asked' = asked \ {s}
  /\ IF s = token THEN Becomes(s, owner[s])
     ELSE UNCHANGED <<token, me, listed, lists, folders, todo, opens>>
  /\ UNCHANGED <<host, leaving, refreshed, stop, reading, recents, hidden, mixed>>

(* ... and a failure is not: it signs out whoever is signed in.            *)
UserFails(s) ==
  /\ s \in asked /\ asked' = asked \ {s}
  /\ Becomes(0, NoUser)
  /\ UNCHANGED <<host, leaving, refreshed, stop, reading, recents, hidden, mixed>>

(* refresh, after a profile was saved                                      *)
Refresh ==
  /\ IsAuthenticated
  /\ refreshed' = refreshed \cup {token}
  /\ UNCHANGED <<host, token, me, leaving, asked, screen, hidden, mixed>>

RefreshAnswers(s) ==
  /\ s \in refreshed /\ refreshed' = refreshed \ {s}
  /\ me' = owner[s]
  /\ mixed' = (mixed \/ s # token)
  /\ UNCHANGED <<host, token, leaving, asked, screen, hidden>>

RefreshFails(s) ==
  /\ s \in refreshed /\ refreshed' = refreshed \ {s}
  /\ UNCHANGED <<host, token, me, leaving, asked, screen, hidden, mixed>>

(* POST /auth/logout names no user to the database, so its DELETE matches  *)
(* no row of app.sessions: the session stays valid.                        *)
Logout ==
  /\ IsAuthenticated
  /\ leaving' = leaving \cup {token}
  /\ UNCHANGED <<host, token, me, asked, refreshed, screen, hidden, mixed>>

(* loadSession finds the session seven days old.                           *)
SessionExpires(s) ==
  /\ s \in valid /\ edits < MaxEdits
  /\ valid' = valid \ {s} /\ edits' = edits + 1
  /\ UNCHANGED <<owner, chats, parent, runs, session, screen, hidden, mixed>>

LogoutAnswers(s) ==
  /\ s \in leaving /\ leaving' = leaving \ {s}
  /\ Becomes(0, NoUser)
  /\ UNCHANGED <<host, asked, refreshed, stop, reading, recents, hidden, mixed>>

(* The page is loaded again; the token is in localStorage.                 *)
ReloadPage ==
  /\ token # 0 /\ edits < MaxEdits
  /\ edits' = edits + 1
  /\ me' = NoUser /\ leaving' = {} /\ asked' = {token} /\ refreshed' = {}
  /\ listed' = [c \in ChatIds |-> Gone] /\ stop' = [c \in ChatIds |-> 0]
  /\ folders' = [p \in Projects |-> Gone]
  /\ reading' = {} /\ lists' = {} /\ recents' = {} /\ opens' = {} /\ todo' = {}
  /\ hidden' = DOMAIN runs
  /\ UNCHANGED <<owner, valid, chats, parent, runs, token, mixed>>

-----------------------------------------------------------------------------
(* The list of chats and the stop buttons *)

\* Mutant: entries that the answer does not name stay.
ListMerges(a) ==
  /\ a \in lists /\ lists' = lists \ {a}
  /\ listed' = [c \in ChatIds |-> IF a.rows[c] = Gone THEN listed[c] ELSE a.rows[c]]
  /\ mixed' = (mixed \/ a.of # UserOf(token))
  /\ UNCHANGED <<host, session, stop, reading, folders, recents, opens, todo, hidden>>

(* setMessages replaces the list, whoever is signed in by now.             *)
ListAnswers(a) ==
  /\ a \in lists /\ lists' = lists \ {a}
  /\ listed' = a.rows
  /\ mixed' = (mixed \/ a.of # UserOf(token))
  /\ UNCHANGED <<host, session, stop, reading, folders, recents, opens, todo, hidden>>

(* Every five seconds                                                      *)
PollChats ==
  /\ IsAuthenticated /\ AskChats
  /\ UNCHANGED <<host, session, listed, stop, reading, folders, recents, opens, todo, hidden,
                 mixed>>

PollRuns ==
  /\ IsAuthenticated /\ AskRecent
  /\ UNCHANGED <<host, session, listed, stop, reading, folders, lists, opens, todo, mixed>>

\* Mutant: the button is looked up by chat, not by run.
WithoutChats(ended) ==
  [c \in ChatIds |-> IF \E r \in ended : runs[r].chat = c THEN 0 ELSE stop[c]]

WithoutEnded(ended) == [c \in ChatIds |-> IF stop[c] \in ended THEN 0 ELSE stop[c]]

RecentAnswers(a) ==
  /\ a \in recents /\ recents' = recents \ {a}
  /\ stop' = WithoutEnded(a.ended)
  /\ UNCHANGED <<host, session, listed, reading, folders, lists, opens, todo, hidden, mixed>>

(* upsertMessage: an entry that is there keeps its name and project.       *)
Entry(c, u) == IF listed[c] # Gone THEN listed[c] ELSE [of |-> u, in |-> Root, name |-> "first"]

(* A message is sent in a chat; the host stores the chat with its first.   *)
RunStarts(c) ==
  LET n == Len(runs) + 1
      row == Entry(c, me) IN
  /\ IsAuthenticated /\ token \in valid /\ n <= MaxRuns
  /\ chats[c] = Gone \/ Own(owner[token], c) # Gone
  /\ \A r \in DOMAIN runs : runs[r].chat = c => runs[r].st = "ended" /\ stop[c] # r
  /\ runs' = Append(runs, [chat |-> c, of |-> owner[token], st |-> "running", old |-> FALSE])
  /\ chats' = [chats EXCEPT ![c] = IF @ = Gone THEN [row EXCEPT !.of = owner[token]] ELSE @]
  /\ listed' = [listed EXCEPT ![c] = row]
  /\ stop' = [stop EXCEPT ![c] = n] /\ reading' = reading \cup {n}
  /\ UNCHANGED <<owner, valid, parent, edits, session, folders, lists, recents, opens, todo, hidden,
                 mixed>>

(* Events of a run: a step or a tool fails, the run goes on, it completes. *)
RunGoes(r, st) ==
  /\ runs[r].st # "ended" /\ runs[r].st # st
  /\ runs' = [runs EXCEPT ![r].st = st]
  /\ UNCHANGED <<owner, valid, chats, parent, edits, session, screen, hidden, mixed>>

(* The row of a run that has not ended is an hour old.                     *)
RunAges(r) ==
  /\ runs[r].st # "ended" /\ ~runs[r].old
  /\ edits < MaxEdits /\ edits' = edits + 1
  /\ runs' = [runs EXCEPT ![r].old = TRUE]
  /\ UNCHANGED <<owner, valid, chats, parent, session, screen, hidden, mixed>>

(* The complete event of a run whose output has not been streamed enters   *)
(* its chat in the list, whoever is signed in by now: a logout takes the   *)
(* view away and leaves its stream to be read.                             *)
StreamCompletes(r) ==
  /\ r \in reading /\ runs[r].st = "ended"
  /\ reading' = reading \ {r}
  /\ listed' = [listed EXCEPT ![runs[r].chat] = Entry(runs[r].chat, runs[r].of)]
  /\ mixed' = (mixed \/ runs[r].of # UserOf(token))
  /\ UNCHANGED <<host, session, stop, folders, lists, recents, opens, todo, hidden>>

(* finishRun: on the finished message, or when the stream breaks off.      *)
StreamEnds(r) ==
  /\ stop[runs[r].chat] = r
  /\ stop' = [stop EXCEPT ![runs[r].chat] = 0] /\ reading' = reading \ {r}
  /\ hidden' = IF runs[r].st = "ended" THEN hidden ELSE hidden \cup {r}
  /\ UNCHANGED <<host, session, listed, folders, lists, recents, opens, todo, mixed>>

(* handleStopChatRun: 404 and 403 are left to the polls.                   *)
StopRun(c) ==
  /\ stop[c] # 0 /\ token \in valid
  /\ runs[stop[c]].of = owner[token] /\ runs[stop[c]].st # "ended"
  /\ runs' = [runs EXCEPT ![stop[c]].st = "ended"]
  /\ UNCHANGED <<owner, valid, chats, parent, edits, session, screen, hidden, mixed>>

OpenChat(c) ==
  /\ IsAuthenticated /\ token \in valid /\ Own(owner[token], c) # Gone
  /\ opens' = {OpenedChat(c)}
  /\ UNCHANGED <<host, session, listed, stop, reading, folders, lists, recents, todo, hidden,
                 mixed>>

(* A chat that had no run when the host answered loses its button; an      *)
(* answer for a chat that is no longer open was dropped by OpenChat.       *)
OpenAnswers(o) ==
  /\ o \in opens /\ opens' = opens \ {o}
  /\ stop' = [stop EXCEPT ![o.chat] = IF o.run THEN @ ELSE 0]
  /\ hidden' = IF o.run \/ stop[o.chat] = 0 THEN hidden ELSE hidden \cup {stop[o.chat]}
  /\ UNCHANGED <<host, session, listed, reading, folders, lists, recents, todo, mixed>>

-----------------------------------------------------------------------------
(* Edits of chats *)

Edits == IsAuthenticated /\ token \in valid /\ edits < MaxEdits /\ edits' = edits + 1
Awaits(do, c, again) ==
  todo' = todo \cup {[do |-> do, of |-> token, chat |-> c, reload |-> again]}
KeepsView == UNCHANGED <<listed, stop, reading, folders, lists, recents, opens>>

(* DELETE /chats/:id, and the rest after its answer: the list in the       *)
(* history drops the chat, the one in a project also reloads the list, and *)
(* the menu of the open chat only reloads it.                              *)
DeleteChat(c) ==
  /\ Edits /\ listed[c] # Gone
  /\ chats' = IF Own(owner[token], c) # Gone THEN [chats EXCEPT ![c] = Gone] ELSE chats
  /\ IF listed[c].in = Root THEN \E do \in {"drop", "list"} : Awaits(do, c, do = "list")
                            ELSE Awaits("drop", c, TRUE)
  /\ KeepsView /\ UNCHANGED <<owner, valid, parent, runs, session, hidden, mixed>>

(* PATCH /chats/:id updates a row of the user, if there is one.            *)
PatchChat(c, row) ==
  /\ Edits /\ listed[c] # Gone
  /\ chats' = IF Own(owner[token], c) # Gone THEN [chats EXCEPT ![c] = row] ELSE chats
  /\ Awaits("list", c, TRUE)
  /\ KeepsView /\ UNCHANGED <<owner, valid, parent, runs, session, hidden, mixed>>

Moves == {p \in Projects : folders[p] # Gone /\ parent[p] # Gone} \cup {Root}

MoveChat(c) == \E p \in Moves : PatchChat(c, [Own(owner[token], c) EXCEPT !.in = p])
RenameChat(c) == PatchChat(c, [Own(owner[token], c) EXCEPT !.name = "second"])

(* handleCreateProjectChat: an entry that no row stands for yet.           *)
CreateProjectChat(c, p) ==
  /\ Edits /\ folders[p] # Gone
  /\ chats[c] = Gone /\ listed[c] = Gone
  /\ listed' = [listed EXCEPT ![c] = [of |-> me, in |-> p, name |-> "first"]]
  /\ UNCHANGED <<owner, valid, chats, parent, runs, session, stop, reading, folders, lists, recents,
                 opens, todo, hidden, mixed>>

(* Another browser, or another client, changes a row.                      *)
Elsewhere(c) ==
  /\ edits < MaxEdits /\ edits' = edits + 1
  /\ chats[c] # Gone
  /\ \/ chats' = [chats EXCEPT ![c] = Gone]
     \/ chats' = [chats EXCEPT ![c].name = "second"]
  /\ UNCHANGED <<owner, valid, parent, runs, session, screen, hidden, mixed>>

-----------------------------------------------------------------------------
(* Edits of projects *)

ProjectStep(again) ==
  /\ todo' = todo \cup {[do |-> "folders", of |-> token, chat |-> Root, reload |-> again]}
  /\ KeepsView /\ UNCHANGED <<owner, valid, runs, session, hidden, mixed>>

CreateProject(p) ==
  /\ Edits /\ parent[p] = Gone
  /\ parent' = [parent EXCEPT ![p] = Root]
  /\ ProjectStep(TRUE) /\ UNCHANGED chats

(* PATCH /projects/:id writes the parent it is given, and none without one. *)
PatchProject(p, to) ==
  /\ Edits /\ folders[p] # Gone
  /\ parent' = IF parent[p] = Gone THEN parent ELSE [parent EXCEPT ![p] = to]
  /\ ProjectStep(FALSE) /\ UNCHANGED chats

RenameProject(p) == PatchProject(p, Root)
MoveProject(p) == \E q \in Moves \ {p} : PatchProject(p, q)

(* The recursive query of DELETE /projects/:id.                            *)
Below(p) ==
  LET step[n \in Nat] == IF n = 0 THEN {p}
                         ELSE step[n - 1] \cup {q \in Projects : parent[q] \in step[n - 1]}
  IN  step[Cardinality(Projects)]

(* It does not end for a project that is below itself.                     *)
HasEnd(p) == \A q \in Below(p) : parent[q] \notin Below(q)

(* The chats stay, whether or not they were to be deleted as well.         *)
DeleteProject(p) ==
  /\ Edits /\ folders[p] # Gone /\ parent[p] # Gone /\ HasEnd(p)
  /\ parent' = [q \in Projects |-> IF q \in Below(p) THEN Gone ELSE parent[q]]
  /\ chats' = [c \in ChatIds |-> IF chats[c] # Gone /\ chats[c].in \in Below(p)
                               THEN [chats[c] EXCEPT !.in = Root] ELSE chats[c]]
  /\ ProjectStep(TRUE)

-----------------------------------------------------------------------------
(* The rest of a handler, after its answer *)

Drops(h) ==
  /\ h.do = "drop"
  /\ listed' = [listed EXCEPT ![h.chat] = Gone]
  /\ UNCHANGED folders

(* setProjects of a sidebar that is still there.                           *)
ShowsTree(h) ==
  /\ h.do = "projects"
  /\ folders' = IF h.of = token THEN h.tree ELSE folders
  /\ UNCHANGED listed

Continues(h) ==
  /\ h \in todo
  /\ \/ Drops(h)
     \/ ShowsTree(h)
     \/ h.do \in {"list", "folders"} /\ UNCHANGED <<listed, folders>>
  /\ todo' = (todo \ {h}) \cup
             IF h.do = "folders" /\ token \in valid THEN {[Tree EXCEPT !.reload = h.reload]} ELSE {}
  /\ IF h.do # "folders" /\ h.reload /\ token \in valid THEN AskChats ELSE UNCHANGED lists
  /\ UNCHANGED <<host, session, stop, reading, recents, opens, hidden, mixed>>

HandlerFails(h) ==
  /\ h \in todo /\ todo' = todo \ {h}
  /\ UNCHANGED <<host, session, listed, stop, reading, folders, lists, recents, opens, hidden,
                 mixed>>

-----------------------------------------------------------------------------
SessionStep ==
  \/ \E u \in Users : Login(u)
  \/ \E s \in Sessions : UserAnswers(s) \/ UserFails(s) \/ RefreshAnswers(s) \/ RefreshFails(s)
                         \/ LogoutAnswers(s) \/ SessionExpires(s)
  \/ Refresh \/ Logout \/ ReloadPage

Polls == PollChats \/ \E a \in lists : ListAnswers(a)

RunStep ==
  \/ PollRuns
  \/ \E a \in recents : RecentAnswers(a)
  \/ \E c \in ChatIds : RunStarts(c) \/ StopRun(c) \/ OpenChat(c)
  \/ \E r \in DOMAIN runs : RunAges(r) \/ StreamCompletes(r) \/ StreamEnds(r)
  \/ \E r \in DOMAIN runs, st \in {"running", "tripped", "ended"} : RunGoes(r, st)
  \/ \E o \in opens : OpenAnswers(o)

EditStep ==
  \/ \E c \in ChatIds : DeleteChat(c) \/ MoveChat(c) \/ RenameChat(c) \/ Elsewhere(c)
  \/ \E c \in ChatIds, p \in Projects : CreateProjectChat(c, p)
  \/ \E p \in Projects : CreateProject(p) \/ RenameProject(p) \/ MoveProject(p) \/ DeleteProject(p)

Handlers == \E h \in todo : Continues(h) \/ HandlerFails(h)

SidebarNext == SessionStep \/ Polls \/ RunStep \/ EditStep \/ Handlers

(* Timers fire and requests are answered or fail.                          *)
SidebarFairness ==
  /\ WF_sidebarVars(PollChats)
  /\ WF_sidebarVars(\E a \in lists : ListAnswers(a))
  /\ WF_sidebarVars(\E s \in Sessions : LogoutAnswers(s) \/ UserAnswers(s))
  /\ WF_sidebarVars(Handlers)

SidebarSpec == SidebarInit /\ [][SidebarNext]_sidebarVars /\ SidebarFairness

-----------------------------------------------------------------------------
ChatRun == [chat : ChatIds, of : Users, st : {"running", "tripped", "ended"}, old : BOOLEAN]
Forest == [Projects -> Projects \cup {Root, Gone}]
Handler == [do : {"drop", "list", "folders"}, of : Sessions, chat : ChatIds \cup {Root},
            reload : BOOLEAN]
           \cup [do : {"projects"}, of : Sessions, tree : Forest, reload : BOOLEAN]

SidebarTypeOK ==
  /\ owner \in Seq(Users) /\ valid \subseteq Sessions
  /\ chats \in [ChatIds -> Row \cup {Gone}]
  /\ parent \in Forest
  /\ runs \in Seq(ChatRun) /\ edits \in 0 .. MaxEdits
  /\ token \in Sessions \cup {0} /\ me \in Users \cup {NoUser}
  /\ leaving \subseteq Sessions /\ asked \subseteq Sessions /\ refreshed \subseteq Sessions
  /\ listed \in [ChatIds -> Row \cup {Gone}]
  /\ stop \in [ChatIds -> {0} \cup DOMAIN runs] /\ reading \subseteq DOMAIN runs
  /\ folders \in Forest
  /\ lists \subseteq [of : Users, rows : [ChatIds -> Row \cup {Gone}]]
  /\ recents \subseteq [ended : SUBSET DOMAIN runs]
  /\ opens \subseteq [chat : ChatIds, run : BOOLEAN]
  /\ todo \subseteq Handler
  /\ hidden \subseteq DOMAIN runs /\ mixed \in BOOLEAN

(* The name and the chats on the screen are those of the session whose     *)
(* token the requests carry, unless an answer to refresh or to a poll, or  *)
(* the answer of a run on its stream, arrived after its session had ended. *)
(* (AuthProvider, loadChats, the complete event in handleSend)             *)
OneUserOnScreen ==
  ~mixed => /\ me \in {NoUser, UserOf(token)}
            /\ \A c \in ChatIds : listed[c] # Gone => listed[c].of = UserOf(token)

(* The stop button of a run that this page started stays until the run     *)
(* ends, but for four ways: an answer taken while an error was the last    *)
(* event, or of a run more than an hour old, a stream that broke off, and  *)
(* a chat that was loaded before the run started.  (the poll of the runs,  *)
(* finishRun, fetchHistory)                                                *)
StopButtonStays ==
  \A r \in DOMAIN runs : \/ runs[r].st = "ended" \/ r \in hidden
                         \/ stop[runs[r].chat] = r

(* When the edits stop, the list becomes that of the host and stays so,    *)
(* whatever answers were under way and in whatever order they arrive.      *)
(* (the interval that calls loadChats)                                     *)
ListCatchesUp ==
  <>[](IsAuthenticated /\ token \in valid => listed = RowsOf(owner[token]))
=============================================================================
