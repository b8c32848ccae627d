----------------------------- MODULE Connections -----------------------------
(***************************************************************************)
(* Who is online: ConnectionMgr (connection_mgr.rs), with the closing of a *)
(* socket (bug_web_sock.rs, BughouseServer::on_close), the handlers that   *)
(* are told when a user goes offline, and the clients that show a list of  *)
(* the users who are online (UsersProvider.js).                            *)
(*                                                                         *)
(* Two maps say so, each under its own lock: conns, from a connection to   *)
(* its user, and user_conns, from a user to his connections.  The arbiter  *)
(* adds connections once firebase and the database have answered; the      *)
(* threads of the sockets remove them; any thread drops one from           *)
(* user_conns when it fails to send to it.  One action is one critical     *)
(* section.  Under the lock of user_conns the subscribers of the list are  *)
(* told of the change.  A client that subscribes gets the whole list from  *)
(* its own thread, past its mailbox.                                       *)
(***************************************************************************)
EXTENDS Naturals, Sequences

CONSTANTS
  User,
  Conn,
  NoUser,
  Owner,    \* Owner[c]: the user that logs in over connection c
  Patient,  \* a socket does not close while its login is under way
  Settled,  \* a client that subscribes anew has no change in its mailbox
            \* that is older than the list it gets
  Viewer,   \* the connections whose clients look at the list
  MailboxSize

ASSUME ConnectionsAssumption ==
  /\ NoUser \notin User
  /\ Owner \in [Conn -> User]
  /\ Patient \in BOOLEAN /\ Settled \in BOOLEAN
  /\ Viewer \subseteq Conn
  /\ MailboxSize \in Nat

VARIABLES
  socket,     \* "open" | "listing" (subscribed, without the list as yet) |
              \* "removing" | "removed" (steps of on_close) | "closed"
  login,      \* "none" | "asked" | "adding" (between the maps) | "done"
  conns,      \* ConnectionMgr.conns: conns[c] is its user, or NoUser
  userConns,  \* ConnectionMgr.user_conns: sets of connections
  known,      \* the users that are keys of user_conns
  offline,    \* Offline messages on their way to the handlers
  panicked,   \* a socket thread ran into the expect of on_close
  subs,       \* ConnectionMgr.subs: who is told of users that come and go
  mailbox,    \* mailbox[c]: the changes on their way to a socket
  list        \* list[c]: the users that the client shows

listVars == <<subs, mailbox, list>>
vars == <<socket, login, conns, userConns, known, offline, panicked, listVars>>

Change == [user : User, online : BOOLEAN]

Init ==
  /\ socket = [c \in Conn |-> "open"]
  /\ login = [c \in Conn |-> "none"]
  /\ conns = [c \in Conn |-> NoUser]
  /\ userConns = [u \in User |-> {}]
  /\ known = {}
  /\ offline = {}
  /\ panicked = FALSE
  /\ subs = {}
  /\ mailbox = [c \in Conn |-> <<>>]
  /\ list = [c \in Conn |-> {}]

Open(c) == socket[c] \in {"open", "listing"}

\* online_users.
Online(u) == userConns[u] # {}

\* Mutant: a subscriber with a full mailbox misses a change and stays.
NotifyOnlineSubsLeniently(u, online) ==
  LET told == {c \in subs : Open(c) /\ Len(mailbox[c]) < MailboxSize} IN
  /\ mailbox' = [c \in Conn |-> IF c \in told
                    THEN Append(mailbox[c], [user |-> u, online |-> online])
                    ELSE mailbox[c]]
  /\ UNCHANGED <<subs, list>>

\* notify_online_subs, always under the lock of user_conns.  A subscriber
\* whose mailbox is full or closed is struck (under a second guard of subs;
\* that he subscribes anew just before it is left out).
NotifyOnlineSubs(u, online) ==
  LET told == {c \in subs : Open(c) /\ Len(mailbox[c]) < MailboxSize} IN
  /\ subs' = told
  /\ mailbox' = [c \in Conn |-> IF c \in told
                    THEN Append(mailbox[c], [user |-> u, online |-> online])
                    ELSE mailbox[c]]
  /\ UNCHANGED list

-----------------------------------------------------------------------------
(* The arbiter: authenticate *)

\* The client sends its token, once.
Auth(c) ==
  /\ socket[c] = "open"
  /\ login[c] = "none"
  /\ login' = [login EXCEPT ![c] = "asked"]
  /\ UNCHANGED <<socket, conns, userConns, known, offline, panicked, listVars>>

\* Mutant: the section on conns is left out.
AddConnNowhere(c) ==
  /\ login[c] = "asked"
  /\ login' = [login EXCEPT ![c] = "adding"]
  /\ UNCHANGED <<socket, conns, userConns, known, offline, panicked, listVars>>

\* add_conn after its queries, as far as conns.  The arbiter is one thread:
\* no other login is between its two sections.
AddConn(c) ==
  /\ login[c] = "asked"
  /\ \A d \in Conn : login[d] # "adding"
  /\ conns' = [conns EXCEPT ![c] = Owner[c]]
  /\ login' = [login EXCEPT ![c] = "adding"]
  /\ UNCHANGED <<socket, userConns, known, offline, panicked, listVars>>

\* Mutant: the set of a new user starts out with every connection.
AddUserConnAll(c) ==
  /\ login[c] = "adding"
  /\ login' = [login EXCEPT ![c] = "done"]
  /\ userConns' = [userConns EXCEPT ![Owner[c]] = {d \in Conn : conns[d] # NoUser}]
  /\ known' = known \cup {Owner[c]}
  /\ UNCHANGED <<socket, conns, offline, panicked, listVars>>

\* The rest of add_conn: the first connection of a user, or the first after
\* a while, is news.
AddUserConn(c) ==
  LET u == Owner[c] IN
  /\ login[c] = "adding"
  /\ login' = [login EXCEPT ![c] = "done"]
  /\ userConns' = [userConns EXCEPT ![u] = @ \cup {c}]
  /\ known' = known \cup {u}
  /\ IF Online(u) THEN UNCHANGED listVars ELSE NotifyOnlineSubs(u, TRUE)
  /\ UNCHANGED <<socket, conns, offline, panicked>>

\* authenticate fails: nobody is logged in.
AuthFails(c) ==
  /\ login[c] = "asked"
  /\ login' = [login EXCEPT ![c] = "none"]
  /\ UNCHANGED <<socket, conns, userConns, known, offline, panicked, listVars>>

-----------------------------------------------------------------------------
(* Socket threads *)

\* The socket closes, by the client or for want of pings; on_close looks for
\* the connection in conns and has nothing to do if it is not there.
Close(c) ==
  /\ socket[c] = "open"
  /\ Patient => login[c] \notin {"asked", "adding"}
  /\ socket' = [socket EXCEPT ![c] = IF conns[c] = NoUser THEN "closed"
                                                          ELSE "removing"]
  /\ UNCHANGED <<login, conns, userConns, known, offline, panicked, listVars>>

\* remove_conn as far as conns.  No other thread removes this connection.
RemoveConn(c) ==
  /\ socket[c] = "removing"
  /\ conns' = [conns EXCEPT ![c] = NoUser]
  /\ socket' = [socket EXCEPT ![c] = "removed"]
  /\ UNCHANGED <<login, userConns, known, offline, panicked, listVars>>

\* Mutant: the last connection goes without a word.
RemoveUserConnSilently(c) ==
  /\ socket[c] = "removed"
  /\ socket' = [socket EXCEPT ![c] = "closed"]
  /\ userConns' = [userConns EXCEPT ![Owner[c]] = @ \ {c}]
  /\ UNCHANGED <<login, conns, known, offline, panicked, listVars>>

\* The rest of remove_conn.  The handlers and subscribers are told under the
\* lock of user_conns when the set is empty now, even if it was before.  A
\* user that is no key of the map is an error, and on_close expects there is
\* none.
RemoveUserConn(c) ==
  LET u == Owner[c] IN
  /\ socket[c] = "removed"
  /\ socket' = [socket EXCEPT ![c] = "closed"]
  /\ IF u \in known
       THEN /\ userConns' = [userConns EXCEPT ![u] = @ \ {c}]
            /\ IF userConns[u] \subseteq {c}
                 THEN offline' = offline \cup {u} /\ NotifyOnlineSubs(u, FALSE)
                 ELSE UNCHANGED <<offline, listVars>>
            /\ UNCHANGED panicked
       ELSE /\ panicked' = TRUE
            /\ UNCHANGED <<userConns, offline, listVars>>
  /\ UNCHANGED <<login, conns, known>>

\* send_to_user finds the socket closed: the connection leaves user_conns,
\* not conns, and nobody is told, the last connection or not.
SendFails(c) ==
  /\ ~Open(c)
  /\ c \in userConns[Owner[c]] /\ conns[c] # NoUser
  /\ userConns' = [userConns EXCEPT ![Owner[c]] = @ \ {c}]
  /\ UNCHANGED <<socket, login, conns, known, offline, panicked, listVars>>

\* GameUserHandler and SeekUserHandler take the message: the user gives up
\* his seat at a table and his seek (Games!OnOfflineUser, Seeks!CleanUser),
\* online again or not.
HandleOffline(u) ==
  /\ u \in offline
  /\ offline' = offline \ {u}
  /\ UNCHANGED <<socket, login, conns, userConns, known, panicked, listVars>>

-----------------------------------------------------------------------------
(* The list of online players *)

\* ensure_authed.  That the socket hears of its login a moment later is left
\* out.
Authed(c) == socket[c] = "open" /\ login[c] = "done" /\ conns[c] # NoUser

\* "sub_online_players" registers the connection first ...
Sub(c) ==
  /\ Authed(c)
  /\ Settled => c \in subs \/ mailbox[c] = <<>>
  /\ subs' = subs \cup {c}
  /\ socket' = [socket EXCEPT ![c] = "listing"]
  /\ UNCHANGED <<login, conns, userConns, known, offline, panicked, mailbox, list>>

ShowOnline(c) == list' = [list EXCEPT ![c] = {u \in User : Online(u)}]

\* ... and then sends the list, get_online_players_msg, past the mailbox.
SubReply(c) ==
  /\ socket[c] = "listing"
  /\ ShowOnline(c)
  /\ socket' = [socket EXCEPT ![c] = "open"]
  /\ UNCHANGED <<login, conns, userConns, known, offline, panicked, subs, mailbox>>

\* "online_players": the list alone.
OnlinePlayers(c) ==
  /\ Authed(c)
  /\ ShowOnline(c)
  /\ UNCHANGED <<socket, login, conns, userConns, known, offline, panicked,
                 subs, mailbox>>

\* "unsub_online_players"; what is in the mailbox still comes.
Unsub(c) ==
  /\ Authed(c)
  /\ subs' = subs \ {c}
  /\ UNCHANGED <<socket, login, conns, userConns, known, offline, panicked,
                 mailbox, list>>

\* The client takes the next change (onUpdate).
Deliver(c) ==
  /\ socket[c] = "open"
  /\ mailbox[c] # <<>>
  /\ LET change == Head(mailbox[c]) IN
       list' = [list EXCEPT ![c] = IF change.online THEN @ \cup {change.user}
                                                   ELSE @ \ {change.user}]
  /\ mailbox' = [mailbox EXCEPT ![c] = Tail(@)]
  /\ UNCHANGED <<socket, login, conns, userConns, known, offline, panicked, subs>>

ArbiterStep(c) == AddConn(c) \/ AddUserConn(c) \/ AuthFails(c)

CloseStep(c) == RemoveConn(c) \/ RemoveUserConn(c)

Next ==
  \/ \E c \in Conn : Auth(c)
  \/ \E c \in Conn : ArbiterStep(c)
  \/ \E c \in Conn : Close(c)
  \/ \E c \in Conn : CloseStep(c)
  \/ \E c \in Conn : SendFails(c)
  \/ \E u \in User : HandleOffline(u)
  \/ \E c \in Viewer :
       \/ Sub(c)
       \/ SubReply(c)
       \/ OnlinePlayers(c)
       \/ Unsub(c)
       \/ Deliver(c)

Spec == Init /\ [][Next]_vars

\* Threads run; the arbiter works through its messages.
Fairness == /\ \A c \in Conn : WF_vars(ArbiterStep(c)) /\ WF_vars(CloseStep(c))
            /\ \A u \in User : WF_vars(HandleOffline(u))

FairSpec == Spec /\ Fairness

-----------------------------------------------------------------------------
(* Properties *)

\* Type invariant: connections are filed under their own users.
TypeOK ==
  /\ socket \in [Conn -> {"open", "listing", "removing", "removed", "closed"}]
  /\ login \in [Conn -> {"none", "asked", "adding", "done"}]
  /\ conns \in [Conn -> User \cup {NoUser}]
  /\ userConns \in [User -> SUBSET Conn]
  /\ \A c \in Conn : conns[c] \in {NoUser, Owner[c]}
  /\ \A u \in User : \A c \in userConns[u] : Owner[c] = u
  /\ known \subseteq User
  /\ offline \subseteq User
  /\ panicked \in BOOLEAN
  /\ subs \subseteq Viewer
  /\ mailbox \in [Conn -> Seq(Change)]
  /\ list \in [Conn -> SUBSET User]

\* Where sockets stay open while they log in, the two maps agree on every
\* connection that no thread is at work on, and a user is online exactly
\* as long as he has such a connection: there are no ghosts.
MapsAgree ==
  \A c \in Conn :
    /\ Open(c) /\ login[c] # "adding" =>
         (conns[c] # NoUser <=> c \in userConns[Owner[c]])
    /\ socket[c] = "closed" => conns[c] = NoUser /\ c \notin userConns[Owner[c]]

\* A user whose connections send_to_user has dropped, while a socket of his
\* is on its way out: nobody has been told of it.
Dropped(u) ==
  ~Online(u) /\ \E c \in Conn : Owner[c] = u /\ socket[c] \in {"removing", "removed"}

\* What the list says once the mailbox is empty is who is online: a client is
\* registered before its list is made, so that the list may overtake changes
\* in the mailbox but none is missed; changes are sent in the order in which
\* they happen; a client that misses one is no subscriber any more.  Only
\* users whom send_to_user has dropped may be shown too long.  Clients are
\* settled: who subscribes anew while an old change waits in the mailbox
\* takes it after the list, and has missed the later ones.
ListIsCurrent ==
  \A c \in subs :
    socket[c] = "open" /\ mailbox[c] = <<>> =>
      \A u \in User : /\ Online(u) => u \in list[c]
                      /\ u \in list[c] => Online(u) \/ Dropped(u)

\* Whoever stays away gives up seat and seek: after the last connection of a
\* logged-in user is gone the handlers hear of it, or he comes back.
\* send_to_user's silence does not matter: on_close reports the empty set
\* again.  Sockets are patient, mailboxes have room.
AbsenceIsReported ==
  \A c \in Conn :
    login[c] = "done" /\ socket[c] = "removing" ~>
      Owner[c] \in offline \/ Online(Owner[c])
=============================================================================
