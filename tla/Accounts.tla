------------------------------ MODULE Accounts ------------------------------
(***************************************************************************)
(* Users, their firebase ids and their handles: the first login of a       *)
(* firebase id (ConnectionMgr::user_from_fid, Db::mk_user_for_fid) and the *)
(* change of a handle (BughouseServer::set_handle, Db::set_handle), with   *)
(* the tables users, firebase_users and handles (bughouse.cql) and the     *)
(* caches in memory.                                                       *)
(*                                                                         *)
(* Both are sequences of queries on the one arbiter thread, any number of  *)
(* them in flight; each query may fail and ends its request then.  An      *)
(* INSERT ... IF NOT EXISTS that finds a row changes nothing, and the code *)
(* does not look at whether it was applied.                                *)
(***************************************************************************)
EXTENDS Naturals, FiniteSets

CONSTANTS
  Fid,      \* firebase ids
  Uid,      \* the uuids that now() hands out, never twice
  Handle,   \* the handles, by default or by choice
  NoUid, NoHandle, NoFid,
  Task,     \* slots for requests in flight
  Careful   \* no two requests at a time for one firebase id or user

ASSUME AccountsAssumption ==
  /\ NoUid \notin Uid
  /\ NoFid \notin Fid
  /\ NoHandle \notin Handle
  /\ Careful \in BOOLEAN

VARIABLES
  firebaseUsers,  \* table firebase_users, by firebase_id
  handles,        \* table handles, by handle
  userFid,        \* column firebase_id of table users, by id; NoFid: no row
  userHandle,     \* column handle of table users
  fidUsers,       \* ConnectionMgr.fid_users
  memHandle,      \* User.handle of Users.users; NoHandle: not cached
  task            \* the requests in flight

accountVars == <<firebaseUsers, handles, userFid, userHandle, fidUsers, memHandle, task>>

tables == <<firebaseUsers, handles, userFid, userHandle>>

Idle == [stage |-> "idle", f |-> NoFid, u |-> NoUid, h |-> NoHandle]

\* Named so that UsersProofs can extend Connections as well.
AccountsInit ==
  /\ firebaseUsers = [f \in Fid |-> NoUid]
  /\ handles = [h \in Handle |-> NoUid]
  /\ userFid = [u \in Uid |-> NoFid]
  /\ userHandle = [u \in Uid |-> NoHandle]
  /\ fidUsers = [f \in Fid |-> NoUid]
  /\ memHandle = [u \in Uid |-> NoHandle]
  /\ task = [t \in Task |-> Idle]

At(t, stage) == task[t].stage = stage
Goto(t, stage) == task' = [task EXCEPT ![t].stage = stage]

\* The request ends, in success or in error.
Finish(t) == task' = [task EXCEPT ![t] = Idle]

\* INSERT ... IF NOT EXISTS of uid u under the key k.
InsertNew(table, k, u) == IF table[k] = NoUid THEN [table EXCEPT ![k] = u] ELSE table

\* A uuid that now() has not handed out yet.
Fresh(u) == /\ userFid[u] = NoFid
            /\ \A t \in Task : task[t].u # u
            /\ \A f \in Fid : firebaseUsers[f] # u
            /\ \A h \in Handle : handles[h] # u

RowsOf(f) == {u \in Uid : userFid[u] = f}

-----------------------------------------------------------------------------
(* Login *)

\* user_from_fid: a cached firebase id needs no query.
Login(t, f) ==
  /\ At(t, "idle")
  /\ \A u \in Uid : fidUsers[f] = u => memHandle[u] = NoHandle
  /\ Careful => \A o \in Task : task[o].f # f
  /\ task' = [task EXCEPT ![t] = [Idle EXCEPT !.stage = "lookup", !.f = f]]
  /\ UNCHANGED <<tables, fidUsers, memHandle>>

\* user_from_fid after the query: both caches are written.
CacheUser(u, f, h) ==
  /\ fidUsers' = [fidUsers EXCEPT ![f] = u]
  /\ memHandle' = [memHandle EXCEPT ![u] = h]

\* get_user_from_fid finds a row, any if there are several.
FoundUser(t) ==
  /\ At(t, "lookup")
  /\ \E u \in RowsOf(task[t].f) : CacheUser(u, task[t].f, userHandle[u])
  /\ Finish(t)
  /\ UNCHANGED tables

\* Mutant: the row that was found is not used.
MakeUserAlways(t) ==
  /\ At(t, "lookup")
  /\ \E u \in Uid :
       /\ Fresh(u)
       /\ task' = [task EXCEPT ![t].stage = "newFid", ![t].u = u]
  /\ UNCHANGED <<tables, fidUsers, memHandle>>

\* ... or none: mk_user_for_fid draws a uuid.
MakeUser(t) ==
  /\ At(t, "lookup")
  /\ RowsOf(task[t].f) = {}
  /\ \E u \in Uid :
       /\ Fresh(u)
       /\ task' = [task EXCEPT ![t].stage = "newFid", ![t].u = u]
  /\ UNCHANGED <<tables, fidUsers, memHandle>>

\* new_player_handle: the row of firebase_users, then that of handles.
InsertFirebaseUser(t) ==
  /\ At(t, "newFid")
  /\ firebaseUsers' = InsertNew(firebaseUsers, task[t].f, task[t].u)
  /\ Goto(t, "newHandle")
  /\ UNCHANGED <<handles, userFid, userHandle, fidUsers, memHandle>>

\* Mutant: the new user's handle is not registered.
SkipDefaultHandle(t) ==
  /\ At(t, "newHandle")
  /\ \E h \in Handle : task' = [task EXCEPT ![t].stage = "newUser", ![t].h = h]
  /\ UNCHANGED <<tables, fidUsers, memHandle>>

\* The default handle may be any, one of another user's too: it is made of 32
\* bits of the uuid, or of two words that they select.
InsertDefaultHandle(t) ==
  /\ At(t, "newHandle")
  /\ \E h \in Handle :
       /\ handles' = InsertNew(handles, h, task[t].u)
       /\ task' = [task EXCEPT ![t].stage = "newUser", ![t].h = h]
  /\ UNCHANGED <<firebaseUsers, userFid, userHandle, fidUsers, memHandle>>

\* The row of users, an unconditional insert.
InsertUser(t) ==
  /\ At(t, "newUser")
  /\ userFid' = [userFid EXCEPT ![task[t].u] = task[t].f]
  /\ userHandle' = [userHandle EXCEPT ![task[t].u] = task[t].h]
  /\ Goto(t, "newRating")
  /\ UNCHANGED <<firebaseUsers, handles, fidUsers, memHandle>>

\* add_rating, and back in user_from_fid.
NewUserDone(t) ==
  /\ At(t, "newRating")
  /\ CacheUser(task[t].u, task[t].f, task[t].h)
  /\ Finish(t)
  /\ UNCHANGED tables

-----------------------------------------------------------------------------
(* Change of handle *)

\* queue_set_handle, for a user who is logged in; nothing is asked of the
\* handle, which may be another user's.
SetHandle(t, u, h) ==
  /\ At(t, "idle")
  /\ memHandle[u] # NoHandle
  /\ Careful => \A o \in Task : task[o].u # u
  /\ task' = [task EXCEPT ![t] = [Idle EXCEPT !.stage = "setHandle",
                                              !.u = u, !.h = h]]
  /\ UNCHANGED <<tables, fidUsers, memHandle>>

\* update_handle: the handle is registered, if it is free.
RegisterHandle(t) ==
  /\ At(t, "setHandle")
  /\ handles' = InsertNew(handles, task[t].h, task[t].u)
  /\ Goto(t, "setUser")
  /\ UNCHANGED <<firebaseUsers, userFid, userHandle, fidUsers, memHandle>>

\* Mutant: memory first.
CacheHandleFirst(t) ==
  /\ At(t, "setUser")
  /\ memHandle' = [memHandle EXCEPT ![task[t].u] = task[t].h]
  /\ Goto(t, "setMem")
  /\ UNCHANGED <<tables, fidUsers>>

\* ... and becomes the user's, registered or not.
UpdateUser(t) ==
  /\ At(t, "setUser")
  /\ userHandle' = [userHandle EXCEPT ![task[t].u] = task[t].h]
  /\ Goto(t, "setMem")
  /\ UNCHANGED <<firebaseUsers, handles, userFid, fidUsers, memHandle>>

\* set_handle after db.set_handle.
SetHandleDone(t) ==
  /\ At(t, "setMem")
  /\ memHandle' = [memHandle EXCEPT ![task[t].u] = task[t].h]
  /\ Finish(t)
  /\ UNCHANGED <<tables, fidUsers>>

\* A query fails; what was written before stays.
QueryFails(t) ==
  /\ task[t].stage \in {"lookup", "newFid", "newHandle", "newUser", "newRating",
                        "setHandle", "setUser"}
  /\ Finish(t)
  /\ UNCHANGED <<tables, fidUsers, memHandle>>

\* The server restarts.
Restart ==
  /\ fidUsers' = [f \in Fid |-> NoUid]
  /\ memHandle' = [u \in Uid |-> NoHandle]
  /\ task' = [t \in Task |-> Idle]
  /\ UNCHANGED tables

AccountsNext ==
  \/ \E t \in Task, f \in Fid : Login(t, f)
  \/ \E t \in Task, u \in Uid, h \in Handle : SetHandle(t, u, h)
  \/ \E t \in Task :
       \/ FoundUser(t)
       \/ MakeUser(t)
       \/ InsertFirebaseUser(t)
       \/ InsertDefaultHandle(t)
       \/ InsertUser(t)
       \/ NewUserDone(t)
       \/ RegisterHandle(t)
       \/ UpdateUser(t)
       \/ SetHandleDone(t)
       \/ QueryFails(t)
  \/ Restart

AccountsSpec == AccountsInit /\ [][AccountsNext]_accountVars

-----------------------------------------------------------------------------
(* Properties *)

\* A firebase id has one user: queries that fail halfway and restarts in the
\* middle of a first login leave no second row of users behind.  Requests
\* are careful.
OneUserPerFid == \A f \in Fid : Cardinality(RowsOf(f)) <= 1

\* The handle of every user is registered, to whomever: wherever queries fail
\* and the server restarts, no row of users has a handle that IF NOT EXISTS
\* would still give to somebody new.  Requests need not be careful.
HandleRegistered ==
  \A u \in Uid : userFid[u] # NoFid => handles[userHandle[u]] # NoUid

\* The handle that the server shows is the one in the database, unless a
\* request is about to bring it there.  Requests are careful.
CacheAgrees ==
  \A u \in Uid :
    memHandle[u] # NoHandle =>
      \/ memHandle[u] = userHandle[u]
      \/ \E t \in Task : At(t, "setMem") /\ task[t].u = u /\ task[t].h = userHandle[u]
=============================================================================
