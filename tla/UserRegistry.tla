---------------------------- MODULE UserRegistry ----------------------------
(***************************************************************************)
(* The user registry of src/orca/user.go (UserList).  Web requests resolve *)
(* a task token with GetUserByWebToken: a lookup under ul.lock, then, on a *)
(* miss, an HTTP call to the token checker with the lock released, then a *)
(* second critical section that registers the user.  SSH logins resolve a *)
(* uid with GetUserFromSSH in one critical section.  Every critical       *)
(* section is one step; the only interleaving is between the two halves   *)
(* of GetUserByWebToken.  A User object is a member of Objs.              *)
(***************************************************************************)
EXTENDS Naturals, FiniteSets

CONSTANTS
    Callers,     \* concurrent request goroutines
    Tokens,      \* task tokens presented by web clients
    Names,       \* user names (user.ID)
    Owner,       \* the token checker's answer: Tokens -> Names
    Objs,        \* User objects that may be allocated
    None

ASSUME Owner \in [Tokens -> Names] /\ None \notin Objs

VARIABLES
    users,          \* ul.users: Names -> Objs \cup {None}
    usersByWebtoken,\* ul.usersByWebtoken: Tokens -> Objs \cup {None}
    objID,          \* ui.ID of every allocated User object (None: not allocated)
    pc,             \* "idle", "http" (checking the token), "relock"
    tok,            \* the token the caller resolves
    name,           \* the name the checker answered
    got             \* the User each call returned, per caller

vars == <<users, usersByWebtoken, objID, pc, tok, name, got>>

Init ==
    /\ users = [n \in Names |-> None]
    /\ usersByWebtoken = [t \in Tokens |-> None]
    /\ objID = [o \in Objs |-> None]
    /\ pc = [c \in Callers |-> "idle"]
    /\ tok = [c \in Callers |-> None]
    /\ name = [c \in Callers |-> None]
    /\ got = [c \in Callers |-> {}]

\* `ui = &User{ID: n, ...}`: a fresh object
NewUser(o, n) ==
    /\ objID[o] = None
    /\ objID' = [objID EXCEPT ![o] = n]

\* the call returns User o to caller c
Return(c, o) ==
    /\ pc' = [pc EXCEPT ![c] = "idle"]
    /\ got' = [got EXCEPT ![c] = @ \cup {o}]

\* mutant: the cache lookup's `found` is not tested, a miss returns nil
LookupTokenIgnoringFound(c, t) ==
    /\ pc[c] = "idle"
    /\ tok' = [tok EXCEPT ![c] = t]
    /\ Return(c, usersByWebtoken[t])
    /\ UNCHANGED <<users, usersByWebtoken, objID, name>>

\* GetUserByWebToken, first critical section: a hit returns at once
LookupToken(c, t) ==
    /\ pc[c] = "idle"
    /\ tok' = [tok EXCEPT ![c] = t]
    /\ IF usersByWebtoken[t] # None
         THEN Return(c, usersByWebtoken[t])
         ELSE /\ pc' = [pc EXCEPT ![c] = "http"] /\ UNCHANGED got
    /\ UNCHANGED <<users, usersByWebtoken, objID, name>>

\* client.PostForm to ORCA_HTTP_TOKEN_CHECKER, lock released: 200 with the
\* owner's name, or an error, a 403 or another status, which end the call
CheckToken(c) ==
    /\ pc[c] = "http"
    /\ \/ /\ name' = [name EXCEPT ![c] = Owner[tok[c]]]
          /\ pc' = [pc EXCEPT ![c] = "relock"]
       \/ /\ pc' = [pc EXCEPT ![c] = "idle"]
          /\ UNCHANGED name
    /\ UNCHANGED <<users, usersByWebtoken, objID, tok, got>>

\* mutant: the second critical section does not look the name up again
RegisterWithoutNameCheck(c) ==
    LET t == tok[c] IN
    /\ pc[c] = "relock"
    /\ IF usersByWebtoken[t] # None
         THEN /\ Return(c, usersByWebtoken[t])
              /\ UNCHANGED <<users, usersByWebtoken, objID>>
         ELSE \E o \in Objs :
                /\ NewUser(o, name[c])
                /\ users' = [users EXCEPT ![name[c]] = o]
                /\ usersByWebtoken' = [usersByWebtoken EXCEPT ![t] = o]
                /\ Return(c, o)
    /\ UNCHANGED <<tok, name>>

(* GetUserByWebToken, second critical section: the token may have been   *)
(* registered, or the name may have got a User, while the lock was free;  *)
(* otherwise a new User is made and registered under both keys.  Setting  *)
(* ui.taskToken under ui.lock is a field write no property reads.         *)
Register(c) ==
    LET t == tok[c]
        n == name[c] IN
    /\ pc[c] = "relock"
    /\ CASE usersByWebtoken[t] # None ->
              /\ Return(c, usersByWebtoken[t])
              /\ UNCHANGED <<users, usersByWebtoken, objID>>
         [] users[n] # None ->
              /\ usersByWebtoken' = [usersByWebtoken EXCEPT ![t] = users[n]]
              /\ Return(c, users[n])
              /\ UNCHANGED <<users, objID>>
         [] OTHER ->
              \E o \in Objs :
                /\ NewUser(o, n)
                /\ users' = [users EXCEPT ![n] = o]
                /\ usersByWebtoken' = [usersByWebtoken EXCEPT ![t] = o]
                /\ Return(c, o)
    /\ UNCHANGED <<tok, name>>

\* mutant: GetUserFromSSH makes a new User without looking the uid up
GetUserFromSSHAlwaysNew(c, n) ==
    /\ pc[c] = "idle"
    /\ \E o \in Objs :
         /\ NewUser(o, n)
         /\ users' = [users EXCEPT ![n] = o]
         /\ Return(c, o)
    /\ UNCHANGED <<usersByWebtoken, tok, name>>

\* GetUserFromSSH: one critical section, lookup or create by uid
GetUserFromSSH(c, n) ==
    /\ pc[c] = "idle"
    /\ IF users[n] # None
         THEN /\ Return(c, users[n])
              /\ UNCHANGED <<users, objID>>
         ELSE \E o \in Objs :
                /\ NewUser(o, n)
                /\ users' = [users EXCEPT ![n] = o]
                /\ Return(c, o)
    /\ UNCHANGED <<usersByWebtoken, tok, name>>

Next ==
    \E c \in Callers :
        \/ \E t \in Tokens : LookupToken(c, t)
        \/ CheckToken(c)
        \/ Register(c)
        \/ \E n \in Names : GetUserFromSSH(c, n)

Spec == Init /\ [][Next]_vars

-----------------------------------------------------------------------------
TypeOK ==
    /\ users \in [Names -> Objs \cup {None}]
    /\ usersByWebtoken \in [Tokens -> Objs \cup {None}]
    /\ objID \in [Objs -> Names \cup {None}]
    /\ pc \in [Callers -> {"idle", "http", "relock"}]
    /\ got \in [Callers -> SUBSET Objs]

(* Whatever the interleaving of web requests (several tokens of one user, *)
(* or one token presented twice, both missing the first lookup and both   *)
(* calling the checker) and SSH logins, every call for one name returns   *)
(* the same User object: the second critical section of GetUserByWebToken *)
(* must look the token and the name up again after the HTTP call (spec   *)
(* 4.4: binding is atomic with a re-check under lock, so concurrent first *)
(* use does not make duplicate users).                                    *)
OneUserPerName ==
    \A o1, o2 \in UNION {got[c] : c \in Callers} :
        objID[o1] = objID[o2] => o1 = o2

(* A token resolves to the User the checker named for it, for ever.       *)
TokenResolvesToOwner ==
    \A t \in Tokens : usersByWebtoken[t] # None =>
        /\ objID[usersByWebtoken[t]] = Owner[t]
        /\ users[Owner[t]] = usersByWebtoken[t]
=============================================================================
