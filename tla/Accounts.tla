--------------------------------- MODULE Accounts ---------------------------------
(***************************************************************************)
(* The accounts: the handlers register, login, getCurrentUser and          *)
(* updateUser of src/internal/transport/http, the methods of               *)
(* src/internal/users/users.go and the statements of users/store/store.go. *)
(*                                                                         *)
(* One action per statement.  A profile update first reads the account for *)
(* the address it keeps, and then runs an UPDATE that takes the fields the *)
(* request has and leaves the others, so that two devices of one user can  *)
(* change different fields at once.  The hash of a password is compared by *)
(* what it is the hash of, and the first name, last name and nickname are  *)
(* one field.  The handlers createUser, deleteUser and searchUsers are on  *)
(* no route: no account is ever deleted.                                   *)
(***************************************************************************)
EXTENDS Integers

CONSTANTS Slot,        \* places for requests in flight: bounds their number
          Id,          \* the ids of the table: bounds the number of accounts
          Email, Name, Password,
          Empty,       \* the empty string
          None,        \* NULL, an absent field, a free slot
          Body,        \* the bodies a client can send
          MaxFaults    \* bound on lost connections, crashes, failures

VARIABLES users,       \* table users
          tokens,      \* the accounts a client holds a token of; they do not expire
          req,         \* the requests in flight
          known,       \* history: what the clients know each field may be
          faults       \* history: how many faults so far

vars == <<users, tokens, req, known, faults>>

BodyType == [email : Email \cup {None}, name : Name \cup {Empty, None},
             pass : Password \cup {Empty, None}]
Row == [email : Email, name : Name, pass : Password \cup {Empty}]
Values == [name : SUBSET Name, pass : SUBSET (Password \cup {Empty})]
Errors == {"invalid", "validation", "not_found", "wrong", "unknown", "panic"}

\* seen: what others may have written, or the reader may see, since the request.
Request == [op : {"register", "login", "get", "update"}, id : Id \cup {None},
            body : BodyType \cup {None},
            pc : {"insert", "by_email", "get", "update", "reply"},
            row : Row \cup {None}, err : Errors \cup {None}, seen : Values]

ASSUME BodyAssumption == Body \subseteq BodyType

ASSUME NoneAssumption ==
  /\ None \notin Request \cup BodyType \cup Row \cup Id \cup Errors
  /\ None \notin Email \cup Name \cup Password \cup {Empty}
  /\ Empty \notin Name \cup Password

ASSUME FaultsAssumption == MaxFaults \in Nat

TypeOK ==
  /\ users \in [Id -> Row \cup {None}]
  /\ tokens \subseteq Id
  /\ req \in [Slot -> Request \cup {None}]
  /\ known \in [Id -> Values]
  /\ faults \in 0..MaxFaults

NoValues == [name |-> {}, pass |-> {}]

Init ==
  /\ users = [i \in Id |-> None]
  /\ tokens = {}
  /\ req = [r \in Slot |-> None]
  /\ known = [i \in Id |-> NoValues]
  /\ faults = 0
--------------------------------------------------------------------------------
(* What a client can know of a field: the values sent since the last that  *)
(* was answered.                                                           *)

Merge(v, w) == [name |-> v.name \cup w.name, pass |-> v.pass \cup w.pass]

Carried(b) == [name |-> {b.name} \ {None, Empty}, pass |-> {b.pass} \ {None, Empty}]

\* The request is about account i, with u the table.
Concerns(q, i, u) ==
  \/ q.op \in {"get", "update"} /\ q.id = i
  \/ q.op = "login" /\ u[i] # None /\ u[i].email = q.body.email

Told(i, v, u) == [r \in Slot |->
  IF req[r] # None /\ Concerns(req[r], i, u)
  THEN [req[r] EXCEPT !.seen = Merge(@, v)] ELSE req[r]]

\* The values of the updates of i that are in flight.
Pending(i) ==
  LET qs == {req[r].body : r \in {s \in Slot :
               req[s] # None /\ req[s].op = "update" /\ req[s].id = i}}
  IN [name |-> UNION {Carried(b).name : b \in qs},
      pass |-> UNION {Carried(b).pass : b \in qs}]

\* After the answer a field is what it was set to, or what another sent since.
Settle(sent, seen, before) == IF sent = {} THEN before ELSE sent \cup seen
--------------------------------------------------------------------------------
At(r, pc) == req[r] # None /\ req[r].pc = pc
GoTo(r, pc) == req' = [req EXCEPT ![r].pc = pc]
Refuse(r, e) == req' = [req EXCEPT ![r].pc = "reply", ![r].err = e]

New(op, i, b, pc, err, seen) ==
  [op |-> op, id |-> i, body |-> b, pc |-> pc, row |-> None, err |-> err, seen |-> seen]

\* An address that does not match the pattern is as good as none.  A request
\* without a password panics in CreateUser, before the INSERT.
SubmitRegister(r, b) ==
  /\ req[r] = None
  /\ LET err == IF b.email = None THEN "invalid"
                ELSE IF b.pass = None THEN "panic" ELSE None
     IN req' = [req EXCEPT ![r] =
          New("register", None, b, IF err = None THEN "insert" ELSE "reply", err, NoValues)]
  /\ UNCHANGED <<users, tokens, known, faults>>

\* A field that is missing from a login is the empty string.
SubmitLogin(r, b) ==
  /\ req[r] = None
  /\ b.email # None /\ b.pass # None /\ b.name = None
  /\ LET mine == {i \in Id : users[i] # None /\ users[i].email = b.email}
     IN req' = [req EXCEPT ![r] = New("login", None, b, "by_email", None,
          [name |-> UNION {known[i].name : i \in mine},
           pass |-> UNION {known[i].pass : i \in mine}])]
  /\ UNCHANGED <<users, tokens, known, faults>>

SubmitGet(r, i) ==
  /\ req[r] = None /\ i \in tokens
  /\ req' = [req EXCEPT ![r] = New("get", i, None, "get", None, known[i])]
  /\ UNCHANGED <<users, tokens, known, faults>>

SubmitUpdate(r, i, b) ==
  /\ req[r] = None /\ i \in tokens
  /\ req' = [Told(i, Carried(b), users) EXCEPT ![r] =
               New("update", i, b, "get", None, Pending(i))]
  /\ known' = [known EXCEPT ![i] = Merge(@, Carried(b))]
  /\ UNCHANGED <<users, tokens, faults>>
--------------------------------------------------------------------------------
\* The address belongs to another account than i.
Taken(e, i) == \E j \in Id \ {i} : users[j] # None /\ users[j].email = e

MutNamed(b) == b.name # Empty

\* NOT NULL, and for the nickname CHECK (nickname <> '').  The password is
\* hashed before: no hash is empty.
Named(b) == b.name \in Name

\* INSERT INTO users ... RETURNING *
InsertRow(r, i) ==
  /\ At(r, "insert")
  /\ users[i] = None
  /\ Named(req[r].body) /\ ~Taken(req[r].body.email, None)
  /\ users' = [users EXCEPT ![i] = req[r].body]

Inserted(i) ==
  known' = [known EXCEPT ![i] = [name |-> {users'[i].name}, pass |-> {users'[i].pass}]]

\* The logins with the address of a new account may find it.
Heard ==
  LET new == {i \in Id : users[i] = None /\ users'[i] # None}
  IN IF new = {} THEN req
     ELSE LET i == CHOOSE j \in new : TRUE IN Told(i, known'[i], users')

InsertUser(r) ==
  /\ \/ \E i \in Id :
          /\ InsertRow(r, i) /\ Inserted(i)
          /\ req' = [Heard EXCEPT ![r].pc = "reply", ![r].id = i]
     \/ /\ At(r, "insert")
        /\ ~Named(req[r].body) \/ Taken(req[r].body.email, None)
        /\ Refuse(r, "validation")
        /\ UNCHANGED <<users, known>>
  /\ UNCHANGED <<tokens, faults>>

MutMatches(hash, p) == p = Empty \/ p = hash

\* bcrypt.CompareHashAndPassword
Matches(hash, p) == p = hash

\* SELECT by email, and the comparison of the password with what was read.
GetUserByEmail(r) ==
  /\ At(r, "by_email")
  /\ LET mine == {i \in Id : users[i] # None /\ users[i].email = req[r].body.email}
     IN \/ mine = {} /\ Refuse(r, "not_found")
        \/ \E i \in mine :
             \/ /\ Matches(users[i].pass, req[r].body.pass)
                /\ req' = [req EXCEPT ![r].pc = "reply", ![r].id = i]
             \/ ~Matches(users[i].pass, req[r].body.pass) /\ Refuse(r, "wrong")
  /\ UNCHANGED <<users, tokens, known, faults>>

\* json.Unmarshal made the embedded *User: the body had one of its fields.
HasUser(b) == b.email # None \/ b.name # None

\* SELECT by the id in the token.  For updateUser then the body is parsed and
\* the id and address of the account put into it.
GetUser(r) ==
  /\ At(r, "get")
  /\ \/ req[r].op = "get"
        /\ req' = [req EXCEPT ![r].pc = "reply", ![r].row = users[req[r].id]]
     \/ /\ req[r].op = "update" /\ HasUser(req[r].body)
        /\ req' = [req EXCEPT ![r].pc = "update", ![r].row = users[req[r].id]]
     \/ req[r].op = "update" /\ ~HasUser(req[r].body) /\ Refuse(r, "panic")
  /\ UNCHANGED <<users, tokens, known, faults>>

MutEmailOf(r) == IF req[r].body.email = None THEN req[r].row.email ELSE req[r].body.email

\* "Email can not be changed on profile update": the one GetUser read.
EmailOf(r) == req[r].row.email

Coalesce(v, w) == IF v = None THEN w ELSE v

MutCurrent(r) == req[r].row

\* The row the UPDATE finds.
Current(r) == users[req[r].id]

\* No constraint stops the UPDATE; an empty password is not hashed.
Accepted(r) ==
  /\ req[r].body.name # Empty /\ req[r].body.pass # Empty
  /\ ~Taken(EmailOf(r), req[r].id)

\* UPDATE users SET ... COALESCE(...) WHERE id
UpdateRow(r) ==
  /\ At(r, "update") /\ Accepted(r)
  /\ users' = [users EXCEPT ![req[r].id] =
       [email |-> EmailOf(r),
        name |-> Coalesce(req[r].body.name, Current(r).name),
        pass |-> Coalesce(req[r].body.pass, Current(r).pass)]]

UpdateUser(r) ==
  /\ \/ /\ UpdateRow(r)
        /\ req' = [req EXCEPT ![r].pc = "reply"]
     \/ At(r, "update") /\ ~Accepted(r) /\ Refuse(r, "validation") /\ UNCHANGED users
  /\ UNCHANGED <<tokens, known, faults>>

\* register and login answer with a token.  The connection of a request that
\* panicked is closed: net/http recovers.
Reply(r) ==
  /\ At(r, "reply")
  /\ req' = [req EXCEPT ![r] = None]
  /\ LET q == req[r]
         c == Carried(q.body)
     IN /\ tokens' = IF q.err = None /\ q.op \in {"register", "login"}
                     THEN tokens \cup {q.id} ELSE tokens
        /\ known' = IF q.err = None /\ q.op = "update"
                    THEN [known EXCEPT ![q.id] =
                            [name |-> Settle(c.name, q.seen.name, @.name),
                             pass |-> Settle(c.pass, q.seen.pass, @.pass)]]
                    ELSE known
  /\ UNCHANGED <<users, faults>>
--------------------------------------------------------------------------------
Fault == faults < MaxFaults /\ faults' = faults + 1

\* The statement r waits for may be executed, or not.
Write(r) ==
  \/ \E i \in Id : InsertRow(r, i) /\ Inserted(i)
  \/ UpdateRow(r) /\ UNCHANGED known
  \/ UNCHANGED <<users, known>>

Disconnect(r) ==
  /\ Fault
  /\ req[r] # None
  /\ Write(r)
  /\ req' = [Heard EXCEPT ![r] = None]
  /\ UNCHANGED tokens

\* A statement fails, or its result is lost.
StatementFails(r) ==
  /\ Fault
  /\ req[r] # None /\ req[r].pc # "reply"
  /\ Write(r)
  /\ req' = [Heard EXCEPT ![r].pc = "reply", ![r].err = "unknown"]
  /\ UNCHANGED tokens

Crash ==
  /\ Fault
  /\ req' = [r \in Slot |-> None]
  /\ UNCHANGED <<users, tokens, known>>

Handle(r) ==
  InsertUser(r) \/ GetUserByEmail(r) \/ GetUser(r) \/ UpdateUser(r) \/ Reply(r)

Next ==
  \/ \E r \in Slot :
       \/ \E b \in Body :
            \/ SubmitRegister(r, b) \/ SubmitLogin(r, b)
            \/ \E i \in Id : SubmitUpdate(r, i, b)
       \/ \E i \in Id : SubmitGet(r, i)
       \/ Handle(r) \/ Disconnect(r) \/ StatementFails(r)
  \/ Crash

Spec == Init /\ [][Next]_vars
--------------------------------------------------------------------------------
(***************************************************************************)
(* An account keeps its address for ever, whatever profile updates,        *)
(* concurrent ones too, send: assignments and logins go by it.             *)
(***************************************************************************)
EmailKept ==
  [][\A i \in Id : users[i] # None =>
       users'[i] # None /\ users'[i].email = users[i].email]_vars

(***************************************************************************)
(* No change is lost: a field an update was answered for stays until       *)
(* another update sends that field, however many updates of other fields   *)
(* read the account before and write it after; and a profile that is read  *)
(* shows what the fields may have been while it was.                       *)
(***************************************************************************)
ChangesStand ==
  /\ \A i \in Id : users[i] # None =>
       users[i].name \in known[i].name /\ users[i].pass \in known[i].pass
  /\ \A r \in Slot : At(r, "reply") /\ req[r].op = "get" /\ req[r].row # None =>
       req[r].row.name \in req[r].seen.name

(***************************************************************************)
(* A login is answered with a token only for a password the account with   *)
(* that address may have had meanwhile, and refused as wrong only if it    *)
(* may have had another, though passwords change between its steps.        *)
(***************************************************************************)
PasswordDecides ==
  \A r \in Slot : At(r, "reply") /\ req[r].op = "login" =>
    /\ req[r].err = None => /\ req[r].body.pass \in req[r].seen.pass
                            /\ users[req[r].id].email = req[r].body.email
    /\ req[r].err = "wrong" => req[r].seen.pass # {req[r].body.pass}
=================================================================================
