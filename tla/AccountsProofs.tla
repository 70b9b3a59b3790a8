------------------------------ MODULE AccountsProofs ------------------------------
(***************************************************************************)
(* Proofs about Accounts, for any number of requests, accounts, values and *)
(* faults.                                                                 *)
(***************************************************************************)
EXTENDS Accounts, TLAPS

\* What a request is by the time it stands before a statement.
RequestOK(q) ==
  /\ q.op # "get" => q.body # None
  /\ q.op \in {"get", "update"} => q.id # None
  /\ q.op = "get" => q.pc \in {"get", "reply"}
  /\ q.op = "update" => q.pc \in {"get", "update", "reply"}
  /\ q.op = "register" => q.pc \in {"insert", "reply"}
  /\ q.op = "login" => q.pc \in {"by_email", "reply"} /\ q.body.email # None
  /\ q.pc = "insert" => q.body.email # None /\ q.body.pass # None
  /\ q.pc # "reply" => q.err = None
  /\ q.pc = "get" => q.row = None
  /\ q.op \in {"register", "login"} /\ q.pc = "reply" /\ q.err = None => q.id # None

TypeInv == TypeOK /\ \A r \in Slot : req[r] # None => RequestOK(req[r])

\* The fields of a row are among the values v; the values v are among the values w.
Shown(u, v) == u.name \in v.name /\ u.pass \in v.pass
Within(v, w) == v.name \subseteq w.name /\ v.pass \subseteq w.pass

IsUpdate(q, i) == q # None /\ q.op = "update" /\ q.id = i

\* What a request goes by is an account that exists, under the address it read.
ExistsFor(q) ==
  q # None /\ q.id # None =>
    /\ users[q.id] # None
    /\ q.pc = "update" => q.row # None /\ q.row.email = users[q.id].email

\* A request that reads an account has seen what its fields are.
SeesRow(q) ==
  q # None => \A i \in Id : users[i] # None /\ Concerns(q, i, users) /\ q.op # "update" =>
    Shown(users[i], q.seen)

\* An update that was executed finds its fields as it set them, or as another did.
Stands(q) ==
  q # None /\ q.op = "update" /\ q.pc = "reply" /\ q.err = None =>
    LET i == q.id
        c == Carried(q.body)
    IN /\ c.name # {} => users[i].name \in c.name \cup q.seen.name
       /\ c.pass # {} => users[i].pass \in c.pass \cup q.seen.pass

\* What an answer says was so at some time since the request.
AnswerHolds(q) ==
  q # None /\ q.pc = "reply" =>
    /\ q.op = "get" /\ q.row # None => q.row.name \in q.seen.name
    /\ q.op = "login" /\ q.err = None =>
         q.body.pass \in q.seen.pass /\ users[q.id].email = q.body.email
    /\ q.op = "login" /\ q.err = "wrong" => \E p \in q.seen.pass : p # q.body.pass

\* Whoever deals with an account knows what the others in flight may write.
Hears ==
  \A r, s \in Slot : \A i \in Id :
    /\ r # s /\ req[r] # None /\ IsUpdate(req[s], i) /\ Concerns(req[r], i, users) =>
         Within(Carried(req[s].body), req[r].seen)
    /\ IsUpdate(req[s], i) => Within(Carried(req[s].body), known[i])

KnownShows == \A i \in Id : users[i] # None => Shown(users[i], known[i])

TokensExist == \A i \in tokens : users[i] # None

RequestInv(q) == ExistsFor(q) /\ SeesRow(q) /\ Stands(q) /\ AnswerHolds(q)

AccountInv ==
  /\ TypeInv /\ TokensExist /\ KnownShows /\ Hears
  /\ \A r \in Slot : RequestInv(req[r])
--------------------------------------------------------------------------------
(* What a step may do to the table and to the requests of others.          *)

\* Accounts keep their addresses, and their fields change only to what r carries.
Rewrites(r) ==
  \A i \in Id : users[i] # None =>
    /\ users'[i] # None /\ users'[i].email = users[i].email
    /\ \/ users'[i].name = users[i].name
       \/ IsUpdate(req[r], i) /\ users'[i].name \in Carried(req[r].body).name
    /\ \/ users'[i].pass = users[i].pass
       \/ IsUpdate(req[r], i) /\ users'[i].pass \in Carried(req[r].body).pass

NoNewRow == \A i \in Id : users'[i] # None => users[i] # None

\* x may have heard of values, and is y.
Listens(x, y) ==
  \/ y = x
  \/ /\ x # None /\ y # None
     /\ y.op = x.op /\ y.id = x.id /\ y.body = x.body
     /\ y.pc = x.pc /\ y.row = x.row /\ y.err = x.err
     /\ Within(x.seen, y.seen)

LEMMA CarriedTyped ==
  ASSUME NEW b \in BodyType
  PROVE  Carried(b) \in Values
BY DEF Carried, BodyType, Values

LEMMA MergeTyped ==
  ASSUME NEW v \in Values, NEW w \in Values
  PROVE  Merge(v, w) \in Values /\ Within(v, Merge(v, w)) /\ Within(w, Merge(v, w))
BY DEF Merge, Values, Within

LEMMA ARequest ==
  ASSUME TypeInv, NEW r \in Slot, req[r] # None
  PROVE  /\ req[r] \in Request /\ RequestOK(req[r])
         /\ req[r].seen \in Values
         /\ req[r].op # "get" => req[r].body \in BodyType
         /\ req[r].op \in {"get", "update"} => req[r].id \in Id
<1>1. req[r] \in Request /\ RequestOK(req[r])
  BY DEF TypeInv, TypeOK
<1>2. PICK q : q = req[r]
  OBVIOUS
<1>3. q \in Request /\ RequestOK(q)
  BY <1>1, <1>2
<1>4. /\ q.seen \in Values
      /\ q.op # "get" => q.body \in BodyType
      /\ q.op \in {"get", "update"} => q.id \in Id
  BY <1>3 DEF Request, RequestOK
<1> QED
  BY <1>1, <1>2, <1>4

\* An update in flight, and a profile that is read, are of an account.
LEMMA AnAccount ==
  ASSUME AccountInv, NEW s \in Slot, req[s] # None,
         NEW i \in Id, req[s].op \in {"get", "update"}, req[s].id = i
  PROVE  users[i] # None
<1>1. i # None
  BY NoneAssumption
<1> QED
  BY <1>1 DEF AccountInv, RequestInv, ExistsFor

\* Of an account that was there, the same requests are concerned as before.
LEMMA SameConcern ==
  ASSUME NEW r \in Slot, Rewrites(r), NEW x, NEW y, Listens(x, y),
         x # None, NEW i \in Id, users[i] # None
  PROVE  y # None /\ (Concerns(y, i, users') <=> Concerns(x, i, users))
BY DEF Rewrites, Listens, Concerns

\* What holds for a request goes on to, whatever r writes.
LEMMA Others ==
  ASSUME AccountInv, NEW r \in Slot, Rewrites(r),
         NEW s \in Slot \ {r}, req[s] # None,
         NEW y \in Request, Listens(req[s], y),
         \A i \in Id : users[i] = None /\ users'[i] # None /\ Concerns(y, i, users')
           /\ y.op # "update" => Shown(users'[i], y.seen)
  PROVE  RequestOK(y) /\ RequestInv(y)'
<1>1. PICK x : x = req[s]
  OBVIOUS
<1>2. /\ x # None /\ x \in Request /\ RequestOK(x) /\ Listens(x, y)
      /\ ExistsFor(x) /\ SeesRow(x) /\ Stands(x) /\ AnswerHolds(x)
  BY <1>1, ARequest DEF AccountInv, RequestInv
<1>3. /\ y # None /\ y.op = x.op /\ y.id = x.id /\ y.body = x.body
      /\ y.pc = x.pc /\ y.row = x.row /\ y.err = x.err
      /\ Within(x.seen, y.seen)
  BY <1>2 DEF Listens, Within
<1>4. RequestOK(y)
  BY <1>2, <1>3 DEF RequestOK
<1>5. x.id \in Id \cup {None}
  BY <1>2 DEF Request
<1>6. ExistsFor(y)'
  BY <1>2, <1>3, <1>5 DEF ExistsFor, Rewrites
<1>7. ASSUME NEW i \in Id, Concerns(x, i, users), IsUpdate(req[r], i)
      PROVE  Within(Carried(req[r].body), x.seen)
  BY <1>1, <1>2, <1>7 DEF AccountInv, Hears
<1>8. SeesRow(y)'
  <2>1. SUFFICES ASSUME NEW i \in Id, users'[i] # None, Concerns(y, i, users'), y.op # "update"
                 PROVE  Shown(users'[i], y.seen)
    BY DEF SeesRow
  <2>2. CASE users[i] = None
    BY <2>1, <2>2
  <2>3. CASE users[i] # None
    <3>1. Concerns(x, i, users)
      BY <1>2, <2>1, <2>3, SameConcern
    <3>2. Shown(users[i], x.seen)
      BY <1>2, <1>3, <2>1, <2>3, <3>1 DEF SeesRow
    <3> QED
      BY <1>3, <1>7, <2>3, <3>1, <3>2 DEF Rewrites, Shown, Within
  <2> QED
    BY <2>2, <2>3
<1>9. Stands(y)'
  <2>1. SUFFICES ASSUME y.op = "update", y.pc = "reply", y.err = None
                 PROVE  /\ Carried(y.body).name # {} =>
                             users'[y.id].name \in Carried(y.body).name \cup y.seen.name
                        /\ Carried(y.body).pass # {} =>
                             users'[y.id].pass \in Carried(y.body).pass \cup y.seen.pass
    BY DEF Stands
  <2>2. PICK i : i = x.id
    OBVIOUS
  <2>3. i \in Id /\ users[i] # None /\ Concerns(x, i, users)
    BY <1>1, <1>2, <1>3, <2>1, <2>2, ARequest, AnAccount DEF AccountInv, Concerns
  <2>4. /\ Carried(x.body).name # {} => users[i].name \in Carried(x.body).name \cup x.seen.name
        /\ Carried(x.body).pass # {} => users[i].pass \in Carried(x.body).pass \cup x.seen.pass
    BY <1>2, <1>3, <2>1, <2>2 DEF Stands
  <2> QED
    BY <1>3, <1>7, <2>2, <2>3, <2>4 DEF Rewrites, Within
<1>10. AnswerHolds(y)'
  <2>1. SUFFICES ASSUME y.pc = "reply"
                 PROVE  /\ y.op = "get" /\ y.row # None => y.row.name \in y.seen.name
                        /\ y.op = "login" /\ y.err = None =>
                             /\ y.body.pass \in y.seen.pass
                             /\ users'[y.id].email = y.body.email
                        /\ y.op = "login" /\ y.err = "wrong" =>
                             \E p \in y.seen.pass : p # y.body.pass
    BY DEF AnswerHolds
  <2>2. y.op = "login" /\ y.err = None => x.id \in Id /\ users[x.id] # None
    BY <1>2, <1>3, <1>5, <2>1 DEF RequestOK, ExistsFor
  <2> QED
    BY <1>2, <1>3, <2>1, <2>2 DEF AnswerHolds, Within, Rewrites
<1> QED
  BY <1>4, <1>6, <1>8, <1>9, <1>10 DEF RequestInv

\* One request becomes y, the others have heard at most, and the table is
\* written for r at most.
LEMMA Moves ==
  ASSUME AccountInv, NEW r \in Slot, NEW y \in Request \cup {None},
         Rewrites(r), users' \in [Id -> Row \cup {None}],
         req' \in [Slot -> Request \cup {None}], req'[r] = y,
         \A s \in Slot \ {r} : Listens(req[s], req'[s]),
         \A s \in Slot \ {r} : \A i \in Id :
           /\ req'[s] # None /\ users[i] = None /\ users'[i] # None
           /\ Concerns(req'[s], i, users') /\ req'[s].op # "update"
           => Shown(users'[i], req'[s].seen),
         known' \in [Id -> Values],
         \A i \in Id : users'[i] # None => Shown(users'[i], known'[i]),
         \A s \in Slot \ {r} : \A i \in Id :
           IsUpdate(req[s], i) => Within(Carried(req[s].body), known'[i]),
         y # None => RequestOK(y) /\ RequestInv(y)',
         \A i \in Id : IsUpdate(y, i) => Within(Carried(y.body), known'[i]),
         \A s \in Slot \ {r} : \A i \in Id :
           /\ y # None /\ IsUpdate(req[s], i) /\ Concerns(y, i, users')
              => Within(Carried(req[s].body), y.seen)
           /\ req'[s] # None /\ IsUpdate(y, i) /\ Concerns(req'[s], i, users')
              => Within(Carried(y.body), req'[s].seen),
         tokens' \subseteq Id, \A i \in tokens' : users'[i] # None,
         faults' \in 0..MaxFaults
  PROVE  AccountInv'
<1>1. ASSUME NEW s \in Slot \ {r}
      PROVE  /\ req'[s] # None => RequestOK(req'[s]) /\ RequestInv(req[s])'
             /\ req[s] = None <=> req'[s] = None
  <2>1. req[s] = None <=> req'[s] = None
    BY DEF Listens
  <2>2. ASSUME req'[s] # None
        PROVE  RequestOK(req'[s]) /\ RequestInv(req[s])'
    <3>1. PICK z : z = req'[s]
      OBVIOUS
    <3>2. z \in Request /\ z # None /\ Listens(req[s], z) /\ req[s] # None
      BY <2>1, <2>2, <3>1
    <3>3. \A i \in Id : users[i] = None /\ users'[i] # None /\ Concerns(z, i, users')
            /\ z.op # "update" => Shown(users'[i], z.seen)
      BY <3>1, <3>2
    <3>4. RequestOK(z) /\ RequestInv(z)'
      BY <3>2, <3>3, Others
    <3> QED
      BY <3>1, <3>4 DEF RequestInv, ExistsFor, SeesRow, Stands, AnswerHolds
  <2> QED
    BY <2>1, <2>2
<1>2. TypeInv'
  BY <1>1 DEF TypeInv, TypeOK
<1>3. TokensExist' /\ KnownShows'
  BY DEF TokensExist, KnownShows
<1>4. ASSUME NEW s \in Slot
      PROVE  RequestInv(req[s])'
  <2>1. CASE s = r
    BY <2>1 DEF RequestInv, ExistsFor, SeesRow, Stands, AnswerHolds
  <2>2. CASE s # r /\ req'[s] # None
    BY <1>1, <2>2
  <2>3. CASE req'[s] = None
    BY <2>3 DEF RequestInv, ExistsFor, SeesRow, Stands, AnswerHolds
  <2> QED
    BY <2>1, <2>2, <2>3
<1>5. ASSUME NEW s \in Slot, NEW t \in Slot, NEW i \in Id,
             s # t, req'[s] # None, IsUpdate(req'[t], i), Concerns(req'[s], i, users')
      PROVE  Within(Carried(req'[t].body), req'[s].seen)
  <2>0. t # r => req[t] # None /\ IsUpdate(req[t], i) /\ req'[t].body = req[t].body
    BY <1>5 DEF Listens, IsUpdate
  <2>1. CASE s = r
    BY <1>5, <2>0, <2>1
  <2>2. CASE s # r /\ t = r
    BY <1>5, <2>2
  <2>3. CASE s # r /\ t # r
    <3>1. users[i] # None
      BY <2>0, <2>3, AnAccount DEF IsUpdate
    <3>2. req[s] # None /\ Concerns(req[s], i, users)
      BY <1>1, <1>5, <2>3, <3>1, SameConcern
    <3>3. Within(Carried(req[t].body), req[s].seen)
      BY <1>5, <2>0, <2>3, <3>2 DEF AccountInv, Hears
    <3> QED
      BY <2>0, <2>3, <3>3 DEF Listens, Within
  <2> QED
    BY <2>1, <2>2, <2>3
<1>6. ASSUME NEW t \in Slot, NEW i \in Id, IsUpdate(req'[t], i)
      PROVE  Within(Carried(req'[t].body), known'[i])
  <2>1. CASE t = r
    BY <1>6, <2>1
  <2>2. CASE t # r
    <3>1. IsUpdate(req[t], i) /\ req'[t].body = req[t].body
      BY <1>6, <2>2 DEF Listens, IsUpdate
    <3> QED
      BY <2>2, <3>1
  <2> QED
    BY <2>1, <2>2
<1>7. Hears'
  BY <1>5, <1>6 DEF Hears
<1> QED
  BY <1>2, <1>3, <1>4, <1>7 DEF AccountInv

\* The table as it is, or with the fields r carries, shows what is known.
LEMMA KnownStays ==
  ASSUME AccountInv, NEW r \in Slot, Rewrites(r), NoNewRow, UNCHANGED known
  PROVE  /\ known' \in [Id -> Values]
         /\ \A i \in Id : users'[i] # None => Shown(users'[i], known'[i])
         /\ \A s \in Slot : \A i \in Id :
              IsUpdate(req[s], i) => Within(Carried(req[s].body), known'[i])
<1>1. known' \in [Id -> Values]
  BY DEF AccountInv, TypeInv, TypeOK
<1>2. \A s \in Slot : \A i \in Id :
        IsUpdate(req[s], i) => Within(Carried(req[s].body), known[i])
  BY DEF AccountInv, Hears
<1>3. \A i \in Id : users[i] # None => Shown(users[i], known[i])
  BY DEF AccountInv, KnownShows
<1> QED
  BY <1>1, <1>2, <1>3 DEF Rewrites, NoNewRow, Shown, Within

LEMMA RowsStay ==
  ASSUME AccountInv, NEW r \in Slot, UNCHANGED users
  PROVE  Rewrites(r) /\ NoNewRow /\ users' \in [Id -> Row \cup {None}]
BY DEF Rewrites, NoNewRow, AccountInv, TypeInv, TypeOK

LEMMA TokensStay ==
  ASSUME AccountInv, NEW r \in Slot, Rewrites(r), UNCHANGED tokens
  PROVE  tokens' \subseteq Id /\ \A i \in tokens' : users'[i] # None
BY DEF Rewrites, AccountInv, TypeInv, TypeOK, TokensExist

LEMMA FaultsStay ==
  ASSUME AccountInv, faults' = faults \/ Fault
  PROVE  faults' \in 0..MaxFaults
BY FaultsAssumption DEF AccountInv, TypeInv, TypeOK, Fault

\* A request goes on, or ends, with a statement of its own at most.
LEMMA SameRequest ==
  ASSUME AccountInv, NEW r \in Slot, req[r] # None, NEW y \in Request \cup {None},
         Rewrites(r), NoNewRow, users' \in [Id -> Row \cup {None}], UNCHANGED known,
         req' = [req EXCEPT ![r] = y],
         y # None => /\ y.op = req[r].op /\ y.body = req[r].body /\ y.seen = req[r].seen
                     /\ y.op \in {"get", "update"} => y.id = req[r].id
                     /\ RequestOK(y) /\ ExistsFor(y)' /\ Stands(y)' /\ AnswerHolds(y)',
         tokens' \subseteq Id, \A i \in tokens' : users'[i] # None,
         faults' \in 0..MaxFaults
  PROVE  AccountInv'
<1>1. /\ req \in [Slot -> Request \cup {None}] /\ req'[r] = y
      /\ req' \in [Slot -> Request \cup {None}]
      /\ \A s \in Slot \ {r} : req'[s] = req[s] /\ Listens(req[s], req'[s])
  BY DEF AccountInv, TypeInv, TypeOK, Listens
<1>2. PICK x : x = req[r]
  OBVIOUS
<1>3. ASSUME NEW i \in Id, users[i] # None, y # None
      PROVE  Concerns(y, i, users') <=> Concerns(x, i, users)
  BY <1>2, <1>3 DEF Concerns, Rewrites
<1>4. /\ \A i \in Id : IsUpdate(y, i) => IsUpdate(x, i)
      /\ y # None => y.body = x.body /\ y.seen = x.seen /\ y.op = x.op
  BY <1>2 DEF IsUpdate
<1>5. \A i \in Id : IsUpdate(y, i) => Within(Carried(y.body), known'[i])
  BY <1>2, <1>4, KnownStays DEF IsUpdate
<1>6. ASSUME NEW s \in Slot \ {r}, NEW i \in Id
      PROVE  /\ y # None /\ IsUpdate(req[s], i) /\ Concerns(y, i, users')
                => Within(Carried(req[s].body), y.seen)
             /\ req'[s] # None /\ IsUpdate(y, i) /\ Concerns(req'[s], i, users')
                => Within(Carried(y.body), req'[s].seen)
  <2>1. ASSUME y # None, IsUpdate(req[s], i), Concerns(y, i, users')
        PROVE  Within(Carried(req[s].body), y.seen)
    <3>1. users[i] # None
      BY <2>1, AnAccount DEF IsUpdate
    <3> QED
      BY <1>2, <1>3, <1>4, <2>1, <3>1 DEF AccountInv, Hears
  <2>2. ASSUME req'[s] # None, IsUpdate(y, i), Concerns(req'[s], i, users')
        PROVE  Within(Carried(y.body), req'[s].seen)
    <3>1. IsUpdate(x, i) /\ users[i] # None /\ Carried(y.body) = Carried(x.body)
      BY <1>2, <1>4, <2>2, AnAccount DEF IsUpdate
    <3>2. req'[s] = req[s] /\ Concerns(req[s], i, users)
      BY <1>1, <2>2, <3>1, SameConcern
    <3> QED
      BY <1>2, <2>2, <3>1, <3>2 DEF AccountInv, Hears
  <2> QED
    BY <2>1, <2>2
<1>7. ASSUME y # None
      PROVE  SeesRow(y)'
  <2>1. SUFFICES ASSUME NEW i \in Id, users'[i] # None, Concerns(y, i, users'), y.op # "update"
                 PROVE  Shown(users'[i], y.seen)
    BY DEF SeesRow
  <2>2. users[i] # None /\ Concerns(x, i, users)
    BY <1>3, <1>7, <2>1 DEF NoNewRow
  <2>3. Shown(users[i], x.seen)
    BY <1>2, <1>4, <1>7, <2>1, <2>2 DEF AccountInv, RequestInv, SeesRow
  <2>4. ~IsUpdate(x, i)
    BY <1>4, <1>7, <2>1 DEF IsUpdate
  <2> QED
    BY <1>2, <1>4, <1>7, <2>2, <2>3, <2>4 DEF Rewrites, Shown
<1>8. y # None => RequestOK(y) /\ RequestInv(y)'
  BY <1>7 DEF RequestInv
<1>9. \A s \in Slot \ {r} : \A i \in Id :
        /\ req'[s] # None /\ users[i] = None /\ users'[i] # None
        /\ Concerns(req'[s], i, users') /\ req'[s].op # "update"
        => Shown(users'[i], req'[s].seen)
  BY DEF NoNewRow
<1> QED
  BY <1>1, <1>5, <1>6, <1>8, <1>9, KnownStays, Moves

\* Those an account concerns hear of the values.
LEMMA ToldHeard ==
  ASSUME AccountInv, NEW i \in Id, NEW v \in Values, NEW u,
         NEW f, f = Told(i, v, u)
  PROVE  /\ f \in [Slot -> Request \cup {None}]
         /\ \A s \in Slot : Listens(req[s], f[s])
         /\ \A s \in Slot : req[s] # None /\ Concerns(req[s], i, u) => Within(v, f[s].seen)
<1>1. ASSUME NEW s \in Slot
      PROVE  /\ f[s] \in Request \cup {None}
             /\ Listens(req[s], f[s])
             /\ req[s] # None /\ Concerns(req[s], i, u) => Within(v, f[s].seen)
  <2>1. PICK x : x = req[s]
    OBVIOUS
  <2>2. x \in Request \cup {None}
    BY <2>1 DEF AccountInv, TypeInv, TypeOK
  <2>3. CASE x # None /\ Concerns(x, i, u)
    <3>1. PICK w : w = Merge(x.seen, v)
      OBVIOUS
    <3>2. x.seen \in Values /\ w \in Values /\ Within(x.seen, w) /\ Within(v, w)
      BY <2>2, <2>3, <3>1, MergeTyped DEF Request
    <3>3. PICK y : y = [x EXCEPT !.seen = w]
      OBVIOUS
    <3>4. y \in Request /\ y.seen = w /\ Listens(x, y)
      BY <2>2, <2>3, <3>2, <3>3, NoneAssumption DEF Request, Listens
    <3>5. f[s] = y
      BY <2>1, <2>3, <3>1, <3>3 DEF Told
    <3> QED
      BY <2>1, <3>2, <3>4, <3>5
  <2>4. CASE ~(x # None /\ Concerns(x, i, u))
    <3>1. f[s] = x
      BY <2>1, <2>4 DEF Told
    <3> QED
      BY <2>1, <2>2, <2>4, <3>1 DEF Listens
  <2> QED
    BY <2>3, <2>4
<1>2. f \in [Slot -> Request \cup {None}]
  BY <1>1 DEF Told
<1> QED
  BY <1>1, <1>2
--------------------------------------------------------------------------------
(* The requests that arrive.                                               *)

LEMMA NoValuesTyped == NoValues \in Values
BY DEF NoValues, Values

LEMMA NewTyped ==
  ASSUME NEW op \in {"register", "login", "get", "update"}, NEW i \in Id \cup {None},
         NEW b \in BodyType \cup {None},
         NEW pc \in {"insert", "by_email", "get", "update", "reply"},
         NEW err \in Errors \cup {None}, NEW seen \in Values,
         NEW y, y = New(op, i, b, pc, err, seen)
  PROVE  /\ y \in Request /\ y # None
         /\ y.op = op /\ y.id = i /\ y.body = b /\ y.pc = pc /\ y.row = None
         /\ y.err = err /\ y.seen = seen
<1>1. y = [op |-> op, id |-> i, body |-> b, pc |-> pc, row |-> None, err |-> err, seen |-> seen]
  BY DEF New
<1>2. y \in Request
  BY <1>1 DEF Request
<1> QED
  BY <1>1, <1>2, NoneAssumption

\* A request arrives that carries nothing for an account, and has seen what
\* the account is and what may become of it.
LEMMA Arrives ==
  ASSUME AccountInv, NEW r \in Slot, req[r] = None, NEW y \in Request, y # None,
         req' = [req EXCEPT ![r] = y], UNCHANGED <<users, tokens, known, faults>>,
         y.op # "update", RequestOK(y), y.pc = "reply" => y.op = "register",
         y.pc # "update", y.id # None => users[y.id] # None,
         \A i \in Id : users[i] # None /\ Concerns(y, i, users) => Within(known[i], y.seen)
  PROVE  AccountInv'
<1>1. /\ req \in [Slot -> Request \cup {None}] /\ req'[r] = y
      /\ req' \in [Slot -> Request \cup {None}]
      /\ \A s \in Slot \ {r} : req'[s] = req[s] /\ Listens(req[s], req'[s])
      /\ faults' \in 0..MaxFaults
  BY DEF AccountInv, TypeInv, TypeOK, Listens
<1>2. /\ \A i \in Id : users[i] # None => Shown(users[i], known[i])
      /\ \A s \in Slot : \A i \in Id :
           IsUpdate(req[s], i) => Within(Carried(req[s].body), known[i])
  BY DEF AccountInv, KnownShows, Hears
<1>3. ExistsFor(y)' /\ Stands(y)' /\ AnswerHolds(y)'
  BY DEF ExistsFor, Stands, AnswerHolds
<1>4. SeesRow(y)'
  BY <1>2 DEF SeesRow, Shown, Within
<1>5. ASSUME NEW s \in Slot \ {r}, NEW i \in Id,
             IsUpdate(req[s], i), Concerns(y, i, users')
      PROVE  Within(Carried(req[s].body), y.seen)
  <2>1. users[i] # None
    BY <1>5, AnAccount DEF IsUpdate
  <2> QED
    BY <1>2, <1>5, <2>1 DEF Within
<1>6. \A i \in Id : ~IsUpdate(y, i)
  BY DEF IsUpdate
<1>7. RequestInv(y)'
  BY <1>3, <1>4 DEF RequestInv
<1>8. Rewrites(r) /\ NoNewRow /\ users' \in [Id -> Row \cup {None}]
  BY RowsStay
<1>9. \A s \in Slot \ {r} : \A i \in Id :
        /\ req'[s] # None /\ users[i] = None /\ users'[i] # None
        /\ Concerns(req'[s], i, users') /\ req'[s].op # "update"
        => Shown(users'[i], req'[s].seen)
  BY <1>8 DEF NoNewRow
<1> QED
  BY <1>1, <1>5, <1>6, <1>7, <1>8, <1>9, KnownStays, TokensStay, Moves

LEMMA SubmitRegisterInv ==
  ASSUME AccountInv, NEW r \in Slot, NEW b \in Body, SubmitRegister(r, b)
  PROVE  AccountInv'
<1>1. PICK err : err = IF b.email = None THEN "invalid"
                       ELSE IF b.pass = None THEN "panic" ELSE None
  OBVIOUS
<1>2. PICK pc : pc = IF err = None THEN "insert" ELSE "reply"
  OBVIOUS
<1>3. PICK y : y = New("register", None, b, pc, err, NoValues)
  OBVIOUS
<1>4. b \in BodyType /\ err \in Errors \cup {None} /\ pc \in {"insert", "reply"}
  BY <1>1, <1>2, BodyAssumption DEF Errors
<1>5. /\ y \in Request /\ y # None
      /\ y.op = "register" /\ y.id = None /\ y.body = b /\ y.pc = pc /\ y.err = err
  <2>1. y = [op |-> "register", id |-> None, body |-> b, pc |-> pc, row |-> None,
             err |-> err, seen |-> NoValues]
    BY <1>3 DEF New
  <2>2. y \in Request
    BY <1>4, <2>1, NoValuesTyped DEF Request
  <2> QED
    BY <2>1, <2>2, NoneAssumption
<1>6. req' = [req EXCEPT ![r] = y] /\ req[r] = None
  BY <1>1, <1>2, <1>3 DEF SubmitRegister
<1>7. b # None /\ "invalid" # None /\ "panic" # None
  BY <1>4, NoneAssumption DEF Errors
<1>8. RequestOK(y)
  BY <1>1, <1>2, <1>5, <1>7 DEF RequestOK
<1>9. \A i \in Id : ~Concerns(y, i, users)
  BY <1>5 DEF Concerns
<1> QED
  BY <1>4, <1>5, <1>6, <1>8, <1>9, Arrives DEF SubmitRegister

LEMMA SubmitLoginInv ==
  ASSUME AccountInv, NEW r \in Slot, NEW b \in Body, SubmitLogin(r, b)
  PROVE  AccountInv'
<1>1. PICK mine : mine = {i \in Id : users[i] # None /\ users[i].email = b.email}
  OBVIOUS
<1>2. PICK seen : seen = [name |-> UNION {known[i].name : i \in mine},
                          pass |-> UNION {known[i].pass : i \in mine}]
  OBVIOUS
<1>3. PICK y : y = New("login", None, b, "by_email", None, seen)
  OBVIOUS
<1>4. known \in [Id -> Values] /\ b \in BodyType /\ b # None
  BY BodyAssumption, NoneAssumption DEF AccountInv, TypeInv, TypeOK
<1>5. seen.name \subseteq Name /\ seen.pass \subseteq Password \cup {Empty}
  BY <1>1, <1>2, <1>4 DEF Values
<1>6. seen \in Values
  BY <1>2, <1>5 DEF Values
<1>7. /\ y \in Request /\ y # None
      /\ y.op = "login" /\ y.id = None /\ y.body = b /\ y.pc = "by_email"
      /\ y.err = None /\ y.seen = seen
  BY <1>3, <1>4, <1>6, NewTyped
<1>8. req' = [req EXCEPT ![r] = y] /\ req[r] = None
  BY <1>1, <1>2, <1>3 DEF SubmitLogin
<1>9. RequestOK(y)
  BY <1>4, <1>7 DEF RequestOK, SubmitLogin
<1>10. ASSUME NEW i \in Id, users[i] # None, Concerns(y, i, users)
       PROVE  Within(known[i], y.seen)
  <2>1. i \in mine
    BY <1>1, <1>7, <1>10 DEF Concerns
  <2> QED
    BY <1>2, <1>7, <2>1 DEF Within
<1> QED
  BY <1>7, <1>8, <1>9, <1>10, Arrives DEF SubmitLogin

LEMMA SubmitGetInv ==
  ASSUME AccountInv, NEW r \in Slot, NEW i \in Id, SubmitGet(r, i)
  PROVE  AccountInv'
<1>1. PICK y : y = New("get", i, None, "get", None, known[i])
  OBVIOUS
<1>2. known[i] \in Values /\ users[i] # None /\ i # None
  BY NoneAssumption DEF SubmitGet, AccountInv, TypeInv, TypeOK, TokensExist
<1>3. /\ y \in Request /\ y # None
      /\ y.op = "get" /\ y.id = i /\ y.pc = "get" /\ y.row = None /\ y.err = None
      /\ y.seen = known[i]
  BY <1>1, <1>2, NewTyped
<1>4. req' = [req EXCEPT ![r] = y] /\ req[r] = None
  BY <1>1 DEF SubmitGet
<1>5. RequestOK(y)
  BY <1>2, <1>3 DEF RequestOK
<1>6. \A j \in Id : Concerns(y, j, users) => Within(known[j], y.seen)
  BY <1>3 DEF Concerns, Within
<1> QED
  BY <1>2, <1>3, <1>4, <1>5, <1>6, Arrives DEF SubmitGet

LEMMA PendingTyped ==
  ASSUME AccountInv, NEW i \in Id
  PROVE  /\ Pending(i) \in Values
         /\ \A s \in Slot : IsUpdate(req[s], i) => Within(Carried(req[s].body), Pending(i))
<1>1. PICK mine : mine = {s \in Slot : req[s] # None /\ req[s].op = "update" /\ req[s].id = i}
  OBVIOUS
<1>2. PICK qs : qs = {req[s].body : s \in mine}
  OBVIOUS
<1>3. Pending(i) = [name |-> UNION {Carried(b).name : b \in qs},
                    pass |-> UNION {Carried(b).pass : b \in qs}]
  BY <1>1, <1>2 DEF Pending
<1>4. \A s \in mine : req[s].body \in BodyType
  BY <1>1, ARequest DEF AccountInv
<1>5. \A b \in qs : Carried(b) \in Values
  BY <1>2, <1>4, CarriedTyped
<1>6. /\ UNION {Carried(b).name : b \in qs} \in SUBSET Name
      /\ UNION {Carried(b).pass : b \in qs} \in SUBSET (Password \cup {Empty})
  BY <1>5 DEF Values
<1>7. ASSUME NEW s \in Slot, IsUpdate(req[s], i)
      PROVE  req[s].body \in qs
  BY <1>1, <1>2, <1>7 DEF IsUpdate
<1> QED
  BY <1>3, <1>6, <1>7 DEF Values, Within

LEMMA SubmitUpdateInv ==
  ASSUME AccountInv, NEW r \in Slot, NEW i \in Id, NEW b \in Body, SubmitUpdate(r, i, b)
  PROVE  AccountInv'
<1>1. PICK c : c = Carried(b)
  OBVIOUS
<1>2. PICK f : f = Told(i, c, users)
  OBVIOUS
<1>3. PICK y : y = New("update", i, b, "get", None, Pending(i))
  OBVIOUS
<1>4. b \in BodyType /\ b # None /\ c \in Values /\ i # None
  BY <1>1, CarriedTyped, BodyAssumption, NoneAssumption
<1>5. /\ y \in Request /\ y # None
      /\ y.op = "update" /\ y.id = i /\ y.body = b /\ y.pc = "get" /\ y.row = None
      /\ y.err = None /\ y.seen = Pending(i)
  <2>1. y = [op |-> "update", id |-> i, body |-> b, pc |-> "get", row |-> None,
             err |-> None, seen |-> Pending(i)]
    BY <1>3 DEF New
  <2>2. y \in Request
    BY <1>4, <2>1, PendingTyped DEF Request
  <2> QED
    BY <2>1, <2>2, NoneAssumption
<1>6. /\ f \in [Slot -> Request \cup {None}]
      /\ \A s \in Slot : Listens(req[s], f[s])
      /\ \A s \in Slot : req[s] # None /\ Concerns(req[s], i, users) => Within(c, f[s].seen)
  BY <1>2, <1>4, ToldHeard
<1>7. /\ req' = [f EXCEPT ![r] = y] /\ req[r] = None /\ users[i] # None
      /\ known' = [known EXCEPT ![i] = Merge(known[i], c)]
  BY <1>1, <1>2, <1>3 DEF SubmitUpdate, AccountInv, TokensExist
<1>8. /\ req'[r] = y /\ req' \in [Slot -> Request \cup {None}]
      /\ \A s \in Slot \ {r} : req'[s] = f[s] /\ Listens(req[s], req'[s])
  BY <1>5, <1>6, <1>7
<1>9. known \in [Id -> Values]
  BY DEF AccountInv, TypeInv, TypeOK
<1>10. /\ known' \in [Id -> Values] /\ Within(c, known'[i])
       /\ \A j \in Id : Within(known[j], known'[j])
  BY <1>4, <1>7, <1>9, MergeTyped DEF Within
<1>11. Rewrites(r) /\ NoNewRow /\ users' \in [Id -> Row \cup {None}] /\ UNCHANGED users
  BY RowsStay DEF SubmitUpdate
<1>12. \A j \in Id : users'[j] # None => Shown(users'[j], known'[j])
  BY <1>10, <1>11 DEF AccountInv, KnownShows, Shown, Within
<1>13. \A s \in Slot : \A j \in Id :
         IsUpdate(req[s], j) => Within(Carried(req[s].body), known'[j])
  BY <1>10 DEF AccountInv, Hears, Within
<1>14. RequestOK(y)
  BY <1>4, <1>5 DEF RequestOK
<1>15. RequestInv(y)'
  BY <1>5, <1>7, <1>11 DEF RequestInv, ExistsFor, SeesRow, Stands, AnswerHolds
<1>16. \A j \in Id : IsUpdate(y, j) => j = i /\ Carried(y.body) = c
  BY <1>1, <1>5 DEF IsUpdate
<1>17. ASSUME NEW s \in Slot \ {r}, NEW j \in Id
       PROVE  /\ y # None /\ IsUpdate(req[s], j) /\ Concerns(y, j, users')
                 => Within(Carried(req[s].body), y.seen)
              /\ req'[s] # None /\ IsUpdate(y, j) /\ Concerns(req'[s], j, users')
                 => Within(Carried(y.body), req'[s].seen)
  <2>1. Concerns(y, j, users') => j = i
    BY <1>5 DEF Concerns
  <2>2. IsUpdate(req[s], i) => Within(Carried(req[s].body), y.seen)
    BY <1>5, PendingTyped
  <2>3. ASSUME req'[s] # None, Concerns(req'[s], i, users')
        PROVE  Within(c, req'[s].seen)
    <3>1. req[s] # None
      BY <1>8, <2>3 DEF Listens
    <3>2. Concerns(req[s], i, users)
      BY <1>7, <1>8, <1>11, <2>3, <3>1, SameConcern
    <3> QED
      BY <1>6, <1>8, <3>1, <3>2
  <2> QED
    BY <1>16, <2>1, <2>2, <2>3
<1>18. \A s \in Slot \ {r} : \A j \in Id :
         /\ req'[s] # None /\ users[j] = None /\ users'[j] # None
         /\ Concerns(req'[s], j, users') /\ req'[s].op # "update"
         => Shown(users'[j], req'[s].seen)
  BY <1>11 DEF NoNewRow
<1>19. tokens' \subseteq Id /\ \A j \in tokens' : users'[j] # None
  BY <1>11, TokensStay DEF SubmitUpdate
<1>20. faults' \in 0..MaxFaults
  BY FaultsStay DEF SubmitUpdate
<1>21. \A j \in Id : IsUpdate(y, j) => Within(Carried(y.body), known'[j])
  BY <1>10, <1>16
<1> QED
  BY <1>5, <1>8, <1>10, <1>11, <1>12, <1>13, <1>14, <1>15, <1>17, <1>18, <1>19, <1>20,
     <1>21, Moves
--------------------------------------------------------------------------------
(* The statements that write the table.                                    *)

LEMMA RowInserted ==
  ASSUME AccountInv, NEW r \in Slot, NEW i \in Id, InsertRow(r, i)
  PROVE  /\ req[r] # None /\ req[r].op = "register" /\ req[r].pc = "insert"
         /\ users[i] = None /\ users'[i] \in Row /\ users'[i] # None
         /\ \A j \in Id \ {i} : users'[j] = users[j]
         /\ users' \in [Id -> Row \cup {None}]
<1>1. PICK x : x = req[r]
  OBVIOUS
<1>2. /\ x # None /\ x \in Request /\ RequestOK(x) /\ x.pc = "insert" /\ Named(x.body)
      /\ users' = [users EXCEPT ![i] = x.body] /\ users[i] = None
  BY <1>1, ARequest DEF AccountInv, InsertRow, At
<1>3. x.op = "register" /\ x.body \in BodyType /\ x.body.email # None /\ x.body.pass # None
  BY <1>2 DEF Request, RequestOK
<1>4. x.body \in Row
  BY <1>2, <1>3 DEF BodyType, Row, Named
<1>5. x.body # None
  BY <1>4, NoneAssumption
<1>6. users \in [Id -> Row \cup {None}]
  BY DEF AccountInv, TypeInv, TypeOK
<1> QED
  BY <1>1, <1>2, <1>3, <1>4, <1>5, <1>6

LEMMA RowUpdated ==
  ASSUME AccountInv, NEW r \in Slot, UpdateRow(r)
  PROVE  /\ req[r] # None /\ req[r].op = "update" /\ req[r].id \in Id
         /\ Rewrites(r) /\ NoNewRow /\ users' \in [Id -> Row \cup {None}]
         /\ Carried(req[r].body).name # {} =>
              users'[req[r].id].name \in Carried(req[r].body).name
         /\ Carried(req[r].body).pass # {} =>
              users'[req[r].id].pass \in Carried(req[r].body).pass
<1>1. PICK x : x = req[r]
  OBVIOUS
<1>2. x # None /\ x \in Request /\ RequestOK(x) /\ x.pc = "update"
  BY <1>1, ARequest DEF AccountInv, UpdateRow, At
<1>3. x.op = "update" /\ x.id \in Id /\ x.body \in BodyType
  BY <1>2 DEF Request, RequestOK
<1>4. PICK i : i = x.id
  OBVIOUS
<1>5. i \in Id /\ i # None /\ users[i] \in Row /\ x.row.email = users[i].email
  BY <1>1, <1>2, <1>3, <1>4, NoneAssumption
  DEF AccountInv, RequestInv, ExistsFor, TypeInv, TypeOK
<1>6. PICK n : n = Coalesce(x.body.name, users[i].name)
  OBVIOUS
<1>7. PICK p : p = Coalesce(x.body.pass, users[i].pass)
  OBVIOUS
<1>8. PICK row : row = [email |-> users[i].email, name |-> n, pass |-> p]
  OBVIOUS
<1>9. users' = [users EXCEPT ![i] = row]
  BY <1>1, <1>4, <1>5, <1>6, <1>7, <1>8 DEF UpdateRow, EmailOf, Current
<1>10. x.body.name # Empty /\ x.body.pass # Empty
  BY <1>1 DEF UpdateRow, Accepted
<1>11. /\ n \in Name /\ (n = users[i].name \/ n \in Carried(x.body).name)
       /\ Carried(x.body).name # {} => n \in Carried(x.body).name
  BY <1>3, <1>5, <1>6, <1>10 DEF Coalesce, Carried, BodyType, Row
<1>12. /\ p \in Password \cup {Empty} /\ (p = users[i].pass \/ p \in Carried(x.body).pass)
       /\ Carried(x.body).pass # {} => p \in Carried(x.body).pass
  BY <1>3, <1>5, <1>7, <1>10 DEF Coalesce, Carried, BodyType, Row
<1>13. row \in Row /\ row # None /\ row.email = users[i].email /\ row.name = n /\ row.pass = p
  BY <1>5, <1>8, <1>11, <1>12, NoneAssumption DEF Row
<1>14. users \in [Id -> Row \cup {None}]
  BY DEF AccountInv, TypeInv, TypeOK
<1>15. users' \in [Id -> Row \cup {None}] /\ users'[i] = row
       /\ \A j \in Id \ {i} : users'[j] = users[j]
  BY <1>5, <1>9, <1>13, <1>14
<1>16. IsUpdate(req[r], i)
  BY <1>1, <1>2, <1>3, <1>4 DEF IsUpdate
<1>17. Rewrites(r) /\ NoNewRow
  BY <1>1, <1>5, <1>11, <1>12, <1>13, <1>15, <1>16, NoneAssumption DEF Rewrites, NoNewRow
<1> QED
  BY <1>1, <1>2, <1>3, <1>4, <1>11, <1>12, <1>13, <1>15, <1>17

LEMMA NothingHeard ==
  ASSUME NoNewRow
  PROVE  Heard = req
<1>1. {i \in Id : users[i] = None /\ users'[i] # None} = {}
  BY DEF NoNewRow
<1> QED
  BY <1>1 DEF Heard

\* Those who log in with the address of a new account hear of it.
LEMMA InsertHeard ==
  ASSUME AccountInv, NEW r \in Slot, NEW i \in Id, InsertRow(r, i), Inserted(i)
  PROVE  /\ Heard \in [Slot -> Request \cup {None}] /\ Heard[r] = req[r]
         /\ \A s \in Slot : Listens(req[s], Heard[s])
         /\ \A s \in Slot : req[s] # None /\ Concerns(req[s], i, users') =>
              Within(known'[i], Heard[s].seen)
         /\ known' \in [Id -> Values] /\ Shown(users'[i], known'[i])
         /\ \A j \in Id \ {i} : known'[j] = known[j]
<1>1. PICK new : new = {j \in Id : users[j] = None /\ users'[j] # None}
  OBVIOUS
<1>2. new = {i}
  BY <1>1, RowInserted
<1>3. (CHOOSE j \in new : TRUE) = i
  BY <1>2
<1>4. PICK v : v = [name |-> {users'[i].name}, pass |-> {users'[i].pass}]
  OBVIOUS
<1>5. v \in Values /\ Shown(users'[i], v)
  BY <1>4, RowInserted DEF Row, Values, Shown
<1>6. known \in [Id -> Values]
  BY DEF AccountInv, TypeInv, TypeOK
<1>7. known' = [known EXCEPT ![i] = v]
  BY <1>4 DEF Inserted
<1>8. known' \in [Id -> Values] /\ known'[i] = v /\ \A j \in Id \ {i} : known'[j] = known[j]
  BY <1>5, <1>6, <1>7
<1>9. PICK f : f = Told(i, v, users')
  OBVIOUS
<1>10. Heard = f
  BY <1>1, <1>2, <1>3, <1>8, <1>9 DEF Heard
<1>11. /\ f \in [Slot -> Request \cup {None}]
       /\ \A s \in Slot : Listens(req[s], f[s])
       /\ \A s \in Slot : req[s] # None /\ Concerns(req[s], i, users') => Within(v, f[s].seen)
  BY <1>5, <1>9, ToldHeard
<1>12. f[r] = req[r]
  BY <1>9, RowInserted DEF Told, Concerns
<1> QED
  BY <1>5, <1>8, <1>10, <1>11, <1>12

\* A registration inserts its account, and is answered or not.
LEMMA InsertedInv ==
  ASSUME AccountInv, NEW r \in Slot, NEW i \in Id, InsertRow(r, i), Inserted(i),
         NEW y \in Request \cup {None}, req' = [Heard EXCEPT ![r] = y],
         y # None => /\ y.op = "register" /\ y.pc = "reply" /\ RequestOK(y)
                     /\ y.id # None => users'[y.id] # None,
         UNCHANGED tokens, faults' \in 0..MaxFaults
  PROVE  AccountInv'
<1>1. /\ req[r].op = "register" /\ users[i] = None /\ users'[i] # None
      /\ \A j \in Id \ {i} : users'[j] = users[j]
      /\ users' \in [Id -> Row \cup {None}]
  BY RowInserted
<1>2. Rewrites(r)
  BY <1>1 DEF Rewrites
<1>3. PICK h : h = Heard
  OBVIOUS
<1>4. /\ h \in [Slot -> Request \cup {None}]
      /\ \A s \in Slot : Listens(req[s], h[s])
      /\ \A s \in Slot : req[s] # None /\ Concerns(req[s], i, users') =>
           Within(known'[i], h[s].seen)
      /\ known' \in [Id -> Values] /\ Shown(users'[i], known'[i])
      /\ \A j \in Id \ {i} : known'[j] = known[j]
  BY <1>3, InsertHeard
<1>5. /\ req' \in [Slot -> Request \cup {None}] /\ req'[r] = y
      /\ \A s \in Slot \ {r} : req'[s] = h[s] /\ Listens(req[s], req'[s])
  BY <1>3, <1>4
<1>6. ASSUME NEW s \in Slot \ {r}, NEW j \in Id,
             req'[s] # None, users[j] = None, users'[j] # None, Concerns(req'[s], j, users')
      PROVE  Shown(users'[j], req'[s].seen)
  <2>1. j = i
    BY <1>1, <1>6
  <2>2. req[s] # None /\ Concerns(req[s], i, users')
    BY <1>5, <1>6, <2>1 DEF Listens, Concerns
  <2> QED
    BY <1>4, <1>5, <2>1, <2>2 DEF Shown, Within
<1>7. \A j \in Id : users'[j] # None => Shown(users'[j], known'[j])
  BY <1>1, <1>4 DEF AccountInv, KnownShows
<1>8. ASSUME NEW s \in Slot \ {r}, NEW j \in Id, IsUpdate(req[s], j)
      PROVE  /\ Within(Carried(req[s].body), known'[j])
             /\ y # None => ~Concerns(y, j, users')
  <2>1. j # i
    BY <1>1, <1>8, AnAccount DEF IsUpdate
  <2> QED
    BY <1>4, <1>8, <2>1 DEF AccountInv, Hears, Concerns
<1>9. \A j \in Id : ~IsUpdate(y, j)
  BY DEF IsUpdate
<1>10. y # None => RequestOK(y) /\ RequestInv(y)'
  BY <1>1 DEF RequestInv, ExistsFor, SeesRow, Stands, AnswerHolds, Concerns
<1>11. tokens' \subseteq Id /\ \A j \in tokens' : users'[j] # None
  BY <1>2, TokensStay
<1> QED
  BY <1>1, <1>2, <1>4, <1>5, <1>6, <1>7, <1>8, <1>9, <1>10, <1>11, Moves

\* A request is refused, after a statement of its own at most.
LEMMA RefusedInv ==
  ASSUME AccountInv, NEW r \in Slot, req[r] # None, req[r].pc # "reply",
         NEW e \in Errors, Refuse(r, e),
         req[r].op = "login" /\ e = "wrong" => \E p \in req[r].seen.pass : p # req[r].body.pass,
         Rewrites(r), NoNewRow, users' \in [Id -> Row \cup {None}],
         UNCHANGED <<tokens, known>>, faults' \in 0..MaxFaults
  PROVE  AccountInv'
<1>1. PICK x : x = req[r]
  OBVIOUS
<1>2. x # None /\ x \in Request /\ RequestOK(x) /\ ExistsFor(x)
  BY <1>1, ARequest DEF AccountInv, RequestInv
<1>3. PICK y : y = [x EXCEPT !.pc = "reply", !.err = e]
  OBVIOUS
<1>4. /\ y \in Request
      /\ y.op = x.op /\ y.id = x.id /\ y.body = x.body /\ y.row = x.row /\ y.seen = x.seen
      /\ y.pc = "reply" /\ y.err = e
  BY <1>2, <1>3 DEF Request
<1>5. e # None /\ y # None
  BY <1>4, NoneAssumption
<1>6. req' = [req EXCEPT ![r] = y]
  BY <1>1, <1>3 DEF Refuse
<1>7. RequestOK(y)
  BY <1>2, <1>4, <1>5 DEF RequestOK
<1>8. x.id \in Id \cup {None} /\ (x.op = "get" => x.row = None)
  BY <1>1, <1>2 DEF Request, RequestOK
<1>9. ExistsFor(y)'
  BY <1>2, <1>4, <1>8 DEF ExistsFor, Rewrites
<1>10. Stands(y)' /\ AnswerHolds(y)'
  BY <1>1, <1>4, <1>5, <1>8 DEF Stands, AnswerHolds
<1>11. tokens' \subseteq Id /\ \A i \in tokens' : users'[i] # None
  BY TokensStay
<1>12. y \in Request \cup {None} /\ req[r] # None /\ UNCHANGED known
  BY <1>4
<1>13. /\ y.op = req[r].op /\ y.body = req[r].body /\ y.seen = req[r].seen
       /\ y.op \in {"get", "update"} => y.id = req[r].id
  BY <1>1, <1>4
<1> QED
  BY <1>6, <1>7, <1>9, <1>10, <1>11, <1>12, <1>13, SameRequest

\* A request is answered or given up, after a statement of its own at most.
LEMMA GoneInv ==
  ASSUME AccountInv, NEW r \in Slot, req[r] # None, req' = [req EXCEPT ![r] = None],
         Rewrites(r), NoNewRow, users' \in [Id -> Row \cup {None}],
         UNCHANGED <<tokens, known>>, faults' \in 0..MaxFaults
  PROVE  AccountInv'
<1>1. None \in Request \cup {None} /\ UNCHANGED known
  OBVIOUS
<1>2. tokens' \subseteq Id /\ \A i \in tokens' : users'[i] # None
  BY TokensStay
<1> QED
  BY <1>1, <1>2, SameRequest
--------------------------------------------------------------------------------
(* The steps of a request.                                                 *)

LEMMA InsertUserInv ==
  ASSUME AccountInv, NEW r \in Slot, InsertUser(r)
  PROVE  AccountInv'
<1>0. faults' \in 0..MaxFaults
  BY FaultsStay DEF InsertUser
<1>1. ASSUME NEW i \in Id, InsertRow(r, i), Inserted(i),
             req' = [Heard EXCEPT ![r].pc = "reply", ![r].id = i]
      PROVE  AccountInv'
  <2>1. PICK x : x = req[r]
    OBVIOUS
  <2>2. x # None /\ x.op = "register" /\ x.pc = "insert" /\ Heard[r] = x
    BY <1>1, <2>1, RowInserted, InsertHeard
  <2>3. x \in Request /\ RequestOK(x)
    BY <2>1, <2>2, ARequest DEF AccountInv
  <2>4. PICK y : y = [x EXCEPT !.pc = "reply", !.id = i]
    OBVIOUS
  <2>5. /\ y \in Request
        /\ y.op = x.op /\ y.id = i /\ y.body = x.body /\ y.row = x.row /\ y.seen = x.seen
        /\ y.pc = "reply" /\ y.err = x.err
    BY <2>3, <2>4 DEF Request
  <2>6. req' = [Heard EXCEPT ![r] = y]
    BY <1>1, <2>2, <2>4
  <2>7. RequestOK(y)
    BY <2>2, <2>3, <2>5, NoneAssumption DEF RequestOK
  <2>8. UNCHANGED tokens /\ y \in Request \cup {None}
    BY <2>5 DEF InsertUser
  <2>9. y.op = "register" /\ y.pc = "reply" /\ RequestOK(y) /\ users'[y.id] # None
    BY <1>1, <2>2, <2>5, <2>7, RowInserted
  <2> QED
    BY <1>0, <1>1, <2>6, <2>8, <2>9, InsertedInv
<1>2. ASSUME At(r, "insert"), Refuse(r, "validation"), UNCHANGED <<users, known>>
      PROVE  AccountInv'
  <2>1. "validation" \in Errors /\ "validation" # "wrong" /\ UNCHANGED <<tokens, known>>
    BY <1>2 DEF Errors, InsertUser
  <2>2. req[r] # None /\ req[r].pc # "reply"
    BY <1>2 DEF At
  <2> QED
    BY <1>0, <1>2, <2>1, <2>2, RowsStay, RefusedInv
<1> QED
  BY <1>1, <1>2 DEF InsertUser

LEMMA GetUserByEmailInv ==
  ASSUME AccountInv, NEW r \in Slot, GetUserByEmail(r)
  PROVE  AccountInv'
<1>0. faults' \in 0..MaxFaults /\ UNCHANGED <<tokens, known>> /\ UNCHANGED users
  BY FaultsStay DEF GetUserByEmail
<1>1. PICK x : x = req[r]
  OBVIOUS
<1>2. x # None /\ x \in Request /\ RequestOK(x) /\ x.pc = "by_email" /\ SeesRow(x)
  BY <1>1, ARequest DEF AccountInv, RequestInv, GetUserByEmail, At
<1>3. x.op = "login" /\ x.err = None
  BY <1>2 DEF Request, RequestOK
<1>4. PICK mine : mine = {i \in Id : users[i] # None /\ users[i].email = x.body.email}
  OBVIOUS
<1>5. \A i \in mine : users[i].pass \in x.seen.pass
  BY <1>2, <1>3, <1>4 DEF SeesRow, Concerns, Shown
<1>6. /\ Rewrites(r) /\ NoNewRow /\ users' \in [Id -> Row \cup {None}]
  BY <1>0, RowsStay
<1>7. CASE Refuse(r, "not_found")
  <2>1. "not_found" \in Errors /\ "not_found" # "wrong"
    BY DEF Errors
  <2> QED
    BY <1>0, <1>1, <1>2, <1>6, <1>7, <2>1, RefusedInv
<1>8. ASSUME NEW i \in mine, ~Matches(users[i].pass, x.body.pass), Refuse(r, "wrong")
      PROVE  AccountInv'
  <2>1. "wrong" \in Errors
    BY DEF Errors
  <2>2. \E p \in x.seen.pass : p # x.body.pass
    BY <1>5, <1>8 DEF Matches
  <2> QED
    BY <1>0, <1>1, <1>2, <1>6, <1>8, <2>1, <2>2, RefusedInv
<1>9. ASSUME NEW i \in mine, Matches(users[i].pass, x.body.pass),
             req' = [req EXCEPT ![r].pc = "reply", ![r].id = i]
      PROVE  AccountInv'
  <2>1. i \in Id /\ i # None /\ users[i] # None /\ users[i].email = x.body.email
    BY <1>4, NoneAssumption
  <2>2. PICK y : y = [x EXCEPT !.pc = "reply", !.id = i]
    OBVIOUS
  <2>3. /\ y \in Request
        /\ y.op = "login" /\ y.id = i /\ y.body = x.body /\ y.row = x.row /\ y.seen = x.seen
        /\ y.pc = "reply" /\ y.err = None
    BY <1>2, <1>3, <2>1, <2>2 DEF Request
  <2>4. req' = [req EXCEPT ![r] = y]
    BY <1>1, <1>9, <2>2
  <2>5. RequestOK(y)
    BY <1>2, <1>3, <2>1, <2>3 DEF RequestOK
  <2>6. ExistsFor(y)' /\ Stands(y)'
    BY <1>0, <2>1, <2>3 DEF ExistsFor, Stands
  <2>7. AnswerHolds(y)'
    <3>1. y.body.pass \in y.seen.pass /\ users'[y.id].email = y.body.email
      BY <1>0, <1>5, <1>9, <2>1, <2>3 DEF Matches
    <3>2. None # "wrong"
      BY NoneAssumption DEF Errors
    <3> QED
      BY <2>3, <3>1, <3>2 DEF AnswerHolds
  <2>8. tokens' \subseteq Id /\ \A j \in tokens' : users'[j] # None
    BY <1>0, <1>6, TokensStay
  <2>9. /\ y.op = req[r].op /\ y.body = req[r].body /\ y.seen = req[r].seen
        /\ y.op \in {"get", "update"} => y.id = req[r].id
    BY <1>1, <1>3, <2>3
  <2>10. y \in Request \cup {None} /\ req[r] # None /\ UNCHANGED known
    BY <1>0, <1>1, <1>2, <2>3
  <2> QED
    BY <1>0, <1>6, <2>4, <2>5, <2>6, <2>7, <2>8, <2>9, <2>10, SameRequest
<1> QED
  BY <1>1, <1>4, <1>7, <1>8, <1>9 DEF GetUserByEmail

LEMMA GetUserInv ==
  ASSUME AccountInv, NEW r \in Slot, GetUser(r)
  PROVE  AccountInv'
<1>0. faults' \in 0..MaxFaults /\ UNCHANGED <<tokens, known>> /\ UNCHANGED users
  BY FaultsStay DEF GetUser
<1>1. PICK x : x = req[r]
  OBVIOUS
<1>2. /\ x # None /\ x \in Request /\ RequestOK(x) /\ x.pc = "get"
      /\ SeesRow(x) /\ ExistsFor(x)
  BY <1>1, ARequest DEF AccountInv, RequestInv, GetUser, At
<1>3. x.op \in {"get", "update"} /\ x.err = None /\ x.id \in Id /\ x.id # None
  BY <1>2, NoneAssumption DEF Request, RequestOK
<1>4. users[x.id] \in Row /\ users[x.id] # None
  BY <1>2, <1>3 DEF ExistsFor, AccountInv, TypeInv, TypeOK
<1>5. Rewrites(r) /\ NoNewRow /\ users' \in [Id -> Row \cup {None}]
  BY <1>0, RowsStay
<1>6. CASE Refuse(r, "panic")
  <2>1. "panic" \in Errors /\ "panic" # "wrong"
    BY DEF Errors
  <2> QED
    BY <1>0, <1>1, <1>2, <1>5, <1>6, <2>1, RefusedInv
<1>7. ASSUME NEW pc \in {"update", "reply"}, x.op = "get" <=> pc = "reply",
             req' = [req EXCEPT ![r].pc = pc, ![r].row = users[req[r].id]]
      PROVE  AccountInv'
  <2>1. PICK row : row = users[x.id]
    OBVIOUS
  <2>2. PICK y : y = [x EXCEPT !.pc = pc, !.row = row]
    OBVIOUS
  <2>3. /\ y \in Request
        /\ y.op = x.op /\ y.id = x.id /\ y.body = x.body /\ y.row = row /\ y.seen = x.seen
        /\ y.pc = pc /\ y.err = None
    BY <1>2, <1>3, <1>4, <2>1, <2>2 DEF Request
  <2>4. req' = [req EXCEPT ![r] = y]
    BY <1>1, <1>7, <2>1, <2>2
  <2>5. RequestOK(y)
    BY <1>2, <1>3, <1>7, <2>3 DEF RequestOK
  <2>6. ExistsFor(y)'
    BY <1>0, <1>4, <2>1, <2>3 DEF ExistsFor
  <2>7. Stands(y)'
    BY <1>7, <2>3 DEF Stands
  <2>8. x.op = "get" => Shown(row, x.seen)
    BY <1>2, <1>3, <1>4, <2>1 DEF SeesRow, Concerns
  <2>9. AnswerHolds(y)'
    BY <1>3, <1>7, <2>3, <2>8 DEF AnswerHolds, Shown
  <2>10. tokens' \subseteq Id /\ \A j \in tokens' : users'[j] # None
    BY <1>0, <1>5, TokensStay
  <2>11. /\ y.op = req[r].op /\ y.body = req[r].body /\ y.seen = req[r].seen
         /\ y.op \in {"get", "update"} => y.id = req[r].id
    BY <1>1, <2>3
  <2>12. y \in Request \cup {None} /\ req[r] # None /\ UNCHANGED known
    BY <1>0, <1>1, <1>2, <2>3
  <2> QED
    BY <1>0, <1>5, <2>4, <2>5, <2>6, <2>7, <2>9, <2>10, <2>11, <2>12, SameRequest
<1>8. CASE req[r].op = "get" /\ req' = [req EXCEPT ![r].pc = "reply", ![r].row = users[req[r].id]]
  BY <1>1, <1>7, <1>8
<1>9. CASE /\ req[r].op = "update"
           /\ req' = [req EXCEPT ![r].pc = "update", ![r].row = users[req[r].id]]
  BY <1>1, <1>7, <1>9
<1> QED
  BY <1>6, <1>8, <1>9 DEF GetUser

LEMMA UpdateUserInv ==
  ASSUME AccountInv, NEW r \in Slot, UpdateUser(r)
  PROVE  AccountInv'
<1>0. faults' \in 0..MaxFaults /\ UNCHANGED tokens /\ UNCHANGED known
  BY FaultsStay DEF UpdateUser
<1>1. ASSUME UpdateRow(r), req' = [req EXCEPT ![r].pc = "reply"]
      PROVE  AccountInv'
  <2>1. PICK x : x = req[r]
    OBVIOUS
  <2>2. /\ x # None /\ x \in Request /\ RequestOK(x) /\ ExistsFor(x)
        /\ x.op = "update" /\ x.id \in Id /\ x.id # None
    BY <1>1, <2>1, ARequest, RowUpdated, NoneAssumption DEF AccountInv, RequestInv
  <2>3. /\ Rewrites(r) /\ NoNewRow /\ users' \in [Id -> Row \cup {None}]
        /\ Carried(x.body).name # {} => users'[x.id].name \in Carried(x.body).name
        /\ Carried(x.body).pass # {} => users'[x.id].pass \in Carried(x.body).pass
    BY <1>1, <2>1, RowUpdated
  <2>4. PICK y : y = [x EXCEPT !.pc = "reply"]
    OBVIOUS
  <2>5. /\ y \in Request
        /\ y.op = x.op /\ y.id = x.id /\ y.body = x.body /\ y.row = x.row /\ y.seen = x.seen
        /\ y.pc = "reply" /\ y.err = x.err
    BY <2>2, <2>4 DEF Request
  <2>6. req' = [req EXCEPT ![r] = y]
    BY <1>1, <2>1, <2>4
  <2>7. RequestOK(y)
    BY <2>2, <2>5 DEF RequestOK
  <2>8. ExistsFor(y)'
    BY <2>2, <2>3, <2>5 DEF ExistsFor, Rewrites
  <2>9. Stands(y)' /\ AnswerHolds(y)'
    BY <2>2, <2>3, <2>5 DEF Stands, AnswerHolds
  <2>10. tokens' \subseteq Id /\ \A j \in tokens' : users'[j] # None
    BY <1>0, <2>3, TokensStay
  <2>11. /\ y.op = req[r].op /\ y.body = req[r].body /\ y.seen = req[r].seen
         /\ y.op \in {"get", "update"} => y.id = req[r].id
    BY <2>1, <2>5
  <2>12. y \in Request \cup {None} /\ req[r] # None
    BY <2>1, <2>2, <2>5
  <2> QED
    BY <1>0, <2>3, <2>6, <2>7, <2>8, <2>9, <2>10, <2>11, <2>12, SameRequest
<1>2. ASSUME At(r, "update"), Refuse(r, "validation"), UNCHANGED users
      PROVE  AccountInv'
  <2>1. "validation" \in Errors /\ "validation" # "wrong"
    BY DEF Errors
  <2>2. req[r] # None /\ req[r].pc # "reply"
    BY <1>2 DEF At
  <2> QED
    BY <1>0, <1>2, <2>1, <2>2, RowsStay, RefusedInv
<1> QED
  BY <1>1, <1>2 DEF UpdateUser

\* After the answer the clients know of a field what the update sent, or what
\* another one sent since.
LEMMA Settled ==
  ASSUME AccountInv, NEW r \in Slot, At(r, "reply"), req[r].op = "update", req[r].err = None,
         NEW i, i = req[r].id, NEW k,
         k = [name |-> Settle(Carried(req[r].body).name, req[r].seen.name, known[i].name),
              pass |-> Settle(Carried(req[r].body).pass, req[r].seen.pass, known[i].pass)]
  PROVE  /\ i \in Id /\ users[i] # None /\ k \in Values /\ Shown(users[i], k)
         /\ \A s \in Slot \ {r} :
              IsUpdate(req[s], i) => Within(Carried(req[s].body), k)
<1>1. PICK x : x = req[r]
  OBVIOUS
<1>2. /\ x # None /\ x.pc = "reply" /\ i \in Id /\ x.body \in BodyType /\ x.seen \in Values
      /\ Stands(x) /\ users[i] # None /\ IsUpdate(x, i)
  BY <1>1, ARequest, AnAccount DEF At, AccountInv, RequestInv, IsUpdate
<1>3. PICK c : c = Carried(x.body)
  OBVIOUS
<1>4. c \in Values /\ known[i] \in Values
  BY <1>2, <1>3, CarriedTyped DEF AccountInv, TypeInv, TypeOK
<1>5. /\ k.name = IF c.name = {} THEN known[i].name ELSE c.name \cup x.seen.name
      /\ k.pass = IF c.pass = {} THEN known[i].pass ELSE c.pass \cup x.seen.pass
      /\ k = [name |-> k.name, pass |-> k.pass]
  BY <1>1, <1>3 DEF Settle
<1>6. k \in Values
  BY <1>2, <1>4, <1>5 DEF Values
<1>7. Shown(users[i], known[i])
  BY <1>2 DEF AccountInv, KnownShows
<1>8. Shown(users[i], k)
  BY <1>1, <1>2, <1>3, <1>5, <1>7 DEF Shown, Stands
<1>9. ASSUME NEW s \in Slot \ {r}, IsUpdate(req[s], i)
      PROVE  Within(Carried(req[s].body), k)
  <2>1. Concerns(x, i, users)
    BY <1>2 DEF IsUpdate, Concerns
  <2>2. Within(Carried(req[s].body), x.seen) /\ Within(Carried(req[s].body), known[i])
    BY <1>1, <1>2, <1>9, <2>1 DEF AccountInv, Hears
  <2> QED
    BY <1>5, <2>2 DEF Within
<1> QED
  BY <1>2, <1>6, <1>8, <1>9

LEMMA ReplyInv ==
  ASSUME AccountInv, NEW r \in Slot, Reply(r)
  PROVE  AccountInv'
<1>1. PICK x : x = req[r]
  OBVIOUS
<1>2. /\ x # None /\ x \in Request /\ RequestOK(x) /\ x.pc = "reply" /\ ExistsFor(x)
      /\ req' = [req EXCEPT ![r] = None] /\ UNCHANGED users
  BY <1>1, ARequest DEF AccountInv, RequestInv, Reply, At
<1>3. faults' \in 0..MaxFaults /\ Rewrites(r) /\ NoNewRow /\ users' \in [Id -> Row \cup {None}]
  BY <1>2, FaultsStay, RowsStay DEF Reply
<1>4. tokens' \subseteq Id /\ \A i \in tokens' : users'[i] # None
  <2>1. CASE tokens' = tokens
    BY <1>3, <2>1, TokensStay
  <2>2. CASE tokens' = tokens \cup {x.id} /\ x.err = None /\ x.op \in {"register", "login"}
    <3>1. x.id \in Id /\ users[x.id] # None
      BY <1>2, <2>2 DEF RequestOK, Request, ExistsFor
    <3> QED
      BY <1>2, <2>2, <3>1 DEF AccountInv, TypeInv, TypeOK, TokensExist
  <2> QED
    BY <1>1, <2>1, <2>2 DEF Reply
<1>5. CASE known' = known
  BY <1>1, <1>2, <1>3, <1>4, <1>5, SameRequest
<1>6. ASSUME x.err = None, x.op = "update",
             known' = [known EXCEPT ![x.id] =
               [name |-> Settle(Carried(x.body).name, x.seen.name, @.name),
                pass |-> Settle(Carried(x.body).pass, x.seen.pass, @.pass)]]
      PROVE  AccountInv'
  <2>1. PICK i : i = x.id
    OBVIOUS
  <2>2. PICK k : k = [name |-> Settle(Carried(x.body).name, x.seen.name, known[i].name),
                      pass |-> Settle(Carried(x.body).pass, x.seen.pass, known[i].pass)]
    OBVIOUS
  <2>3. At(r, "reply") /\ req[r].op = "update" /\ req[r].err = None /\ i = req[r].id
    BY <1>1, <1>2, <1>6, <2>1 DEF At
  <2>4. /\ i \in Id /\ k \in Values /\ Shown(users[i], k)
        /\ \A s \in Slot \ {r} : IsUpdate(req[s], i) => Within(Carried(req[s].body), k)
    BY <1>1, <2>2, <2>3, Settled
  <2>5. known \in [Id -> Values]
    BY DEF AccountInv, TypeInv, TypeOK
  <2>6. known' = [known EXCEPT ![i] = k]
    BY <1>6, <2>1, <2>2, <2>4, <2>5
  <2>7. /\ known' \in [Id -> Values] /\ known'[i] = k
        /\ \A j \in Id \ {i} : known'[j] = known[j]
    BY <2>4, <2>5, <2>6
  <2>8. \A j \in Id : users'[j] # None => Shown(users'[j], known'[j])
    BY <1>2, <2>4, <2>7 DEF AccountInv, KnownShows
  <2>9. \A s \in Slot \ {r} : \A j \in Id :
          IsUpdate(req[s], j) => Within(Carried(req[s].body), known'[j])
    BY <2>4, <2>7 DEF AccountInv, Hears
  <2>10. /\ req' \in [Slot -> Request \cup {None}] /\ req'[r] = None
         /\ \A s \in Slot \ {r} : req'[s] = req[s] /\ Listens(req[s], req'[s])
    BY <1>2 DEF AccountInv, TypeInv, TypeOK, Listens
  <2>11. /\ None \in Request \cup {None}
         /\ \A j \in Id : ~IsUpdate(None, j)
    BY DEF IsUpdate
  <2>12. \A s \in Slot \ {r} : \A j \in Id :
           /\ req'[s] # None /\ users[j] = None /\ users'[j] # None
           /\ Concerns(req'[s], j, users') /\ req'[s].op # "update"
           => Shown(users'[j], req'[s].seen)
    BY <1>3 DEF NoNewRow
  <2> QED
    BY <1>3, <1>4, <2>7, <2>8, <2>9, <2>10, <2>11, <2>12, Moves
<1> QED
  BY <1>1, <1>5, <1>6 DEF Reply
--------------------------------------------------------------------------------
(* The faults.                                                             *)

LEMMA DisconnectInv ==
  ASSUME AccountInv, NEW r \in Slot, Disconnect(r)
  PROVE  AccountInv'
<1>1. faults' \in 0..MaxFaults /\ req[r] # None /\ UNCHANGED tokens /\ Write(r)
      /\ req' = [Heard EXCEPT ![r] = None]
  BY FaultsStay DEF Disconnect
<1>2. ASSUME NEW i \in Id, InsertRow(r, i), Inserted(i)
      PROVE  AccountInv'
  BY <1>1, <1>2, InsertedInv
<1>3. ASSUME Rewrites(r), NoNewRow, users' \in [Id -> Row \cup {None}], UNCHANGED known
      PROVE  AccountInv'
  <2>1. req' = [req EXCEPT ![r] = None]
    BY <1>1, <1>3, NothingHeard
  <2> QED
    BY <1>1, <1>3, <2>1, GoneInv
<1>4. CASE UpdateRow(r) /\ UNCHANGED known
  BY <1>3, <1>4, RowUpdated
<1>5. CASE UNCHANGED <<users, known>>
  BY <1>3, <1>5, RowsStay
<1> QED
  BY <1>1, <1>2, <1>4, <1>5 DEF Write

LEMMA StatementFailsInv ==
  ASSUME AccountInv, NEW r \in Slot, StatementFails(r)
  PROVE  AccountInv'
<1>1. faults' \in 0..MaxFaults /\ req[r] # None /\ req[r].pc # "reply" /\ UNCHANGED tokens
      /\ Write(r) /\ req' = [Heard EXCEPT ![r].pc = "reply", ![r].err = "unknown"]
  BY FaultsStay DEF StatementFails
<1>2. "unknown" \in Errors /\ "unknown" # "wrong"
  BY DEF Errors
<1>3. ASSUME NEW i \in Id, InsertRow(r, i), Inserted(i)
      PROVE  AccountInv'
  <2>1. PICK x : x = req[r]
    OBVIOUS
  <2>2. /\ x # None /\ x \in Request /\ RequestOK(x) /\ x.op = "register" /\ x.pc = "insert"
        /\ Heard[r] = x /\ ExistsFor(x) /\ Heard \in [Slot -> Request \cup {None}]
    BY <1>1, <1>3, <2>1, ARequest, RowInserted, InsertHeard DEF AccountInv, RequestInv
  <2>3. x.id # None => users'[x.id] # None
    BY <1>3, <2>2, RowInserted DEF Request, ExistsFor
  <2>4. PICK y : y = [x EXCEPT !.pc = "reply", !.err = "unknown"]
    OBVIOUS
  <2>5. /\ y \in Request
        /\ y.op = x.op /\ y.id = x.id /\ y.body = x.body /\ y.row = x.row /\ y.seen = x.seen
        /\ y.pc = "reply" /\ y.err = "unknown"
    BY <1>2, <2>2, <2>4 DEF Request
  <2>6. req' = [Heard EXCEPT ![r] = y]
    BY <1>1, <2>2, <2>4
  <2>7. "unknown" # None
    BY <1>2, NoneAssumption
  <2>8. RequestOK(y)
    BY <2>2, <2>5, <2>7 DEF RequestOK
  <2>9. y.op = "register" /\ y.pc = "reply" /\ (y.id # None => users'[y.id] # None)
    BY <2>2, <2>3, <2>5
  <2>10. y \in Request \cup {None}
    BY <2>5
  <2> QED
    BY <1>1, <1>3, <2>6, <2>8, <2>9, <2>10, InsertedInv
<1>4. ASSUME Rewrites(r), NoNewRow, users' \in [Id -> Row \cup {None}], UNCHANGED known
      PROVE  AccountInv'
  <2>1. Refuse(r, "unknown")
    BY <1>1, <1>4, NothingHeard DEF Refuse
  <2>2. UNCHANGED <<tokens, known>>
    BY <1>1, <1>4
  <2> QED
    BY <1>1, <1>2, <1>4, <2>1, <2>2, RefusedInv
<1>5. CASE UpdateRow(r) /\ UNCHANGED known
  BY <1>4, <1>5, RowUpdated
<1>6. CASE UNCHANGED <<users, known>>
  BY <1>4, <1>6, RowsStay
<1> QED
  BY <1>1, <1>3, <1>5, <1>6 DEF Write

LEMMA CrashInv ==
  ASSUME AccountInv, Crash
  PROVE  AccountInv'
<1>1. \A r \in Slot : req'[r] = None
  BY DEF Crash
<1>2. TypeInv'
  BY <1>1, FaultsStay DEF Crash, AccountInv, TypeInv, TypeOK
<1>3. TokensExist' /\ KnownShows'
  BY DEF Crash, AccountInv, TokensExist, KnownShows
<1>4. Hears'
  BY <1>1 DEF Hears, IsUpdate
<1>5. \A r \in Slot : RequestInv(req[r])'
  BY <1>1 DEF RequestInv, ExistsFor, SeesRow, Stands, AnswerHolds
<1> QED
  BY <1>2, <1>3, <1>4, <1>5 DEF AccountInv
--------------------------------------------------------------------------------
LEMMA InitInv == Init => AccountInv
<1> SUFFICES ASSUME Init PROVE AccountInv
  OBVIOUS
<1>1. TypeInv
  BY FaultsAssumption, NoValuesTyped DEF Init, TypeInv, TypeOK
<1>2. TokensExist /\ KnownShows /\ Hears
  BY DEF Init, TokensExist, KnownShows, Hears, IsUpdate
<1>3. \A r \in Slot : RequestInv(req[r])
  BY DEF Init, RequestInv, ExistsFor, SeesRow, Stands, AnswerHolds
<1> QED
  BY <1>1, <1>2, <1>3 DEF AccountInv

LEMMA StutterInv ==
  ASSUME AccountInv, UNCHANGED vars
  PROVE  AccountInv'
<1>1. UNCHANGED <<users, tokens, req, known, faults>>
  BY DEF vars
<1>2. TypeInv'
  BY <1>1 DEF AccountInv, TypeInv, TypeOK
<1>3. TokensExist' /\ KnownShows'
  BY <1>1 DEF AccountInv, TokensExist, KnownShows
<1>4. Hears'
  BY <1>1 DEF AccountInv, Hears, Concerns
<1>5. \A r \in Slot : RequestInv(req[r])'
  BY <1>1 DEF AccountInv, RequestInv, ExistsFor, SeesRow, Stands, AnswerHolds, Concerns
<1> QED
  BY <1>2, <1>3, <1>4, <1>5 DEF AccountInv

LEMMA NextInv == AccountInv /\ [Next]_vars => AccountInv'
<1> SUFFICES ASSUME AccountInv, [Next]_vars PROVE AccountInv'
  OBVIOUS
<1>1. ASSUME NEW r \in Slot, NEW b \in Body, SubmitRegister(r, b) PROVE AccountInv'
  BY <1>1, SubmitRegisterInv
<1>2. ASSUME NEW r \in Slot, NEW b \in Body, SubmitLogin(r, b) PROVE AccountInv'
  BY <1>2, SubmitLoginInv
<1>3. ASSUME NEW r \in Slot, NEW b \in Body, NEW i \in Id, SubmitUpdate(r, i, b)
      PROVE  AccountInv'
  BY <1>3, SubmitUpdateInv
<1>4. ASSUME NEW r \in Slot, NEW i \in Id, SubmitGet(r, i) PROVE AccountInv'
  BY <1>4, SubmitGetInv
<1>5. ASSUME NEW r \in Slot, Handle(r) PROVE AccountInv'
  BY <1>5, InsertUserInv, GetUserByEmailInv, GetUserInv, UpdateUserInv, ReplyInv DEF Handle
<1>6. ASSUME NEW r \in Slot, Disconnect(r) \/ StatementFails(r) PROVE AccountInv'
  BY <1>6, DisconnectInv, StatementFailsInv
<1>7. CASE Crash
  BY <1>7, CrashInv
<1>8. CASE UNCHANGED vars
  BY <1>8, StutterInv
<1> QED
  BY <1>1, <1>2, <1>3, <1>4, <1>5, <1>6, <1>7, <1>8 DEF Next

LEMMA AccountInvariant == Spec => []AccountInv
<1>1. Init => AccountInv
  BY InitInv
<1>2. AccountInv /\ [Next]_vars => AccountInv'
  BY NextInv
<1> QED
  BY <1>1, <1>2, PTL DEF Spec

(***************************************************************************)
(* The tables, the tokens and the requests in flight have the shapes the   *)
(* code gives them, whatever the clients send and whatever fails.          *)
(***************************************************************************)
THEOREM TypeCorrect == Spec => []TypeOK
<1>1. AccountInv => TypeOK
  BY DEF AccountInv, TypeInv
<1> QED
  BY <1>1, AccountInvariant, PTL

(***************************************************************************)
(* No change of a profile is lost, and a profile that is read shows what   *)
(* its fields may have been meanwhile, for any number of concurrent        *)
(* updates of any accounts.                                                *)
(***************************************************************************)
THEOREM NoLostChange == Spec => []ChangesStand
<1>1. AccountInv => ChangesStand
  BY DEF AccountInv, KnownShows, Shown, RequestInv, AnswerHolds, ChangesStand, At
<1> QED
  BY <1>1, AccountInvariant, PTL

(***************************************************************************)
(* A login is decided by a password the account may have had between its   *)
(* steps.                                                                  *)
(***************************************************************************)
THEOREM LoginsDecided == Spec => []PasswordDecides
<1>1. ASSUME AccountInv
      PROVE  PasswordDecides
  <2>1. SUFFICES ASSUME NEW r \in Slot, At(r, "reply"), req[r].op = "login"
                 PROVE  /\ req[r].err = None => /\ req[r].body.pass \in req[r].seen.pass
                                                /\ users[req[r].id].email = req[r].body.email
                        /\ req[r].err = "wrong" => req[r].seen.pass # {req[r].body.pass}
    BY DEF PasswordDecides
  <2>2. AnswerHolds(req[r])
    BY <1>1 DEF AccountInv, RequestInv
  <2> QED
    BY <2>1, <2>2 DEF AnswerHolds, At
<1> QED
  BY <1>1, AccountInvariant, PTL

\* A step that inserts one account, or writes for one request.
LEMMA StepKeeps ==
  ASSUME AccountInv, [Next]_vars, NEW i \in Id, users[i] # None
  PROVE  users'[i] # None /\ users'[i].email = users[i].email
<1>1. ASSUME NEW r \in Slot, NEW j \in Id, InsertRow(r, j)
      PROVE  users'[i] # None /\ users'[i].email = users[i].email
  BY <1>1, RowInserted
<1>2. ASSUME NEW r \in Slot, UpdateRow(r)
      PROVE  users'[i] # None /\ users'[i].email = users[i].email
  BY <1>2, RowUpdated DEF Rewrites
<1>3. CASE \E r \in Slot : Handle(r)
  <2>1. PICK r \in Slot : Handle(r)
    BY <1>3
  <2>2. \/ UNCHANGED users \/ UpdateRow(r) \/ (\E j \in Id : InsertRow(r, j))
    BY <2>1 DEF Handle, InsertUser, GetUserByEmail, GetUser, UpdateUser, Reply
  <2> QED
    BY <1>1, <1>2, <2>2
<1>4. CASE \E r \in Slot : Disconnect(r) \/ StatementFails(r)
  <2>1. PICK r \in Slot : Write(r)
    BY <1>4 DEF Disconnect, StatementFails
  <2> QED
    BY <1>1, <1>2, <2>1 DEF Write
<1>5. CASE UNCHANGED users
  BY <1>5
<1> QED
  BY <1>3, <1>4, <1>5
  DEF Next, vars, SubmitRegister, SubmitLogin, SubmitUpdate, SubmitGet, Crash

(***************************************************************************)
(* The address of an account never changes, and no account goes away.      *)
(***************************************************************************)
THEOREM EmailForEver == Spec => EmailKept
<1>1. AccountInv /\ [Next]_vars =>
        [\A i \in Id : users[i] # None =>
           users'[i] # None /\ users'[i].email = users[i].email]_vars
  BY StepKeeps
<1> QED
  BY <1>1, AccountInvariant, PTL DEF Spec, EmailKept
================================================================================
