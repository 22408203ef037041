------------------------------ MODULE Accounts ------------------------------
(***************************************************************************)
(* Accounts, their tokens and their erasure (AuthService, security.py,     *)
(* AdminService.set_role, PrivacyService.delete_my_data).                  *)
(*                                                                         *)
(* An access token carries the role and the e-mail its account had when it *)
(* was issued; requests are admitted by what the token says until it       *)
(* expires.  A change of role and an erasure read the row, write what they *)
(* would have differ from what they read, and commit.  Time is measured by *)
(* ages, in ticks.                                                         *)
(***************************************************************************)
EXTENDS Integers

CONSTANTS
    Ids, Root,          (* ids of accounts (bound), and the first admin    *)
    Emails, RootEmail,  (* verified by the OAuth provider                  *)
    Anonymous,          (* the e-mail of an erased account: anon+<its id>  *)
    Roles,
    Clients,            (* each holds its tokens and has one request under way *)
    AccessTtl,          (* access_token_expire_minutes                     *)
    Delay,              (* bound: ticks that a request takes once it has read *)
    NoId

ConstantsAssumption ==
    /\ Root \in Ids /\ RootEmail \in Emails
    /\ Anonymous \notin Emails
    /\ {"attendee", "admin"} \subseteq Roles
    /\ "none" \notin Roles
    /\ AccessTtl \in Nat
    /\ Delay \in Nat
    /\ NoId \notin Ids

VARIABLES
    users,     (* table users: UNIQUE (email)                              *)
    lock,      (* who holds each row                                       *)
    tx,        (* the request of each client                               *)
    access,    (* the access token of each client                          *)
    shown      (* history: ticks since the last claim admitted was true    *)

rows == <<users, lock>>
vars == <<rows, tx, access, shown>>

Row == [email : Emails \cup {Anonymous}, role : Roles]

NoRow == [email |-> Anonymous, role |-> "none"]

(* What a token says: an account, and the row it was issued from.          *)
Claims == Ids \X Row

NoClaim == <<NoId, NoRow>>

(* stale (history): ticks since what the token says was in the table.      *)
Stale == 0 .. AccessTtl + Delay + 1

Token == [of : Claims \cup {NoClaim}, age : 0 .. AccessTtl + 1, stale : Stale]

NoToken == [of |-> NoClaim, age |-> AccessTtl + 1, stale |-> 0]

(* The request of a client: the account it is about, the row it has read or*)
(* made up for it, and the columns of it that it will write.               *)
Tx == [pc : {"idle", "add", "issue", "reload", "flush", "commit"},
       id : Ids \cup {NoId}, row : Row \cup {NoRow},
       cols : SUBSET {"email", "role"}, age : 0 .. Delay, stale : Stale]

Request(pc, id, row, cols) ==
    [pc |-> pc, id |-> id, row |-> row, cols |-> cols, age |-> 0, stale |-> 0]

Idle == Request("idle", NoId, NoRow, {})

Has(i) == users[i] # NoRow

Init ==
    /\ users = [i \in Ids |-> IF i = Root THEN [email |-> RootEmail, role |-> "admin"] ELSE NoRow]
    /\ lock = [i \in Ids |-> NoId]
    /\ tx = [c \in Clients |-> Idle]
    /\ access = [c \in Clients |-> NoToken]
    /\ shown = 0

-----------------------------------------------------------------------------
(* Tokens *)

Starts(c, request) ==
    /\ tx[c] = Idle
    /\ tx' = [tx EXCEPT ![c] = request]
    /\ UNCHANGED <<rows, access>>

(* get_by_email, once the provider has verified the id_token.              *)
LoginRead(c, e) ==
    /\ \/ \E i \in Ids : users[i].email = e /\ Starts(c, Request("issue", i, users[i], {}))
       \/ /\ \A i \in Ids : users[i].email # e
          /\ Starts(c, Request("add", NoId, [email |-> e, role |-> "attendee"], {}))
    /\ UNCHANGED shown

(* Rows inserted and not committed.                                        *)
Inserted == {c \in Clients : tx[c].pc = "issue" /\ tx[c].cols # {}}

(* Ids that no row has; which one is taken does not matter.                *)
FreshIds == {i \in Ids : ~ Has(i) /\ \A q \in Inserted : tx[q].id # i}

Inserting(c) ==
    Request("issue", CHOOSE i \in FreshIds : TRUE, tx[c].row, {"email", "role"})

(* Seeded fault: the e-mail is only looked up.                             *)
LoginAddNotUnique(c) ==
    /\ tx[c].pc = "add"
    /\ FreshIds # {}
    /\ tx' = [tx EXCEPT ![c] = Inserting(c)]
    /\ UNCHANGED <<rows, access, shown>>

(* The first access of an e-mail.  The UNIQUE makes the insert wait for an *)
(* uncommitted row of the same e-mail, and fail after a committed one.     *)
LoginAdd(c) ==
    /\ tx[c].pc = "add"
    /\ \A q \in Inserted : tx[q].row.email # tx[c].row.email
    /\ \/ /\ \A i \in Ids : users[i].email # tx[c].row.email
          /\ FreshIds # {}
          /\ tx' = [tx EXCEPT ![c] = Inserting(c)]
       \/ /\ \E i \in Ids : users[i].email = tx[c].row.email
          /\ tx' = [tx EXCEPT ![c] = Idle]
    /\ UNCHANGED <<rows, access, shown>>

(* refresh asks for the row, erased or not, and not the provider.  Refresh *)
(* tokens last for days: one of any account may be around.                 *)
RefreshRead(c, i) ==
    /\ Has(i)
    /\ Starts(c, Request("issue", i, users[i], {}))
    /\ UNCHANGED shown

(* Seeded fault: every column that was read is written back.               *)
WrittenWhole(c) == IF tx[c].cols = {} THEN users[tx[c].id] ELSE tx[c].row

(* What the row becomes when the columns a request writes are written.     *)
Written(c) ==
    [email |-> IF "email" \in tx[c].cols THEN tx[c].row.email ELSE users[tx[c].id].email,
     role |-> IF "role" \in tx[c].cols THEN tx[c].row.role ELSE users[tx[c].id].role]

Writes(c) == users' = [users EXCEPT ![tx[c].id] = Written(c)]

(* _tokens_for, and the commit.                                            *)
Issue(c) ==
    /\ tx[c].pc = "issue"
    /\ Writes(c)
    /\ access' = [access EXCEPT ![c] =
                    [of |-> <<tx[c].id, tx[c].row>>, age |-> 0,
                     stale |-> IF Written(c) = tx[c].row THEN 0 ELSE tx[c].stale]]
    /\ tx' = [tx EXCEPT ![c] = Idle]
    /\ UNCHANGED <<lock, shown>>

-----------------------------------------------------------------------------
(* Requests admitted by their token *)

(* get_current_user and require_role ask the token only.                   *)
Admitted(c, roles) ==
    /\ access[c] # NoToken
    /\ access[c].of[2].role \in roles \cup {"admin"}
    /\ shown' = access[c].stale

(* me answers from the token; any other endpoint that writes no account.   *)
Me(c) ==
    /\ tx[c] = Idle
    /\ Admitted(c, Roles)
    /\ UNCHANGED <<rows, tx, access>>

(* set_role: the UPDATE names the role, and only if it differs.            *)
SetRole(c, i, role) ==
    /\ Admitted(c, {"admin"})
    /\ Has(i)
    /\ users[i].role # role
    /\ Starts(c, Request("flush", i, [email |-> users[i].email, role |-> role], {"role"}))

(* delete_my_data: anonymize() on what was read first.                     *)
Erase(c) ==
    /\ Admitted(c, Roles)
    /\ LET i == access[c].of[1]
       IN  Starts(c, Request("reload", i, [email |-> Anonymous, role |-> users[i].role], {}))

(* update: the columns that differ from a second read, the role among them.*)
EraseReload(c) ==
    LET i == tx[c].id
        cols == {k \in {"email", "role"} : users[i][k] # tx[c].row[k]}
    IN  /\ tx[c].pc = "reload"
        /\ tx' = [tx EXCEPT ![c] = IF cols = {} THEN Idle
                                   ELSE Request("flush", i, tx[c].row, cols)]
        /\ UNCHANGED <<rows, access, shown>>

Flush(c) ==
    /\ tx[c].pc = "flush"
    /\ lock[tx[c].id] = NoId
    /\ lock' = [lock EXCEPT ![tx[c].id] = c]
    /\ tx' = [tx EXCEPT ![c].pc = "commit"]
    /\ UNCHANGED <<users, access, shown>>

Unlocked(c) == [i \in Ids |-> IF lock[i] = c THEN NoId ELSE lock[i]]

Commit(c) ==
    /\ tx[c].pc = "commit"
    /\ Writes(c)
    /\ lock' = Unlocked(c)
    /\ tx' = [tx EXCEPT ![c] = Idle]
    /\ UNCHANGED <<access, shown>>

Abort(c) ==
    /\ tx[c] # Idle
    /\ lock' = Unlocked(c)
    /\ tx' = [tx EXCEPT ![c] = Idle]
    /\ UNCHANGED <<users, access, shown>>

-----------------------------------------------------------------------------
Older(age, limit) == IF age < limit THEN age + 1 ELSE limit

(* Seeded fault: the expiry is not verified.                               *)
ExpiredNever(c) == FALSE

(* decode_token refuses an expired token.                                  *)
Expired(c) == access[c].age >= AccessTtl

(* Staleness counts from the tick that finds the table changed.            *)
Aged(it, of, limit) ==
    [it EXCEPT !.age = Older(@, limit),
               !.stale = IF of[1] \in Ids /\ users[of[1]] = of[2] THEN 0
                         ELSE Older(@, AccessTtl + Delay + 1)]

Tick ==
    /\ \A c \in Clients : tx[c] # Idle => tx[c].age < Delay
    /\ tx' = [c \in Clients |->
                IF tx[c] = Idle THEN Idle ELSE Aged(tx[c], <<tx[c].id, tx[c].row>>, Delay)]
    /\ access' = [c \in Clients |->
                    IF Expired(c) THEN NoToken ELSE Aged(access[c], access[c].of, AccessTtl)]
    /\ shown' = 0
    /\ UNCHANGED <<rows>>

Serve(c) ==
    \/ \E e \in Emails : LoginRead(c, e)
    \/ LoginAdd(c) \/ Issue(c)
    \/ Me(c) \/ Erase(c) \/ EraseReload(c)
    \/ \E i \in Ids : RefreshRead(c, i) \/ \E role \in Roles : SetRole(c, i, role)
    \/ Flush(c) \/ Commit(c) \/ Abort(c)

Next ==
    \/ \E c \in Clients : Serve(c)
    \/ Tick

Spec == Init /\ [][Next]_vars

-----------------------------------------------------------------------------
(* Properties *)

TypeOK ==
    /\ users \in [Ids -> Row \cup {NoRow}]
    /\ lock \in [Ids -> Clients \cup {NoId}]
    /\ tx \in [Clients -> Tx]
    /\ access \in [Clients -> Token]
    /\ shown \in Stale

(* Two first accesses of one e-mail at the same time, or one during the    *)
(* erasure of its account, leave one account with it.                      *)
OneAccountPerEmail ==
    \A i, j \in Ids : i # j /\ users[i].email = users[j].email => users[i].email = Anonymous

(* A request is admitted for a role (and me shows an e-mail) that its      *)
(* account had within the life of an access token and one request, however *)
(* roles change and accounts are erased meanwhile.                         *)
ClaimsAreRecent == shown <= AccessTtl + Delay

(* RN-07: an erased account stays so, whatever requests had read it before *)
(* or write it after.                                                      *)
StaysErased ==
    \A i \in Ids : Has(i) /\ users[i].email = Anonymous => users'[i].email = Anonymous

=============================================================================
