------------------------------- MODULE Session -------------------------------
(***************************************************************************)
(* Login of users and admins, the tokens it issues, and the middleware     *)
(* that admits the bearer of a token to the app or the admin routes.  The  *)
(* two kinds of account live in tables of their own and may share ids.     *)
(* Nothing in the program revokes a token or disables an account; the      *)
(* accounts are disabled from outside.                                     *)
(***************************************************************************)
EXTENDS Integers

CONSTANTS
  Client,         \* clients; each holds the last token it was given
  Id,             \* account ids
  JwtExpire,      \* jwt.expire of the configuration, in seconds
  DefaultExpire,  \* used when it is not positive (7200 s)
  Second,         \* ticks of a second
  LoginTime,      \* bound on the ticks a login takes
  MaxNow,         \* bound on time
  NoToken

Table   == {"user", "admin"}
Role    == {"user", "admin"}
Account == [table : Table, id : Id]

ASSUME TimeAssumption ==
  /\ JwtExpire \in Int /\ DefaultExpire \in Nat \ {0}
  /\ Second \in Nat \ {0} /\ LoginTime \in Nat /\ MaxNow \in Nat
ASSUME TokenAssumption == NoToken \notin [id : Id, role : Role, exp : Nat]

VARIABLES
  now,          \* the clock
  enabled,      \* the accounts whose status is 1
  pc,           \* Client -> where its login stands
  who,          \* Client -> the account it logs in to
  row,          \* Client -> the status its login read
  begun,        \* Client -> when its login read the row
  held,         \* Client -> its token
  area,         \* Client -> the routes it was admitted to
  granted,      \* history: Client -> the account its token was issued for
  lastEnabled   \* history: account -> latest time it was enabled

hist == <<granted, lastEnabled>>
vars == <<now, enabled, pc, who, row, begun, held, area, granted, lastEnabled>>

Init ==
  /\ now = 0
  /\ enabled = Account
  /\ pc = [c \in Client |-> "idle"]
  /\ who \in [Client -> Account]
  /\ row = [c \in Client |-> FALSE]
  /\ begun = [c \in Client |-> 0]
  /\ held = [c \in Client |-> NoToken]
  /\ area = [c \in Client |-> "out"]
  /\ granted = who
  /\ lastEnabled = [a \in Account |-> 0]

\* jwt.expire, with its default, in ticks.
Lifetime == (IF JwtExpire <= 0 THEN DefaultExpire ELSE JwtExpire) * Second

\* GetByUsername reads the row; without a row, or without database, login ends.
Read(c) ==
  /\ pc[c] = "idle"
  /\ \E a \in Account :
       /\ who' = [who EXCEPT ![c] = a]
       /\ row' = [row EXCEPT ![c] = a \in enabled]
  /\ begun' = [begun EXCEPT ![c] = now]
  /\ pc' = [pc EXCEPT ![c] = "compare"]
  /\ area' = [area EXCEPT ![c] = "out"]
  /\ UNCHANGED <<now, enabled, held, hist>>

\* The password is wrong; or it is right and the status read decides.
StatusIgnored(c) == TRUE
StatusGood(c) == row[c]

Compare(c) ==
  /\ pc[c] = "compare"
  /\ \/ pc' = [pc EXCEPT ![c] = "idle"]
     \/ pc' = [pc EXCEPT ![c] = IF StatusGood(c) THEN "issue" ELSE "idle"]
  /\ UNCHANGED <<now, enabled, who, row, begun, held, area, hist>>

\* BuildToken: the role is that of the login route, and the expiry, a NumericDate,
\* drops the fraction of a second.
AlwaysAdmin(table) == "admin"
RoleOf(table) == table
ExpiresLate == now + Lifetime + Second
ExpireAt == ((now + Lifetime) \div Second) * Second

BuildToken(c) ==
  /\ pc[c] = "issue"
  /\ held' = [held EXCEPT ![c] = [id |-> who[c].id, role |-> RoleOf(who[c].table), exp |-> ExpireAt]]
  /\ granted' = [granted EXCEPT ![c] = who[c]]
  /\ pc' = [pc EXCEPT ![c] = "idle"]
  /\ UNCHANGED <<now, enabled, who, row, begun, area, lastEnabled>>

\* parseToken admits a token signed with the secret until it expires.
Valid(t) == t # NoToken /\ now < t.exp

\* AppAuth and AdminAuth: the role of the token must be that of the routes.
AnyRole(t, role) == TRUE
Admitted(t, role) == t.role = role

Enter(c, role) ==
  /\ area[c] = "out"
  /\ Valid(held[c]) /\ Admitted(held[c], role)
  /\ area' = [area EXCEPT ![c] = role]
  /\ UNCHANGED <<now, enabled, pc, who, row, begun, held, hist>>

\* The request ends; the next one is checked anew.
Leave(c) ==
  /\ area[c] # "out"
  /\ area' = [area EXCEPT ![c] = "out"]
  /\ UNCHANGED <<now, enabled, pc, who, row, begun, held, hist>>

\* The status of an account is changed in the database.
Disable(a) ==
  /\ a \in enabled
  /\ enabled' = enabled \ {a}
  /\ lastEnabled' = [lastEnabled EXCEPT ![a] = now]
  /\ UNCHANGED <<now, pc, who, row, begun, held, area, granted>>

Tick ==
  /\ now < MaxNow
  /\ \A c \in Client : pc[c] # "idle" => now < begun[c] + LoginTime
  /\ now' = now + 1
  /\ lastEnabled' = [a \in Account |-> IF a \in enabled THEN now + 1 ELSE lastEnabled[a]]
  /\ UNCHANGED <<enabled, pc, who, row, begun, held, area, granted>>

Next ==
  \/ \E c \in Client : \/ Read(c) \/ Compare(c) \/ BuildToken(c) \/ Leave(c)
                       \/ \E role \in Role : Enter(c, role)
  \/ \E a \in Account : Disable(a)
  \/ Tick

Spec == Init /\ [][Next]_vars

-----------------------------------------------------------------------------
(* Properties *)

\* The types; nobody holds a token that outlives jwt.expire.
TypeOK ==
  /\ now \in Nat
  /\ enabled \subseteq Account
  /\ pc \in [Client -> {"idle", "compare", "issue"}]
  /\ who \in [Client -> Account]
  /\ row \in [Client -> BOOLEAN]
  /\ begun \in [Client -> Nat]
  /\ held \in [Client -> [id : Id, role : Role, exp : Nat] \union {NoToken}]
  /\ area \in [Client -> {"out"} \union Role]
  /\ granted \in [Client -> Account]
  /\ lastEnabled \in [Account -> Nat]
  /\ \A c \in Client : held[c] # NoToken => held[c].exp <= now + Lifetime

\* Whoever enters the routes of a role was given the token as an account of that
\* table, equal ids notwithstanding, and that account was enabled at some time within
\* the lifetime of a token and the duration of a login: a disabled account is locked
\* out after that time, although no token is ever revoked.
AdmissionIsRecent ==
  [][\A c \in Client, role \in Role :
       area[c] = "out" /\ area'[c] = role =>
         /\ granted[c].table = role
         /\ now - lastEnabled[granted[c]] < Lifetime + LoginTime]_vars

=============================================================================
