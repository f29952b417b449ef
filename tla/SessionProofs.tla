---------------------------- MODULE SessionProofs ----------------------------
(***************************************************************************)
(* Proofs about Session, for every number of clients and accounts and any  *)
(* configured lifetime.                                                    *)
(***************************************************************************)
EXTENDS Session, TLAPS

\* A login is not overdue; the status it read was true when it began.
LoginInTime ==
  \A c \in Client : pc[c] # "idle" =>
    /\ now <= begun[c] + LoginTime
    /\ row[c] => begun[c] <= lastEnabled[who[c]]
    /\ pc[c] = "issue" => row[c]

\* A token bears the role of the table it was issued from, and expires within the
\* lifetime, and the duration of a login, of the last time its account was enabled.
TokenHonest ==
  \A c \in Client : held[c] # NoToken =>
    /\ held[c].role = granted[c].table
    /\ held[c].exp <= lastEnabled[granted[c]] + LoginTime + Lifetime

\* An enabled account is enabled now.
EnabledNow == \A a \in Account : lastEnabled[a] <= now /\ (a \in enabled => lastEnabled[a] = now)

Inv == TypeOK /\ LoginInTime /\ TokenHonest /\ EnabledNow

LEMMA LifetimeType == Lifetime \in Nat
BY TimeAssumption DEF Lifetime

LEMMA Floor == ASSUME NEW n \in Nat, NEW s \in Nat \ {0}
               PROVE  n \div s \in Nat /\ (n \div s) * s \in Nat /\ (n \div s) * s <= n
BY Z3

LEMMA ExpireAtBound == now \in Nat => ExpireAt \in Nat /\ ExpireAt <= now + Lifetime
BY Floor, LifetimeType, TimeAssumption DEF ExpireAt

LEMMA InitInv == Init => Inv
<1> SUFFICES ASSUME Init PROVE Inv
  OBVIOUS
<1> USE DEF Init
<1>1. TypeOK
  BY DEF TypeOK
<1>2. LoginInTime /\ TokenHonest /\ EnabledNow
  BY DEF LoginInTime, TokenHonest, EnabledNow
<1> QED
  BY <1>1, <1>2 DEF Inv

-----------------------------------------------------------------------------

LEMMA ReadStep == ASSUME Inv, NEW c \in Client, Read(c) PROVE Inv'
<1> USE DEF Read, hist
<1>1. PICK a \in Account : /\ who' = [who EXCEPT ![c] = a]
                          /\ row' = [row EXCEPT ![c] = a \in enabled]
  OBVIOUS
<1>2. TypeOK'
  BY <1>1 DEF Inv, TypeOK
<1>3. LoginInTime'
  <2> SUFFICES ASSUME NEW d \in Client, pc'[d] # "idle"
               PROVE  /\ now' <= begun'[d] + LoginTime
                      /\ row'[d] => begun'[d] <= lastEnabled'[who'[d]]
                      /\ pc'[d] = "issue" => row'[d]
    BY DEF LoginInTime
  <2>1. CASE d = c
    <3>1. /\ pc'[d] = "compare" /\ begun'[d] = now /\ now' = now /\ who'[d] = a
          /\ lastEnabled' = lastEnabled /\ now \in Nat
      BY <1>1, <2>1 DEF Inv, TypeOK
    <3>2. row'[d] => a \in enabled
      BY <1>1, <2>1 DEF Inv, TypeOK
    <3>3. row'[d] => lastEnabled[a] = now
      BY <3>2 DEF Inv, EnabledNow
    <3> QED
      BY <3>1, <3>3, TimeAssumption
  <2>2. CASE d # c
    BY <1>1, <2>2 DEF Inv, TypeOK, LoginInTime
  <2> QED
    BY <2>1, <2>2
<1>4. TokenHonest' /\ EnabledNow'
  BY LifetimeType DEF Inv, TypeOK, TokenHonest, EnabledNow, Lifetime
<1> QED
  BY <1>2, <1>3, <1>4 DEF Inv

LEMMA CompareStep == ASSUME Inv, NEW c \in Client, Compare(c) PROVE Inv'
<1> USE DEF Compare, hist
<1>1. TypeOK'
  BY DEF Inv, TypeOK
<1>2. LoginInTime'
  BY DEF Inv, TypeOK, LoginInTime, StatusGood
<1>3. TokenHonest' /\ EnabledNow'
  BY DEF Inv, TokenHonest, EnabledNow, Lifetime
<1> QED
  BY <1>1, <1>2, <1>3 DEF Inv

LEMMA BuildTokenStep == ASSUME Inv, NEW c \in Client, BuildToken(c) PROVE Inv'
<1> DEFINE t == [id |-> who[c].id, role |-> RoleOf(who[c].table), exp |-> ExpireAt]
<1>1. /\ pc[c] = "issue" /\ held' = [held EXCEPT ![c] = t]
      /\ granted' = [granted EXCEPT ![c] = who[c]] /\ pc' = [pc EXCEPT ![c] = "idle"]
      /\ UNCHANGED <<now, enabled, who, row, begun, area, lastEnabled>>
  BY DEF BuildToken
<1>2. /\ now \in Nat /\ who[c] \in Account /\ begun[c] \in Nat /\ lastEnabled \in [Account -> Nat]
      /\ granted \in [Client -> Account]
      /\ held \in [Client -> [id : Id, role : Role, exp : Nat] \union {NoToken}]
  BY DEF Inv, TypeOK
<1>3. /\ t \in [id : Id, role : Role, exp : Nat] /\ t.role = who[c].table /\ t.exp = ExpireAt
  BY <1>2, ExpireAtBound DEF RoleOf, Account, Table, Role
<1>4. ExpireAt \in Nat /\ ExpireAt <= lastEnabled[who[c]] + LoginTime + Lifetime /\ ExpireAt <= now + Lifetime
  <2>1. now <= begun[c] + LoginTime /\ begun[c] <= lastEnabled[who[c]]
    BY <1>1 DEF Inv, LoginInTime
  <2> QED
    BY <1>2, <2>1, ExpireAtBound, LifetimeType, TimeAssumption
<1> HIDE DEF t
<1>5. held' \in [Client -> [id : Id, role : Role, exp : Nat] \union {NoToken}]
  BY <1>1, <1>2, <1>3
<1>6. TypeOK'
  <2>1. \A d \in Client : held'[d] # NoToken => held'[d].exp <= now' + Lifetime
    BY <1>1, <1>2, <1>3, <1>4 DEF Inv, TypeOK
  <2>2. (\A d \in Client : held[d] # NoToken => held[d].exp <= now + Lifetime)'
    BY <2>1 DEF Lifetime
  <2> QED
    BY <1>1, <1>2, <1>5, <2>2 DEF Inv, TypeOK
<1>7. LoginInTime'
  BY <1>1 DEF Inv, TypeOK, LoginInTime
<1>8. TokenHonest'
  <2> SUFFICES ASSUME NEW d \in Client, held'[d] # NoToken
               PROVE  /\ held'[d].role = granted'[d].table
                      /\ held'[d].exp <= lastEnabled'[granted'[d]] + LoginTime + Lifetime
    BY DEF TokenHonest, Lifetime
  <2>1. CASE d = c
    BY <1>1, <1>2, <1>3, <1>4, <2>1
  <2>2. CASE d # c
    BY <1>1, <1>2, <2>2 DEF Inv, TokenHonest
  <2> QED
    BY <2>1, <2>2
<1>9. EnabledNow'
  BY <1>1 DEF Inv, EnabledNow
<1> QED
  BY <1>6, <1>7, <1>8, <1>9 DEF Inv

LEMMA AdmissionStep ==
  ASSUME Inv, NEW c \in Client, Leave(c) \/ \E role \in Role : Enter(c, role) PROVE Inv'
<1>1. /\ UNCHANGED <<now, enabled, pc, who, row, begun, held, hist>>
      /\ area' \in [Client -> {"out"} \union Role]
  BY DEF Leave, Enter, Inv, TypeOK
<1> QED
  BY <1>1 DEF hist, Inv, TypeOK, LoginInTime, TokenHonest, EnabledNow, Lifetime

LEMMA DisableStep == ASSUME Inv, NEW a \in Account, Disable(a) PROVE Inv'
<1> USE DEF Disable
<1>1. TypeOK'
  BY DEF Inv, TypeOK, Lifetime
<1>2. lastEnabled' = lastEnabled
  BY DEF Inv, TypeOK, EnabledNow
<1> QED
  BY <1>1, <1>2 DEF Inv, TypeOK, LoginInTime, TokenHonest, EnabledNow, Lifetime

LEMMA TickStep == ASSUME Inv, Tick PROVE Inv'
<1>1. /\ \A c \in Client : pc[c] # "idle" => now < begun[c] + LoginTime
      /\ now' = now + 1
      /\ lastEnabled' = [a \in Account |-> IF a \in enabled THEN now + 1 ELSE lastEnabled[a]]
      /\ UNCHANGED <<enabled, pc, who, row, begun, held, area, granted>>
  BY DEF Tick
<1>2. /\ now \in Nat /\ lastEnabled \in [Account -> Nat]
      /\ \A a \in Account : lastEnabled[a] <= lastEnabled'[a]
  BY <1>1 DEF Inv, TypeOK, EnabledNow
<1>3. TypeOK'
  <2>1. \A c \in Client : held[c] # NoToken => held[c].exp \in Nat /\ held[c].exp <= now + 1 + Lifetime
    BY <1>2, LifetimeType DEF Inv, TypeOK
  <2>2. (\A c \in Client : held[c] # NoToken => held[c].exp <= now + Lifetime)'
    BY <1>1, <2>1 DEF Lifetime
  <2> QED
    BY <1>1, <1>2, <2>2 DEF Inv, TypeOK
<1>4. LoginInTime'
  BY <1>1, <1>2, TimeAssumption DEF Inv, TypeOK, LoginInTime
<1>5. TokenHonest'
  <2> SUFFICES ASSUME NEW d \in Client, held[d] # NoToken
               PROVE  /\ held[d].role = granted[d].table
                      /\ held[d].exp <= lastEnabled'[granted[d]] + LoginTime + Lifetime
    BY <1>1 DEF TokenHonest, Lifetime
  <2>1. /\ granted[d] \in Account /\ held[d].exp \in Nat
        /\ lastEnabled'[granted[d]] \in Nat /\ lastEnabled[granted[d]] \in Nat
    BY <1>1, <1>2 DEF Inv, TypeOK
  <2> QED
    BY <1>2, <2>1, LifetimeType, TimeAssumption DEF Inv, TokenHonest
<1>6. EnabledNow'
  BY <1>1, <1>2 DEF Inv, EnabledNow
<1> QED
  BY <1>3, <1>4, <1>5, <1>6 DEF Inv

LEMMA Preserved == Inv /\ [Next]_vars => Inv'
<1> SUFFICES ASSUME Inv, [Next]_vars PROVE Inv'
  OBVIOUS
<1>1. ASSUME NEW c \in Client,
             Read(c) \/ Compare(c) \/ BuildToken(c) \/ Leave(c) \/ \E role \in Role : Enter(c, role)
      PROVE  Inv'
  BY <1>1, ReadStep, CompareStep, BuildTokenStep, AdmissionStep
<1>2. ASSUME NEW a \in Account, Disable(a) PROVE Inv'
  BY <1>2, DisableStep
<1>3. CASE Tick
  BY <1>3, TickStep
<1>4. CASE UNCHANGED vars
  BY <1>4 DEF vars, Inv, TypeOK, LoginInTime, TokenHonest, EnabledNow, Lifetime
<1> QED
  BY <1>1, <1>2, <1>3, <1>4 DEF Next

LEMMA Invariance == Spec => []Inv
BY InitInv, Preserved, PTL DEF Spec

\* The types, and that no token outlives jwt.expire (BuildToken).
THEOREM TypeCorrect == Spec => []TypeOK
BY Invariance, PTL DEF Inv

\* A disabled account is locked out after the lifetime of a token and the duration of
\* a login, and never enters the routes of the other table, although nothing revokes
\* a token and equal ids exist in both tables (AppAuth, AdminAuth).
THEOREM AdmissionsAreRecent == Spec => AdmissionIsRecent
<1>1. ASSUME Inv, [Next]_vars, NEW c \in Client, NEW role \in Role,
             area[c] = "out", area'[c] = role
      PROVE  /\ granted[c].table = role
             /\ now - lastEnabled[granted[c]] < Lifetime + LoginTime
  <2>1. area[c] # area'[c]
    BY <1>1 DEF Role
  <2>2. \E d \in Client, r \in Role : Enter(d, r)
    BY <1>1, <2>1 DEF Next, Read, Compare, BuildToken, Leave, Disable, Tick, vars, Inv, TypeOK, Role
  <2>3. PICK d \in Client, r \in Role : Enter(d, r)
    BY <2>2
  <2>4. d = c /\ r = role
    BY <1>1, <2>1, <2>3 DEF Enter, Inv, TypeOK
  <2>5. held[c] # NoToken /\ now < held[c].exp /\ held[c].role = role
    BY <2>3, <2>4 DEF Enter, Valid, Admitted
  <2>6. held[c].exp \in Nat /\ now \in Nat /\ lastEnabled[granted[c]] \in Nat
    BY <1>1, <2>5 DEF Inv, TypeOK
  <2> QED
    BY <2>5, <2>6, <1>1, LifetimeType, TimeAssumption DEF Inv, TokenHonest
<1>2. Inv /\ [Next]_vars =>
        [\A c \in Client, role \in Role :
           area[c] = "out" /\ area'[c] = role =>
             /\ granted[c].table = role
             /\ now - lastEnabled[granted[c]] < Lifetime + LoginTime]_vars
  BY <1>1
<1> QED
  BY <1>2, Invariance, PTL DEF Spec, AdmissionIsRecent

=============================================================================
