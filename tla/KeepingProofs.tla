--------------------------- MODULE KeepingProofs ----------------------------
(***************************************************************************)
(* What the hub keeps: proofs for any number of hooks, providers, requests *)
(* under way and key lists, and for any audit table and batch sizes.       *)
(***************************************************************************)
EXTENDS Keeping, SequenceTheorems, FiniteSetTheorems, WellFoundedInduction, TLAPS

-----------------------------------------------------------------------------
(* Sequences of keys.                                                      *)

\* The keys a value is under, without the outermost and with one more.
LEMMA KeySequences ==
    ASSUME NEW X, NEW u \in Seq(X)
    PROVE  /\ Len(u) \in Nat /\ (u = <<>> <=> Len(u) = 0)
           /\ u # <<>> => /\ u[1] \in X /\ Tail(u) \in Seq(X) /\ Len(Tail(u)) = Len(u) - 1
                          /\ Len(u) = 1 => Tail(u) = <<>>
           /\ \A k \in X : /\ <<k>> \o u \in Seq(X) /\ Len(<<k>> \o u) = Len(u) + 1
                           /\ (<<k>> \o u)[1] = k
                           /\ u = <<>> => <<k>> \o u = <<k>>
<1>1. Len(u) \in Nat /\ (u = <<>> <=> Len(u) = 0)
  BY EmptySeq, LenProperties
<1>2. ASSUME u # <<>> PROVE u[1] \in X /\ Tail(u) \in Seq(X) /\ Len(Tail(u)) = Len(u) - 1
  BY <1>1, <1>2, HeadTailProperties, LenProperties
<1>3. ASSUME Len(u) = 1 PROVE Tail(u) = <<>>
  <2>1. Tail(u) \in Seq(X) /\ Len(Tail(u)) = 0
    BY <1>1, <1>2, <1>3
  <2> QED
    BY <2>1, EmptySeq
<1>4. ASSUME NEW k \in X
      PROVE  /\ <<k>> \o u \in Seq(X) /\ Len(<<k>> \o u) = Len(u) + 1
             /\ (<<k>> \o u)[1] = k
             /\ u = <<>> => <<k>> \o u = <<k>>
  <2>1. <<k>> \in Seq(X) /\ Len(<<k>>) = 1 /\ <<k>>[1] = k
    OBVIOUS
  <2> DEFINE o == <<k>>
  <2> HIDE DEF o
  <2>2. /\ o \o u \in Seq(X) /\ Len(o \o u) = Len(o) + Len(u)
        /\ \A i \in 1..Len(o) + Len(u) : (o \o u)[i] = IF i <= Len(o) THEN o[i] ELSE u[i - Len(o)]
        /\ o \o <<>> = o
    BY <2>1, ConcatProperties, ConcatEmptySeq DEF o
  <2>3. Len(o) = 1 /\ o[1] = k
    BY <2>1 DEF o
  <2>4. /\ o \o u \in Seq(X) /\ Len(o \o u) = Len(u) + 1 /\ (o \o u)[1] = k
        /\ u = <<>> => o \o u = o
    BY <1>1, <2>2, <2>3
  <2> QED
    BY <2>4 DEF o
<1> QED
  BY <1>1, <1>2, <1>3, <1>4

-----------------------------------------------------------------------------
(* Webhooks: stored values.                                                *)

\* The list of keys has a first one.
LEMMA HookKeys ==
    ASSUME W!HookAssumption, keys \in KeyLists
    PROVE  keys \in Seq(W!Keys) /\ Len(keys) > 0 /\ keys[1] \in W!Keys
<1>1. keys \in Seq(W!Keys) /\ keys # <<>>
  BY DEF W!HookAssumption
<1>2. Len(keys) > 0
  BY <1>1
<1> QED
  BY <1>1, <1>2

\* A value that is encrypted keeps its secret and gets a key at most once.
LEMMA HookEncrypts ==
    ASSUME W!HookAssumption, keys \in KeyLists, NEW v \in W!StoredSecret
    PROVE  /\ W!encryptSecret(v) \in W!StoredSecret
           /\ W!encryptSecret(v).plain = v.plain
           /\ Len(v.under) <= 1 => Len(W!encryptSecret(v).under) = 1
<1>1. v.under \in Seq(W!Keys) /\ v.plain \in Nat
  BY DEF W!StoredSecret
<1> DEFINE u == <<keys[1]>> \o v.under
           e == [v EXCEPT !.under = u]
<1>2. u \in Seq(W!Keys) /\ (v.under = <<>> => Len(u) = 1)
  BY <1>1, HookKeys
<1> HIDE DEF u
<1>3. e \in W!StoredSecret /\ e.plain = v.plain /\ e.under = u
  BY <1>1, <1>2 DEF W!StoredSecret
<1> HIDE DEF e
<1>4. CASE v.under = <<>>
  <2>1. W!encryptSecret(v) = e
    BY <1>4 DEF W!encryptSecret, W!IsEncryptedValue, W!EncryptStringV2, e, u
  <2> QED
    BY <1>2, <1>3, <1>4, <2>1
<1>5. CASE v.under # <<>>
  <2>1. W!encryptSecret(v) = v /\ Len(v.under) \in Nat \ {0}
    BY <1>1, <1>5, KeySequences DEF W!encryptSecret, W!IsEncryptedValue
  <2> DEFINE n == Len(v.under)
  <2>2. n <= 1 => n = 1
    <3> HIDE DEF n
    <3>1. n \in Nat \ {0}
      BY <2>1 DEF n
    <3> QED
      BY <3>1
  <2> QED
    BY <2>1, <2>2
<1> QED
  BY <1>4, <1>5

\* A value that is opened keeps its secret, and is left under a key only when no
\* configured key fits.
LEMMA HookDecrypts ==
    ASSUME W!HookAssumption, NEW v \in W!StoredSecret
    PROVE  /\ W!decryptSecret(v) \in W!StoredSecret
           /\ W!decryptSecret(v).plain = v.plain
           /\ Len(v.under) = 1 =>
                \/ W!decryptSecret(v).under = <<>>
                \/ W!decryptSecret(v) = v /\ v.under[1] \notin W!Elements(keys)
<1>1. v.under \in Seq(W!Keys) /\ v.plain \in Nat
  BY DEF W!StoredSecret
<1> DEFINE u == Tail(v.under)
           d == [v EXCEPT !.under = u]
<1>2. CASE v.under # <<>> /\ v.under[1] \in W!Elements(keys)
  <2>1. u \in Seq(W!Keys) /\ (Len(v.under) = 1 => u = <<>>)
    BY <1>1, <1>2, KeySequences
  <2> HIDE DEF u
  <2>2. d \in W!StoredSecret /\ d.plain = v.plain /\ d.under = u
    BY <1>1, <2>1 DEF W!StoredSecret
  <2> HIDE DEF d
  <2>3. W!DecryptStringAuto(v) = d
    BY <1>2 DEF W!DecryptStringAuto, d, u
  <2>4. W!decryptSecret(v) = d
    BY <1>2, <2>2, <2>3 DEF W!decryptSecret, W!IsEncryptedValue, W!HookAssumption
  <2> QED
    BY <2>1, <2>2, <2>4
<1>3. CASE ~(v.under # <<>> /\ v.under[1] \in W!Elements(keys))
  <2>1. W!decryptSecret(v) = v
    BY <1>3 DEF W!decryptSecret, W!IsEncryptedValue, W!DecryptStringAuto
  <2> QED
    BY <1>1, <1>3, <2>1
<1> QED
  BY <1>2, <1>3

\* What a reader holds of a row.
LEMMA HookCopies ==
    ASSUME W!HookAssumption, NEW h \in Hooks, NEW r \in W!HookRow
    PROVE  /\ W!Copy(h, r) \in W!HookCopy /\ W!Read(W!Copy(h, r))
           /\ W!Copy(h, r).hook = h /\ W!Copy(h, r).was = r
<1> DEFINE d == W!decryptSecret(r.secret)
           x == [r EXCEPT !.secret = d]
<1>1. d \in W!StoredSecret
  BY HookDecrypts DEF W!HookRow
<1>2. W!Copy(h, r) = [hook |-> h, was |-> r, now |-> x]
  BY DEF W!Copy
<1> HIDE DEF d
<1>3. x \in W!HookRow
  BY <1>1 DEF W!HookRow
<1>4. W!Read(W!Copy(h, r))
  BY <1>2 DEF W!Read, d
<1> HIDE DEF x
<1> QED
  BY <1>2, <1>3, <1>4 DEF W!HookCopy

\* The row that the save of a copy leaves.
LEMMA HookSaves ==
    ASSUME W!HookAssumption, keys \in KeyLists, NEW x \in W!HookRow
    PROVE  LET y == [x EXCEPT !.secret = W!encryptSecret(x.secret)] IN
           /\ y \in W!HookRow /\ y.active = x.active /\ y.secret.plain = x.secret.plain
           /\ Len(x.secret.under) <= 1 => Len(y.secret.under) = 1
<1> DEFINE e == W!encryptSecret(x.secret)
           y == [x EXCEPT !.secret = e]
<1>1. e \in W!StoredSecret /\ e.plain = x.secret.plain
      /\ (Len(x.secret.under) <= 1 => Len(e.under) = 1)
  BY HookEncrypts DEF W!HookRow
<1> HIDE DEF e
<1>2. y \in W!HookRow /\ y.active = x.active /\ y.secret = e
  BY <1>1 DEF W!HookRow
<1> HIDE DEF y
<1>3. y \in W!HookRow /\ y.active = x.active /\ y.secret.plain = x.secret.plain
      /\ (Len(x.secret.under) <= 1 => Len(y.secret.under) = 1)
  BY <1>1, <1>2
<1> QED
  BY <1>3 DEF y, e

\* A copy of a sound row, read and saved, leaves a sound row.
LEMMA HookRewrites ==
    ASSUME W!HookAssumption, NEW c \in W!HookCopy, W!Read(c)
    PROVE  /\ c.now.active = c.was.active /\ c.now.secret = W!decryptSecret(c.was.secret)
           /\ c.now.secret.plain = c.was.secret.plain
           /\ Len(c.was.secret.under) = 1 => Len(c.now.secret.under) <= 1
<1> DEFINE d == W!decryptSecret(c.was.secret)
           x == [c.was EXCEPT !.secret = d]
<1>1. c.was \in W!HookRow /\ c.now = x
  BY DEF W!HookCopy, W!Read
<1>2. c.was.secret \in W!StoredSecret
  BY <1>1 DEF W!HookRow
<1>3. d.plain = c.was.secret.plain /\ (Len(c.was.secret.under) = 1 => Len(d.under) <= 1)
  <2>1. d.plain = c.was.secret.plain
        /\ (Len(c.was.secret.under) = 1 => d.under = <<>> \/ d = c.was.secret)
    BY <1>2, HookDecrypts
  <2> HIDE DEF d
  <2>2. CASE d.under = <<>>
    <3>1. Len(d.under) = 0
      BY <2>2
    <3> QED
      BY <2>1, <3>1
  <2>3. CASE d = c.was.secret
    <3> DEFINE n == Len(d.under)
    <3>1. n = 1 => n <= 1
      OBVIOUS
    <3> HIDE DEF n
    <3> QED
      BY <2>1, <2>3, <3>1 DEF n
  <2> QED
    BY <2>1, <2>2, <2>3
<1> HIDE DEF d
<1>4. x.active = c.was.active /\ x.secret = d
  BY <1>1 DEF W!HookRow
<1> HIDE DEF x
<1> QED
  BY <1>1, <1>3, <1>4 DEF d

-----------------------------------------------------------------------------
(* Webhooks: what a step may do.                                           *)

\* A delivery under way afterwards was so before or has just been started.
Started(f) ==
    /\ f.c \in W!HookCopy /\ W!Read(f.c) /\ f.c.was.active

\* Deliveries are started for the active hooks of the rows as they are.
LEMMA HookDispatch ==
    ASSUME W!HookAssumption, NEW action, NEW table \in [Hooks -> W!HookRow \union {None}],
           W!Dispatch(table, action)
    PROVE  \A f \in flights' : f \in flights \/ (Started(f) /\ table[f.c.hook] # None)
<1>1. PICK found \in {W!ActiveByEvent(table, action), {}} :
        \E number \in [found -> fires + 1 .. fires + W!Cardinality(found)] :
            flights' = flights \union
                    {[n |-> number[h], c |-> W!Copy(h, table[h])] : h \in found}
  BY DEF W!Dispatch
<1>2. PICK number \in [found -> fires + 1 .. fires + W!Cardinality(found)] :
        flights' = flights \union {[n |-> number[h], c |-> W!Copy(h, table[h])] : h \in found}
  BY <1>1
<1>3. ASSUME NEW h \in found
      PROVE  h \in Hooks /\ table[h] \in W!HookRow /\ table[h].active
  BY <1>1 DEF W!ActiveByEvent
<1>4. ASSUME NEW f \in flights', f \notin flights PROVE Started(f) /\ table[f.c.hook] # None
  <2>1. PICK h \in found : f = [n |-> number[h], c |-> W!Copy(h, table[h])]
    BY <1>2, <1>4
  <2>2. f.c = W!Copy(h, table[h])
    BY <2>1
  <2> QED
    BY <1>3, <2>2, HookCopies DEF Started, W!HookAssumption
<1> QED
  BY <1>4

\* A step keeps the invariant when the rows it leaves are sound.
LEMMA HookStep ==
    ASSUME W!HookAssumption, W!HookInv, keys' = keys,
           row' \in [Hooks -> W!HookRow \union {None}],
           \A f \in flights' : f \in flights \/ (Started(f) /\ row'[f.c.hook] # None),
           edit' \in [Actors -> W!HookCopy \union {None}],
           \A a \in Actors : edit'[a] # None => W!Read(edit'[a]) /\ given'[edit'[a].hook] # None,
           given' \in [Hooks -> Nat \union {None}], secrets' \in Nat,
           \A h \in Hooks : given[h] # None => given'[h] # None,
           \A h \in Hooks : given'[h] = None => row'[h] = None /\ h \notin off',
           \A h \in Hooks : row'[h] # None /\ h \notin stale' =>
                /\ row'[h].secret.plain = given'[h] /\ Len(row'[h].secret.under) = 1
                /\ h \in off' => ~row'[h].active
    PROVE  W!HookInv'
<1>1. \A f \in flights' : Started(f)
  BY DEF W!HookInv, W!HookStateOK, W!CopiesRead, Started
<1>2. W!HookStateOK'
  BY <1>1 DEF W!HookInv, W!HookStateOK, Started
<1>3. \A c : W!Read(c)' <=> c.now = [c.was EXCEPT !.secret = W!decryptSecret(@)]'
  BY DEF W!Read
<1>4. \A c : W!Read(c) => c.now = [c.was EXCEPT !.secret = W!decryptSecret(@)]'
  BY DEF W!Read, W!decryptSecret, W!DecryptStringAuto
<1>5. W!CopiesRead'
  BY <1>1, <1>4 DEF W!CopiesRead, Started, W!Read
<1>6. W!Unborn'
  <2>1. ASSUME NEW f \in flights', NEW h \in Hooks, given'[h] = None PROVE f.c.hook # h
    BY <2>1 DEF W!HookInv, W!Unborn
  <2> QED
    BY <2>1 DEF W!Unborn
<1>7. W!SecretRecoverable'
  BY DEF W!SecretRecoverable
<1>8. W!OffStaysOff'
  <2> SUFFICES ASSUME NEW h \in Hooks, h \in off', h \notin stale'
               PROVE  /\ row'[h] # None => ~row'[h].active
                      /\ \A f \in flights' : f.c.hook = h => f.c.was.active /\ f.c.was # row'[h]
    BY DEF W!OffStaysOff
  <2>1. row'[h] # None => ~row'[h].active
    OBVIOUS
  <2>2. None \notin W!HookRow
    BY DEF W!HookAssumption
  <2>3. ASSUME NEW f \in flights' PROVE f.c.was.active /\ f.c.was \in W!HookRow
    BY <1>1 DEF Started, W!HookCopy
  <2> QED
    BY <2>1, <2>2, <2>3
<1> QED
  BY <1>2, <1>5, <1>6, <1>7, <1>8 DEF W!HookInv

\* What is known of a copy somebody holds, of a row and of a value.
LEMMA HookFacts ==
    ASSUME W!HookAssumption, W!HookInv
    PROVE  /\ row \in [Hooks -> W!HookRow \union {None}] /\ keys \in KeyLists
           /\ edit \in [Actors -> W!HookCopy \union {None}]
           /\ given \in [Hooks -> Nat \union {None}] /\ secrets \in Nat
           /\ None \notin W!HookRow /\ None \notin W!HookCopy /\ None \notin Nat
           /\ \A f \in flights : Started(f) /\ given[f.c.hook] # None
           /\ \A a \in Actors : edit[a] # None =>
                edit[a] \in W!HookCopy /\ W!Read(edit[a]) /\ given[edit[a].hook] # None
           /\ \A h \in Hooks : given[h] = None => row[h] = None /\ h \notin off
           /\ \A h \in Hooks : row[h] # None /\ h \notin stale =>
                /\ row[h].secret.plain = given[h] /\ Len(row[h].secret.under) = 1
                /\ h \in off => ~row[h].active
<1>1. W!HookStateOK /\ W!CopiesRead /\ W!Unborn /\ W!SecretRecoverable /\ W!OffStaysOff
  BY DEF W!HookInv
<1>2. \A a \in Actors : edit[a] # None =>
        edit[a] \in W!HookCopy /\ W!Read(edit[a]) /\ given[edit[a].hook] # None
  <2> SUFFICES ASSUME NEW a \in Actors, edit[a] # None
               PROVE  edit[a] \in W!HookCopy /\ W!Read(edit[a]) /\ given[edit[a].hook] # None
    OBVIOUS
  <2>1. edit[a] \in W!HookCopy
    BY <1>1 DEF W!HookStateOK
  <2>2. edit[a].hook \in Hooks
    BY <2>1 DEF W!HookCopy
  <2> QED
    BY <1>1, <2>1, <2>2 DEF W!CopiesRead, W!Unborn
<1>3. \A f \in flights : Started(f) /\ given[f.c.hook] # None
  BY <1>1 DEF W!HookStateOK, W!CopiesRead, Started, W!HookCopy, W!Unborn
<1> QED
  BY <1>1, <1>2, <1>3
     DEF W!HookStateOK, W!Unborn, W!SecretRecoverable, W!OffStaysOff, W!HookAssumption

\* The save of a copy c whose secret is new or was read, by a handler or a delivery.
LEMMA HookUpdated ==
    ASSUME W!HookAssumption, W!HookInv, NEW c, c.hook \in Hooks, c.now \in W!HookRow,
           c.was \in W!HookRow, W!Update(c),
           given' \in [Hooks -> Nat \union {None}], given[c.hook] # None, given'[c.hook] # None,
           \A h \in Hooks \ {c.hook} : given'[h] = given[h] /\ (h \in off' <=> h \in off),
           row[c.hook] = c.was /\ c.hook \notin stale =>
                /\ c.now.secret.plain = given'[c.hook] /\ Len(c.now.secret.under) <= 1
                /\ c.hook \in off' => ~c.now.active
    PROVE  /\ row' \in [Hooks -> W!HookRow \union {None}]
           /\ \A h \in Hooks : given'[h] = None => row'[h] = None /\ h \notin off'
           /\ \A h \in Hooks : row'[h] # None /\ h \notin stale' =>
                /\ row'[h].secret.plain = given'[h] /\ Len(row'[h].secret.under) = 1
                /\ h \in off' => ~row'[h].active
<1> DEFINE y == [c.now EXCEPT !.secret = W!encryptSecret(c.now.secret)]
<1>1. row' = [row EXCEPT ![c.hook] = y]
      /\ stale' = IF row[c.hook] = c.was THEN stale ELSE stale \union {c.hook}
  BY DEF W!Update
<1>2. /\ y \in W!HookRow /\ y.active = c.now.active /\ y.secret.plain = c.now.secret.plain
      /\ Len(c.now.secret.under) <= 1 => Len(y.secret.under) = 1
  BY HookFacts, HookSaves
<1> HIDE DEF y
<1>3. row' \in [Hooks -> W!HookRow \union {None}] /\ row'[c.hook] = y
      /\ \A h \in Hooks \ {c.hook} : row'[h] = row[h]
  BY <1>1, <1>2, HookFacts
<1>4. ASSUME NEW h \in Hooks
      PROVE  /\ given'[h] = None => row'[h] = None /\ h \notin off'
             /\ row'[h] # None /\ h \notin stale' =>
                /\ row'[h].secret.plain = given'[h] /\ Len(row'[h].secret.under) = 1
                /\ h \in off' => ~row'[h].active
  <2>1. CASE h = c.hook
    <3>1. h \notin stale' => row[h] = c.was /\ h \notin stale
      BY <1>1, <2>1
    <3> QED
      BY <1>2, <1>3, <2>1, <3>1
  <2>2. CASE h # c.hook
    <3>1. row'[h] = row[h] /\ given'[h] = given[h] /\ (h \in off' <=> h \in off)
      BY <1>3, <2>2
    <3>2. h \notin stale' => h \notin stale
      BY <1>1
    <3> QED
      BY <3>1, <3>2, HookFacts
  <2> QED
    BY <2>1, <2>2
<1> QED
  BY <1>3, <1>4

\* A copy that was read and is saved as it is, and what it leaves when the row is
\* still what was read.
LEMMA HookCopySound ==
    ASSUME W!HookAssumption, W!HookInv, NEW c \in W!HookCopy, W!Read(c),
           row[c.hook] = c.was, c.hook \notin stale
    PROVE  /\ c.now.secret.plain = given[c.hook] /\ Len(c.now.secret.under) <= 1
           /\ c.hook \in off => ~c.now.active
<1>1. c.hook \in Hooks /\ c.was \in W!HookRow /\ None \notin W!HookRow
  BY HookFacts DEF W!HookCopy
<1>2. /\ c.was.secret.plain = given[c.hook] /\ Len(c.was.secret.under) = 1
      /\ c.hook \in off => ~c.was.active
  BY <1>1, HookFacts
<1> QED
  BY <1>2, HookRewrites

\* A new secret.
LEMMA HookNewSecret ==
    ASSUME NEW n \in Nat
    PROVE  /\ W!Plain(n) \in W!StoredSecret /\ W!Plain(n).plain = n /\ W!Plain(n).under = <<>>
           /\ Len(W!Plain(n).under) = 0
<1>1. W!Plain(n) = [plain |-> n, under |-> <<>>]
  BY DEF W!Plain
<1>2. <<>> \in Seq(W!Keys) /\ Len(<<>>) = 0
  BY EmptySeq
<1> QED
  BY <1>1, <1>2 DEF W!StoredSecret

\* A hook is created.
LEMMA HookCreate ==
    ASSUME W!HookAssumption, W!HookInv, NEW h \in Hooks, W!Create(h)
    PROVE  W!HookInv'
<1> DEFINE n == secrets + 1
           v == W!Plain(n)
<1>1. n \in Nat
  BY HookFacts
<1>2. /\ given[h] = None /\ secrets' = n /\ given' = [given EXCEPT ![h] = n]
      /\ UNCHANGED <<keys, edit, off, stale>> /\ W!Dispatch(row', "create")
  BY DEF W!Create
<1>3. PICK ev \in W!EventLists :
        row' = [row EXCEPT ![h] = [active |-> TRUE, events |-> ev, secret |-> W!encryptSecret(v)]]
  BY DEF W!Create
<1> HIDE DEF n
<1>4. v \in W!StoredSecret /\ v.plain = n /\ Len(v.under) <= 1
  <2>1. v \in W!StoredSecret /\ v.plain = n /\ Len(v.under) = 0
    BY <1>1, HookNewSecret
  <2> HIDE DEF v
  <2> QED
    BY <2>1
<1> HIDE DEF v
<1> DEFINE e == W!encryptSecret(v)
           y == [active |-> TRUE, events |-> ev, secret |-> e]
<1>5. e \in W!StoredSecret /\ e.plain = n /\ Len(e.under) = 1
  BY <1>4, HookFacts, HookEncrypts
<1> HIDE DEF e
<1>6. y \in W!HookRow /\ y.active = TRUE /\ y.secret = e
  BY <1>5 DEF W!HookRow
<1> HIDE DEF y
<1>7. row' = [row EXCEPT ![h] = y]
  BY <1>3 DEF y, e
<1>8. row' \in [Hooks -> W!HookRow \union {None}] /\ given' \in [Hooks -> Nat \union {None}]
      /\ row'[h] = y /\ given'[h] = n /\ h \notin off
      /\ \A g \in Hooks \ {h} : row'[g] = row[g] /\ given'[g] = given[g]
  BY <1>1, <1>2, <1>6, <1>7, HookFacts
<1>9. ASSUME NEW g \in Hooks
      PROVE  /\ given'[g] = None => row'[g] = None /\ g \notin off'
             /\ row'[g] # None /\ g \notin stale' =>
                /\ row'[g].secret.plain = given'[g] /\ Len(row'[g].secret.under) = 1
                /\ g \in off' => ~row'[g].active
  <2>1. CASE g = h
    BY <1>1, <1>2, <1>5, <1>6, <1>8, <2>1, HookFacts
  <2>2. CASE g # h
    BY <1>2, <1>8, <2>2, HookFacts
  <2> QED
    BY <2>1, <2>2
<1>10. \A f \in flights' : f \in flights \/ (Started(f) /\ row'[f.c.hook] # None)
  BY <1>2, <1>8, HookDispatch
<1>11. \A a \in Actors : edit'[a] # None => W!Read(edit'[a]) /\ given'[edit'[a].hook] # None
  <2> SUFFICES ASSUME NEW a \in Actors, edit[a] # None
               PROVE  W!Read(edit[a]) /\ given'[edit[a].hook] # None
    BY <1>2
  <2>1. edit[a] \in W!HookCopy /\ W!Read(edit[a]) /\ given[edit[a].hook] # None
    BY HookFacts
  <2>2. edit[a].hook \in Hooks \ {h}
    BY <1>2, <2>1 DEF W!HookCopy
  <2> QED
    BY <1>8, <2>1, <2>2
<1> QED
  BY <1>1, <1>2, <1>8, <1>9, <1>10, <1>11, HookFacts, HookStep

\* The end of a request that loaded a row: its copy, changed or not, is saved.
LEMMA HookSaved ==
    ASSUME W!HookAssumption, W!HookInv, NEW a \in Actors, edit[a] # None, NEW action,
           NEW x \in W!HookRow, NEW own \in BOOLEAN,
           W!Update([edit[a] EXCEPT !.now = x]), W!Dispatch(row', action),
           edit' = [edit EXCEPT ![a] = None], keys' = keys,
           secrets' = IF own THEN secrets + 1 ELSE secrets,
           given' = IF own THEN [given EXCEPT ![edit[a].hook] = secrets + 1] ELSE given,
           \A h \in Hooks \ {edit[a].hook} : h \in off' <=> h \in off,
           IF own THEN x.secret = W!Plain(secrets + 1) ELSE x.secret = edit[a].now.secret,
           \/ edit[a].hook \in off' <=> ~x.active
           \/ (edit[a].hook \in off' <=> edit[a].hook \in off) /\ x.active = edit[a].now.active
    PROVE  W!HookInv'
<1> DEFINE c == edit[a]
           d == [c EXCEPT !.now = x]
           n == secrets + 1
<1>1. /\ c \in W!HookCopy /\ W!Read(c) /\ given[c.hook] # None /\ secrets \in Nat /\ n \in Nat
      /\ edit \in [Actors -> W!HookCopy \union {None}] /\ given \in [Hooks -> Nat \union {None}]
      /\ None \notin Nat
  BY HookFacts
<1>2. c.hook \in Hooks /\ c.was \in W!HookRow
  BY <1>1 DEF W!HookCopy
<1>3. d.hook = c.hook /\ d.was = c.was /\ d.now = x
  BY <1>1 DEF W!HookCopy
<1>4. W!Update(d)
  OBVIOUS
<1>5. /\ given' \in [Hooks -> Nat \union {None}] /\ given'[c.hook] # None
      /\ given'[c.hook] = IF own THEN n ELSE given[c.hook]
      /\ \A h \in Hooks \ {c.hook} : given'[h] = given[h]
  BY <1>1, <1>2
<1> HIDE DEF d
<1>6. ASSUME row[c.hook] = c.was, c.hook \notin stale
      PROVE  /\ x.secret.plain = given'[c.hook] /\ Len(x.secret.under) <= 1
             /\ c.hook \in off' => ~x.active
  <2>1. /\ c.now.secret.plain = given[c.hook] /\ Len(c.now.secret.under) <= 1
        /\ c.hook \in off => ~c.now.active
    BY <1>1, <1>6, HookCopySound
  <2>2. CASE own
    <3> DEFINE p == x.secret
    <3>1. p.plain = n /\ Len(p.under) = 0
      BY <1>1, <2>2, HookNewSecret
    <3> HIDE DEF p
    <3>2. p.plain = n /\ Len(p.under) <= 1
      BY <3>1
    <3> QED
      BY <1>5, <2>1, <2>2, <3>2 DEF p
  <2>3. CASE ~own
    BY <1>5, <2>1, <2>3
  <2> QED
    BY <2>2, <2>3
<1>7. /\ row' \in [Hooks -> W!HookRow \union {None}]
      /\ \A h \in Hooks : given'[h] = None => row'[h] = None /\ h \notin off'
      /\ \A h \in Hooks : row'[h] # None /\ h \notin stale' =>
           /\ row'[h].secret.plain = given'[h] /\ Len(row'[h].secret.under) = 1
           /\ h \in off' => ~row'[h].active
  <2>1. \A h \in Hooks \ {d.hook} : given'[h] = given[h] /\ (h \in off' <=> h \in off)
    BY <1>3, <1>5
  <2>2. row[d.hook] = d.was /\ d.hook \notin stale =>
          /\ d.now.secret.plain = given'[d.hook] /\ Len(d.now.secret.under) <= 1
          /\ d.hook \in off' => ~d.now.active
    BY <1>3, <1>6
  <2> QED
    BY <1>1, <1>2, <1>3, <1>4, <1>5, <2>1, <2>2, HookUpdated
<1>8. \A f \in flights' : f \in flights \/ (Started(f) /\ row'[f.c.hook] # None)
  BY <1>7, HookDispatch
<1>9. /\ edit' \in [Actors -> W!HookCopy \union {None}] /\ secrets' \in Nat
      /\ \A b \in Actors : edit'[b] # None => W!Read(edit'[b]) /\ given'[edit'[b].hook] # None
  <2>1. edit' \in [Actors -> W!HookCopy \union {None}] /\ secrets' \in Nat
    BY <1>1
  <2>2. ASSUME NEW b \in Actors, edit'[b] # None
        PROVE  W!Read(edit'[b]) /\ given'[edit'[b].hook] # None
    <3>1. edit'[b] = edit[b] /\ edit[b] # None
      BY <1>1, <2>2
    <3>2. edit[b] \in W!HookCopy /\ W!Read(edit[b]) /\ given[edit[b].hook] # None
      BY <3>1, HookFacts
    <3>3. edit[b].hook \in Hooks
      BY <3>2 DEF W!HookCopy
    <3> QED
      BY <1>5, <3>1, <3>2, <3>3
  <2> QED
    BY <2>1, <2>2
<1> QED
  BY <1>5, <1>7, <1>8, <1>9, HookStep

\* The requests that loaded a row.
LEMMA HookEdits ==
    ASSUME W!HookAssumption, W!HookInv, NEW a \in Actors,
           \/ \E active \in BOOLEAN, ev \in W!EventLists, own \in BOOLEAN :
                W!UpdateHook(a, active, ev, own)
           \/ W!Rotate(a)
    PROVE  W!HookInv'
<1> DEFINE n == secrets + 1
<1>1. edit[a] # None
  BY DEF W!UpdateHook, W!Rotate
<1>2. edit[a] \in W!HookCopy /\ n \in Nat
  BY <1>1, HookFacts
<1>3. edit[a].now \in W!HookRow /\ edit[a].now.secret \in W!StoredSecret
  BY <1>2 DEF W!HookCopy, W!HookRow
<1>4. W!Plain(n) \in W!StoredSecret
  BY <1>2, HookNewSecret
<1>5. ASSUME NEW active \in BOOLEAN, NEW ev \in W!EventLists, NEW own \in BOOLEAN,
             W!UpdateHook(a, active, ev, own)
      PROVE  W!HookInv'
  <2> DEFINE p == IF own THEN W!Plain(n) ELSE edit[a].now.secret
             x == [active |-> active, events |-> ev, secret |-> p]
  <2>1. W!Update([edit[a] EXCEPT !.now = x])
    BY <1>5 DEF W!UpdateHook
  <2>2. /\ W!Dispatch(row', "update") /\ edit' = [edit EXCEPT ![a] = None] /\ keys' = keys
        /\ secrets' = IF own THEN n ELSE secrets
        /\ given' = IF own THEN [given EXCEPT ![edit[a].hook] = n] ELSE given
        /\ off' = IF active THEN off \ {edit[a].hook} ELSE off \union {edit[a].hook}
    BY <1>5 DEF W!UpdateHook
  <2>3. p \in W!StoredSecret
    BY <1>3, <1>4
  <2>4. IF own THEN p = W!Plain(n) ELSE p = edit[a].now.secret
    OBVIOUS
  <2> HIDE DEF p
  <2>5. x \in W!HookRow /\ x.secret = p /\ x.active = active
    BY <2>3 DEF W!HookRow
  <2> HIDE DEF x
  <2>6. edit[a].hook \in off' <=> ~x.active
    BY <2>2, <2>5
  <2>7. \A h \in Hooks \ {edit[a].hook} : h \in off' <=> h \in off
    BY <2>2
  <2> QED
    BY <1>1, <2>1, <2>2, <2>4, <2>5, <2>6, <2>7, HookSaved
<1>6. CASE W!Rotate(a)
  <2> DEFINE p == W!Plain(n)
             x == [edit[a].now EXCEPT !.secret = p]
  <2>1. W!Update([edit[a] EXCEPT !.now.secret = p])
    BY <1>6 DEF W!Rotate
  <2>2. /\ W!Dispatch(row', "rotate_secret") /\ edit' = [edit EXCEPT ![a] = None] /\ keys' = keys
        /\ secrets' = n /\ given' = [given EXCEPT ![edit[a].hook] = n] /\ off' = off
    BY <1>6 DEF W!Rotate
  <2>3. [edit[a] EXCEPT !.now.secret = p] = [edit[a] EXCEPT !.now = x]
    OBVIOUS
  <2>4. p = W!Plain(n) /\ p \in W!StoredSecret
    BY <1>4
  <2> HIDE DEF p
  <2>5. x \in W!HookRow /\ x.secret = p /\ x.active = edit[a].now.active
    BY <1>3, <2>4 DEF W!HookRow
  <2> HIDE DEF x
  <2>6. W!Update([edit[a] EXCEPT !.now = x])
    BY <2>1, <2>3
  <2> QED
    BY <1>1, <2>2, <2>4, <2>5, <2>6, HookSaved
<1> QED
  BY <1>5, <1>6

\* A request loads a row, or is refused afterwards.
LEMMA HookLoads ==
    ASSUME W!HookAssumption, W!HookInv, NEW a \in Actors,
           (\E h \in Hooks : W!Load(a, h)) \/ W!GiveUp(a)
    PROVE  W!HookInv'
<1>1. UNCHANGED <<row, keys, flights, secrets, given, off, stale>>
  BY DEF W!Load, W!GiveUp
<1>2. /\ edit' \in [Actors -> W!HookCopy \union {None}]
      /\ \A b \in Actors : edit'[b] # None => W!Read(edit'[b]) /\ given[edit'[b].hook] # None
  <2>1. CASE \E h \in Hooks : W!Load(a, h)
    <3>0. PICK h \in Hooks : W!Load(a, h)
      BY <2>1
    <3> DEFINE c == W!Copy(h, row[h])
    <3>1. row[h] # None /\ edit' = [edit EXCEPT ![a] = c]
      BY <3>0 DEF W!Load
    <3>2. row[h] \in W!HookRow /\ given[h] # None
      BY <3>1, HookFacts
    <3>3. c \in W!HookCopy /\ W!Read(c) /\ c.hook = h
      BY <3>2, HookCopies
    <3> HIDE DEF c
    <3> QED
      BY <3>1, <3>2, <3>3, HookFacts
  <2>2. CASE W!GiveUp(a)
    BY <2>2, HookFacts DEF W!GiveUp
  <2> QED
    BY <2>1, <2>2
<1> QED
  BY <1>1, <1>2, HookFacts, HookStep

\* A hook is deleted.
LEMMA HookDelete ==
    ASSUME W!HookAssumption, W!HookInv, NEW h \in Hooks, W!Delete(h)
    PROVE  W!HookInv'
<1>1. /\ row[h] # None /\ row' = [row EXCEPT ![h] = None] /\ off' = off \union {h}
      /\ W!Dispatch(row', "delete") /\ UNCHANGED <<keys, edit, secrets, given, stale>>
  BY DEF W!Delete
<1>2. row' \in [Hooks -> W!HookRow \union {None}] /\ row'[h] = None /\ given[h] # None
      /\ \A g \in Hooks \ {h} : row'[g] = row[g]
  BY <1>1, HookFacts
<1>3. \A f \in flights' : f \in flights \/ (Started(f) /\ row'[f.c.hook] # None)
  BY <1>1, <1>2, HookDispatch
<1> QED
  BY <1>1, <1>2, <1>3, HookFacts, HookStep

\* A delivery ends.
LEMMA HookFire ==
    ASSUME W!HookAssumption, W!HookInv, NEW f \in flights, W!Fire(f)
    PROVE  W!HookInv'
<1>1. /\ flights' = flights \ {f} /\ UNCHANGED <<keys, edit, secrets, given, off>>
      /\ W!Update(f.c) \/ UNCHANGED <<row, stale>>
  BY DEF W!Fire, W!recordResult
<1>2. f.c \in W!HookCopy /\ W!Read(f.c) /\ f.c.was.active
  BY HookFacts DEF Started
<1>3. f.c.hook \in Hooks /\ f.c.was \in W!HookRow /\ f.c.now \in W!HookRow
  BY <1>2 DEF W!HookCopy
<1>4. CASE UNCHANGED <<row, stale>>
  BY <1>1, <1>4, HookFacts, HookStep
<1>5. CASE W!Update(f.c)
  <2>1. row[f.c.hook] = f.c.was /\ f.c.hook \notin stale =>
          /\ f.c.now.secret.plain = given'[f.c.hook] /\ Len(f.c.now.secret.under) <= 1
          /\ f.c.hook \in off' => ~f.c.now.active
    BY <1>1, <1>2, HookCopySound
  <2>2. /\ row' \in [Hooks -> W!HookRow \union {None}]
        /\ \A h \in Hooks : given'[h] = None => row'[h] = None /\ h \notin off'
        /\ \A h \in Hooks : row'[h] # None /\ h \notin stale' =>
             /\ row'[h].secret.plain = given'[h] /\ Len(row'[h].secret.under) = 1
             /\ h \in off' => ~row'[h].active
    BY <1>1, <1>3, <1>5, <2>1, HookFacts, HookUpdated
  <2> QED
    BY <1>1, <2>2, HookFacts, HookStep
<1> QED
  BY <1>1, <1>4, <1>5

\* The hub starts again, with nothing under way and perhaps other keys.
LEMMA HookRestart ==
    ASSUME W!HookAssumption, W!HookInv, W!Restart
    PROVE  W!HookInv'
<1>1. /\ keys' \in KeyLists /\ flights' = {} /\ edit' = [a \in Actors |-> None]
      /\ UNCHANGED <<row, secrets, given, off, stale>>
  BY DEF W!Restart
<1>2. W!HookStateOK' /\ W!CopiesRead'
  BY <1>1 DEF W!HookInv, W!HookStateOK, W!CopiesRead
<1>3. W!Unborn' /\ W!SecretRecoverable' /\ W!OffStaysOff'
  BY <1>1 DEF W!HookInv, W!Unborn, W!SecretRecoverable, W!OffStaysOff
<1> QED
  BY <1>2, <1>3 DEF W!HookInv

\* Every step keeps the invariant.
LEMMA HookNext ==
    ASSUME W!HookAssumption, W!HookInv, [W!Next]_W!vars
    PROVE  W!HookInv'
<1>1. ASSUME NEW h \in Hooks, W!Create(h) \/ W!Delete(h) \/ W!DeliverTest(h) PROVE W!HookInv'
  <2>1. CASE W!DeliverTest(h)
    <3>1. UNCHANGED <<row, keys, flights, edit, secrets, given, off, stale>>
      BY <2>1 DEF W!DeliverTest
    <3> QED
      BY <3>1, HookFacts, HookStep
  <2> QED
    BY <1>1, <2>1, HookCreate, HookDelete
<1>2. ASSUME NEW a \in Actors, NEW h \in Hooks, W!Load(a, h) PROVE W!HookInv'
  BY <1>2, HookLoads
<1>3. ASSUME NEW a \in Actors, NEW active \in BOOLEAN, NEW ev \in W!EventLists, NEW own \in BOOLEAN,
             W!UpdateHook(a, active, ev, own)
      PROVE  W!HookInv'
  BY <1>3, HookEdits
<1>4. ASSUME NEW a \in Actors, W!Rotate(a) \/ W!GiveUp(a) PROVE W!HookInv'
  <2>1. CASE W!GiveUp(a)
    BY <2>1, HookLoads
  <2> QED
    BY <1>4, <2>1, HookEdits
<1>5. ASSUME NEW f \in flights, W!Fire(f) PROVE W!HookInv'
  BY <1>5, HookFire
<1>6. CASE W!Restart
  BY <1>6, HookRestart
<1>7. CASE UNCHANGED W!vars
  <2>1. UNCHANGED <<row, keys, flights, edit, secrets, given, off, stale>>
    BY <1>7 DEF W!vars
  <2> QED
    BY <2>1, HookFacts, HookStep
<1>8. ASSUME NEW action, W!LogEvent(action) PROVE W!HookInv'
  <2>1. W!Dispatch(row, action) /\ UNCHANGED <<row, keys, edit, secrets, given, off, stale>>
    BY <1>8 DEF W!LogEvent
  <2>2. \A f \in flights' : f \in flights \/ (Started(f) /\ row[f.c.hook] # None)
    BY <2>1, HookFacts, HookDispatch
  <2> QED
    BY <2>1, <2>2, HookFacts, HookStep
<1> QED
  BY <1>1, <1>2, <1>3, <1>4, <1>5, <1>6, <1>7, <1>8 DEF W!Next

\* It holds at the start.
LEMMA HookInit ==
    ASSUME W!HookAssumption, W!Init
    PROVE  W!HookInv
BY DEF W!HookAssumption, W!Init, W!HookInv, W!HookStateOK, W!CopiesRead, W!Unborn,
   W!SecretRecoverable, W!OffStaysOff

\* No delivery or edit loses a secret, wakes a webhook that was turned off, or signs
\* with a secret nobody was given, unless a stale copy was saved, for any number of
\* hooks, requests, deliveries and restarts (encryptSecret, ActiveByEvent, recordResult).
THEOREM WebhooksSound == W!Spec => []WebhooksHonoured
<1> USE HookAssumption
<1>1. W!Init => W!HookInv
  BY HookInit
<1>2. W!HookInv /\ [W!Next]_W!vars => W!HookInv'
  BY HookNext
<1>3. W!HookInv => WebhooksHonoured
  <2> SUFFICES ASSUME W!HookInv PROVE W!SignedWithGiven
    BY DEF WebhooksHonoured, W!HookInv
  <2> SUFFICES ASSUME NEW f \in flights, f.c.was = row[f.c.hook], f.c.hook \notin stale
               PROVE  LET sig == f.c.now.secret IN
                      /\ sig.plain = given[f.c.hook]
                      /\ sig.under = <<>> \/ sig.under[1] \notin W!Elements(keys)
    BY DEF W!SignedWithGiven
  <2>1. f.c \in W!HookCopy /\ W!Read(f.c)
    BY HookFacts DEF Started
  <2>2. f.c.hook \in Hooks /\ f.c.was \in W!HookRow /\ f.c.was.secret \in W!StoredSecret
    BY <2>1 DEF W!HookCopy, W!HookRow
  <2>3. f.c.was.secret.plain = given[f.c.hook] /\ Len(f.c.was.secret.under) = 1
    BY <2>2, HookFacts
  <2> DEFINE v == f.c.was.secret
             d == W!decryptSecret(v)
  <2>4. d.plain = v.plain /\ (d.under = <<>> \/ (d = v /\ v.under[1] \notin W!Elements(keys)))
    BY <2>2, <2>3, HookDecrypts
  <2>5. f.c.now.secret = d
    BY <2>1, HookRewrites
  <2> HIDE DEF d
  <2> QED
    BY <2>3, <2>4, <2>5
<1> QED
  BY <1>1, <1>2, <1>3, PTL DEF W!Spec

-----------------------------------------------------------------------------
(* Secrets: stored values.                                                 *)

\* There is a first key, and it is one of the configured keys.
LEMMA SecretKeys ==
    ASSUME S!SecretAssumption, listed \in KeyLists
    PROVE  listed[1] \in S!Keys /\ listed[1] \in S!Elements(listed)
<1>1. listed \in Seq(S!Keys) /\ listed # <<>>
  BY DEF S!SecretAssumption
<1>2. 1 \in DOMAIN listed /\ listed[1] \in S!Keys
  BY <1>1
<1> QED
  BY <1>2 DEF S!Elements

\* Text that is encrypted keeps its secret and is put under the first key.
LEMMA SecretEncrypts ==
    ASSUME S!SecretAssumption, listed \in KeyLists, NEW v \in S!SecretValue, v.under = <<>>
    PROVE  /\ S!Encrypt(v) \in S!SecretValue /\ S!Encrypt(v) # None
           /\ S!Encrypt(v).plain = v.plain /\ S!Encrypt(v).under = <<listed[1]>>
<1> DEFINE k == listed[1]
           u == <<k>> \o v.under
           e == [v EXCEPT !.under = u, !.ver = 2]
<1>1. k \in S!Keys
  BY SecretKeys
<1>2. u = <<k>>
  <2> HIDE DEF k
  <2>1. <<k>> \in Seq(S!Keys)
    BY <1>1
  <2> DEFINE o == <<k>>
  <2> HIDE DEF o
  <2>2. o \o <<>> = o
    BY <2>1, ConcatEmptySeq DEF o
  <2> QED
    BY <2>2 DEF o
<1>3. S!Encrypt(v) = e
  BY DEF S!Encrypt
<1> HIDE DEF u, k
<1>4. e \in S!SecretValue /\ e.plain = v.plain /\ e.under = u
  BY <1>1, <1>2 DEF S!SecretValue
<1> HIDE DEF e
<1> QED
  BY <1>2, <1>3, <1>4 DEF S!SecretAssumption, k

\* What opens is text of the same secret, and what is under a listed key opens.
LEMMA SecretDecrypts ==
    ASSUME S!SecretAssumption, NEW v \in S!SecretValue, NEW ks
    PROVE  /\ S!DecryptAuto(ks, v) # None =>
                /\ S!DecryptAuto(ks, v) \in S!SecretValue
                /\ S!DecryptAuto(ks, v).plain = v.plain /\ S!DecryptAuto(ks, v).under = <<>>
           /\ S!DecryptAuto(ks, v) # None <=> v.under # <<>> /\ v.under[1] \in S!Elements(ks)
<1> DEFINE u == Tail(v.under)
           d == [v EXCEPT !.under = u]
<1>1. CASE v.under # <<>> /\ v.under[1] \in S!Elements(ks)
  <2>1. PICK k \in S!Keys : v.under = <<k>>
    BY <1>1 DEF S!SecretValue
  <2>2. u = <<>>
    BY <2>1
  <2>3. S!DecryptAuto(ks, v) = d
    BY <1>1 DEF S!DecryptAuto
  <2> HIDE DEF u
  <2>4. d \in S!SecretValue /\ d.plain = v.plain /\ d.under = u
    BY <2>2 DEF S!SecretValue
  <2> HIDE DEF d
  <2> QED
    BY <1>1, <2>2, <2>3, <2>4 DEF S!SecretAssumption
<1>2. CASE ~(v.under # <<>> /\ v.under[1] \in S!Elements(ks))
  BY <1>2 DEF S!DecryptAuto
<1> QED
  BY <1>1, <1>2

\* A value under the first key opens with the configured keys.
LEMMA SecretOpens ==
    ASSUME S!SecretAssumption, listed \in KeyLists, NEW v \in S!SecretValue,
           v.under = <<listed[1]>>
    PROVE  S!DecryptAuto(listed, v) # None
<1> DEFINE k == listed[1]
<1>1. k \in S!Elements(listed)
  BY SecretKeys
<1> HIDE DEF k
<1>2. v.under = <<k>> /\ <<k>> # <<>> /\ <<k>>[1] = k
  BY DEF k
<1> QED
  BY <1>1, <1>2, SecretDecrypts

\* A new secret, as text.
LEMMA SecretNew ==
    ASSUME S!SecretAssumption, NEW n \in Nat
    PROVE  /\ S!PlainValue(n) \in S!SecretValue /\ S!PlainValue(n) # None
           /\ S!PlainValue(n).plain = n /\ S!PlainValue(n).under = <<>>
BY DEF S!PlainValue, S!SecretValue, S!SecretAssumption

-----------------------------------------------------------------------------
(* Secrets: the settings row.                                              *)

\* A row as text: what a request works on.
Opened(r) == \A f \in S!Fields : r[f] # None => r[f].under = <<>>

\* Two rows hold the same secrets.
SameSecret(v, w) == (v = None <=> w = None) /\ (v # None => v.plain = w.plain)

\* A row that opens is text of the same secrets when it was loaded.
LEMMA RowDecrypts ==
    ASSUME S!SecretAssumption, NEW r \in S!SettingsRow, S!Readable(r)
    PROVE  /\ S!decryptSecretFields(r) \in S!SettingsRow
           /\ Opened(S!decryptSecretFields(r))
           /\ \A f \in S!Fields : SameSecret(S!decryptSecretFields(r)[f], r[f])
<1> DEFINE x == S!decryptSecretFields(r)
           D(v) == IF v # None /\ S!IsEncryptedValue(v) THEN S!DecryptAuto(listed, v) ELSE v
<1>1. /\ DOMAIN r = {"mfa", "oidc", "tunnel"} /\ r.mfa \in BOOLEAN
      /\ r.oidc \in S!SecretValue \union {None} /\ r.tunnel \in S!SecretValue \union {None}
  BY DEF S!SettingsRow
<1>2. x = [f \in {"mfa", "oidc", "tunnel"} |-> IF f \in S!Fields THEN D(r[f]) ELSE r[f]]
  BY <1>1 DEF S!decryptSecretFields, S!Fields
<1>3. ASSUME NEW f \in S!Fields
      PROVE  /\ D(r[f]) \in S!SecretValue \union {None} /\ SameSecret(D(r[f]), r[f])
             /\ D(r[f]) # None => D(r[f]).under = <<>>
  <2>1. r[f] \in S!SecretValue \union {None}
    BY <1>1 DEF S!Fields
  <2>2. CASE r[f] = None
    BY <2>2 DEF SameSecret
  <2>3. CASE r[f] # None /\ r[f].under = <<>>
    BY <2>1, <2>3 DEF SameSecret, S!IsEncryptedValue
  <2>4. CASE r[f] # None /\ r[f].under # <<>>
    <3>1. D(r[f]) = S!DecryptAuto(listed, r[f]) /\ S!DecryptAuto(listed, r[f]) # None
      BY <2>4 DEF S!IsEncryptedValue, S!Readable
    <3> QED
      BY <2>1, <2>4, <3>1, SecretDecrypts DEF SameSecret
  <2> QED
    BY <2>2, <2>3, <2>4
<1> HIDE DEF D
<1>4. x.mfa = r.mfa /\ x.oidc = D(r.oidc) /\ x.tunnel = D(r.tunnel)
  BY <1>2 DEF S!Fields
<1>5. x = [mfa |-> r.mfa, oidc |-> D(r.oidc), tunnel |-> D(r.tunnel)]
  BY <1>2 DEF S!Fields
<1> HIDE DEF x
<1>6. x \in S!SettingsRow
  BY <1>1, <1>3, <1>5 DEF S!SettingsRow, S!Fields
<1>7. \A f \in S!Fields : x[f] = D(r[f])
  BY <1>4 DEF S!Fields
<1>8. Opened(x) /\ \A f \in S!Fields : SameSecret(x[f], r[f])
  BY <1>3, <1>7 DEF Opened
<1> QED
  BY <1>6, <1>8 DEF x

\* A row saved opens with the configured keys and holds the same secrets.
LEMMA RowEncrypts ==
    ASSUME S!SecretAssumption, listed \in KeyLists, NEW r \in S!SettingsRow, Opened(r)
    PROVE  /\ S!encryptSecretFields(r) \in S!SettingsRow
           /\ S!Readable(S!encryptSecretFields(r))
           /\ \A f \in S!Fields : SameSecret(S!encryptSecretFields(r)[f], r[f])
<1> DEFINE x == S!encryptSecretFields(r)
           E(v) == IF v # None /\ ~S!IsEncryptedValue(v) THEN S!Encrypt(v) ELSE v
<1>1. /\ DOMAIN r = {"mfa", "oidc", "tunnel"} /\ r.mfa \in BOOLEAN
      /\ r.oidc \in S!SecretValue \union {None} /\ r.tunnel \in S!SecretValue \union {None}
  BY DEF S!SettingsRow
<1>2. x = [f \in {"mfa", "oidc", "tunnel"} |-> IF f \in S!Fields THEN E(r[f]) ELSE r[f]]
  BY <1>1 DEF S!encryptSecretFields, S!Fields
<1>3. ASSUME NEW f \in S!Fields
      PROVE  /\ E(r[f]) \in S!SecretValue \union {None} /\ SameSecret(E(r[f]), r[f])
             /\ E(r[f]) # None => S!DecryptAuto(listed, E(r[f])) # None
  <2>1. r[f] \in S!SecretValue \union {None}
    BY <1>1 DEF S!Fields
  <2>2. CASE r[f] = None
    BY <2>2 DEF SameSecret
  <2>3. CASE r[f] # None
    <3>1. r[f].under = <<>> /\ r[f] \in S!SecretValue
      BY <2>1, <2>3 DEF Opened
    <3>2. E(r[f]) = S!Encrypt(r[f])
      BY <2>3, <3>1 DEF S!IsEncryptedValue
    <3> QED
      BY <2>3, <3>1, <3>2, SecretEncrypts, SecretOpens DEF SameSecret
  <2> QED
    BY <2>2, <2>3
<1> HIDE DEF E
<1>4. x.mfa = r.mfa /\ x.oidc = E(r.oidc) /\ x.tunnel = E(r.tunnel)
  BY <1>2 DEF S!Fields
<1>5. x = [mfa |-> r.mfa, oidc |-> E(r.oidc), tunnel |-> E(r.tunnel)]
  BY <1>2 DEF S!Fields
<1> HIDE DEF x
<1>6. x \in S!SettingsRow
  BY <1>1, <1>3, <1>5 DEF S!SettingsRow, S!Fields
<1>7. \A f \in S!Fields : x[f] = E(r[f])
  BY <1>4 DEF S!Fields
<1>8. S!Readable(x) /\ \A f \in S!Fields : SameSecret(x[f], r[f])
  BY <1>3, <1>7 DEF S!Readable
<1> QED
  BY <1>6, <1>8 DEF x

-----------------------------------------------------------------------------
(* Secrets: what a step may do.                                            *)

\* The secrets of the settings, the providers and the certificate are the ones given.
KeptFields == \A f \in S!Fields \ replaced :
    settings # None /\ settings[f] # None => settings[f].plain = told[f]
KeptProviders == \A p \in Providers \ replaced : dns[p] # None => dns[p].plain = told[p]
KeptTLS == "tls" \notin replaced /\ tls # None => tls.plain = told["tls"]

\* What is known of a row, a copy and a value.
LEMMA SecretFacts ==
    ASSUME S!SecretAssumption, S!SecretsInv
    PROVE  /\ S!SecretStateOK /\ KeptFields /\ KeptProviders /\ KeptTLS
           /\ S!ServingReadsSettings /\ S!CopiesReadable
           /\ None \notin Nat /\ None \notin S!SecretValue /\ None \notin S!SettingsRow
           /\ Providers \cap (S!Fields \union {"tls", "settings"}) = {}
           /\ madeUp + 1 \in Nat
<1>1. S!SecretStateOK /\ S!SecretsKept /\ S!ServingReadsSettings /\ S!CopiesReadable
  BY DEF S!SecretsInv
<1>2. /\ None \notin Nat /\ None \notin S!SecretValue /\ None \notin S!SettingsRow
      /\ Providers \cap (S!Fields \union {"tls", "settings"}) = {}
  BY DEF S!SecretAssumption
<1>3. KeptFields
  BY <1>1, <1>2 DEF S!SecretsKept, S!Stored, S!Places, S!Fields, KeptFields
<1>4. KeptProviders
  BY <1>1, <1>2 DEF S!SecretsKept, S!Stored, S!Places, KeptProviders
<1>5. KeptTLS
  BY <1>1, <1>2 DEF S!SecretsKept, S!Stored, S!Places, KeptTLS
<1>6. madeUp + 1 \in Nat
  BY <1>1 DEF S!SecretStateOK
<1> QED
  BY <1>1, <1>2, <1>3, <1>4, <1>5, <1>6

\* No value is under two keys.
LEMMA SecretUnderOne ==
    ASSUME NEW v \in S!SecretValue
    PROVE  Len(v.under) <= 1
<1>1. CASE v.under = <<>>
  BY <1>1
<1>2. CASE v.under # <<>>
  <2>1. PICK k \in S!Keys : v.under = <<k>>
    BY <1>2 DEF S!SecretValue
  <2> QED
    BY <2>1
<1> QED
  BY <1>1, <1>2

\* A step that leaves the keys alone keeps the invariant when what it stores is sound.
LEMMA SecretStep ==
    ASSUME S!SecretAssumption, S!SecretsInv, listed' = listed,
           S!SecretStateOK', KeptFields', KeptProviders', KeptTLS',
           boot' \notin {"down", "settings", "seed"} => settings' # None /\ S!Readable(settings'),
           \A a \in Admins : loaded'[a] # None =>
                /\ boot' = "up"
                /\ loaded'[a].at = "settings" =>
                      /\ S!Readable(loaded'[a].was)
                      /\ loaded'[a].now = S!decryptSecretFields(loaded'[a].was),
           S!ReencryptLeaves', S!RotatedLast', S!NothingLeftUnderOldKey'
    PROVE  S!SecretsInv'
<1>1. \A r : S!Readable(r) => \A f \in S!Fields : r[f] # None /\ S!IsEncryptedValue(r[f]) =>
                    S!DecryptAuto(listed', r[f]) # None
  BY DEF S!Readable
<1>2. S!ServingReadsSettings'
  BY <1>1 DEF S!ServingReadsSettings, S!Readable, S!IsEncryptedValue, S!DecryptAuto
<1>3. S!CopiesReadable'
  BY <1>1 DEF S!CopiesReadable, S!Readable, S!IsEncryptedValue, S!DecryptAuto, S!decryptSecretFields
<1>4. S!SecretsKept'
  <2> SUFFICES ASSUME NEW x \in S!Places, x \notin replaced', S!Stored(x)' # None
               PROVE  S!Stored(x)'.plain = told'[x] /\ Len(S!Stored(x)'.under) <= 1
    BY DEF S!SecretsKept
  <2>0. Providers \cap (S!Fields \union {"tls", "settings"}) = {}
    BY DEF S!SecretAssumption
  <2>1. CASE x = "tls"
    <3>1. S!Stored(x)' = tls' /\ tls' \in S!SecretValue
      BY <2>1 DEF S!Stored, S!SecretStateOK
    <3> QED
      BY <2>1, <3>1, SecretUnderOne DEF KeptTLS
  <2>2. CASE x \in Providers
    <3>1. S!Stored(x)' = dns'[x] /\ dns'[x] \in S!SecretValue
      BY <2>0, <2>2 DEF S!Stored, S!SecretStateOK
    <3> QED
      BY <2>2, <3>1, SecretUnderOne DEF KeptProviders
  <2>3. CASE x \in S!Fields
    <3>1. S!Stored(x)' = settings'[x] /\ settings' # None
      BY <2>0, <2>3 DEF S!Stored, S!Fields
    <3>2. settings'[x] \in S!SecretValue
      BY <2>3, <3>1 DEF S!SecretStateOK, S!SettingsRow, S!Fields
    <3> QED
      BY <2>3, <3>1, <3>2, SecretUnderOne DEF KeptFields
  <2> QED
    BY <2>1, <2>2, <2>3 DEF S!Places
<1> QED
  BY <1>2, <1>3, <1>4 DEF S!SecretsInv

\* A provider that a re-encryption need not come to.
Settled(p) == p \in replaced' \/ dns'[p] = None \/ dns'[p].under = <<listed[1]>>

\* What is written to providers leaves none behind under another key.
LEMMA ProvidersStep ==
    ASSUME S!SecretAssumption, S!SecretsInv, listed' = listed, rotated' = rotated,
           \A p \in Providers : Settled(p) \/ (dns'[p] = dns[p] /\ p \notin replaced),
           reenc' # None =>
                /\ boot' = "up" /\ reenc # None /\ (reenc.failed => reenc'.failed)
                /\ reenc'.failed \/ \A p \in Providers : [p |-> p, was |-> dns[p]] \in reenc.todo =>
                        Settled(p) \/ [p |-> p, was |-> dns[p]] \in reenc'.todo
    PROVE  S!ReencryptLeaves' /\ S!RotatedLast' /\ S!NothingLeftUnderOldKey'
<1>1. S!ReencryptLeaves /\ S!RotatedLast /\ S!NothingLeftUnderOldKey
  BY DEF S!SecretsInv
<1>2. S!RotatedLast'
  BY <1>1 DEF S!RotatedLast
<1>3. S!NothingLeftUnderOldKey'
  <2> SUFFICES ASSUME rotated' # None, NEW p \in Providers, p \notin replaced', dns'[p] # None
               PROVE  dns'[p].under = <<rotated'>>
    BY DEF S!NothingLeftUnderOldKey
  <2>1. rotated' = listed[1] /\ rotated = listed[1]
    BY <1>1 DEF S!RotatedLast
  <2>2. CASE dns'[p] = dns[p] /\ p \notin replaced
    BY <1>1, <2>1, <2>2 DEF S!NothingLeftUnderOldKey
  <2>3. CASE Settled(p)
    BY <2>1, <2>3 DEF Settled
  <2> QED
    BY <2>2, <2>3
<1>4. S!ReencryptLeaves'
  <2> SUFFICES ASSUME reenc' # None
               PROVE  /\ boot' = "up"
                      /\ reenc'.failed \/ \A p \in Providers \ replaced' : dns'[p] # None =>
                            dns'[p].under = <<listed[1]>> \/ [p |-> p, was |-> dns'[p]] \in reenc'.todo
    BY DEF S!ReencryptLeaves, S!UnderFirst
  <2> SUFFICES ASSUME ~reenc'.failed, NEW p \in Providers, p \notin replaced', dns'[p] # None,
                      dns'[p].under # <<listed[1]>>
               PROVE  [p |-> p, was |-> dns'[p]] \in reenc'.todo
    OBVIOUS
  <2>1. ~Settled(p) /\ dns'[p] = dns[p] /\ p \notin replaced
    BY DEF Settled
  <2>2. [p |-> p, was |-> dns[p]] \in reenc.todo
    BY <1>1, <2>1 DEF S!ReencryptLeaves, S!UnderFirst
  <2> QED
    BY <2>1, <2>2
<1> QED
  BY <1>2, <1>3, <1>4

\* The save of a row that was loaded as was, opened, and changed to r in its own fields.
LEMMA RowSaved ==
    ASSUME S!SecretAssumption, S!SecretsInv, NEW was \in S!SettingsRow, S!Readable(was),
           NEW r \in S!SettingsRow, Opened(r), NEW own \in SUBSET S!Fields,
           settings \in S!SettingsRow, S!Upsert(was, r, own),
           \A f \in own : r[f] # None => r[f].plain = told'[f],
           \A f \in S!Fields \ own : r[f] = S!decryptSecretFields(was)[f] /\ told'[f] = told[f]
    PROVE  /\ settings' \in S!SettingsRow /\ settings' # None /\ S!Readable(settings')
           /\ KeptFields'
           /\ "tls" \in replaced' <=> "tls" \in replaced
           /\ \A p \in Providers : p \in replaced' <=> p \in replaced
<1> DEFINE e == S!encryptSecretFields(r)
           d == S!decryptSecretFields(was)
<1>1. /\ settings' = e
      /\ replaced' = (replaced \ own) \union
            {f \in S!Fields \ own : settings # None /\ settings[f] # was[f]}
  BY DEF S!Upsert
<1>2. S!SecretStateOK /\ KeptFields /\ None \notin S!SettingsRow
      /\ Providers \cap (S!Fields \union {"tls", "settings"}) = {}
  BY SecretFacts
<1>3. e \in S!SettingsRow /\ S!Readable(e) /\ \A f \in S!Fields : SameSecret(e[f], r[f])
  BY <1>2, RowEncrypts DEF S!SecretStateOK
<1>4. \A f \in S!Fields : SameSecret(d[f], was[f])
  BY RowDecrypts
<1> HIDE DEF e, d
<1>5. ASSUME NEW f \in S!Fields, f \notin replaced', e[f] # None
      PROVE  e[f].plain = told'[f]
  <2>1. r[f] # None /\ e[f].plain = r[f].plain
    BY <1>3, <1>5 DEF SameSecret
  <2>2. CASE f \in own
    BY <2>1, <2>2
  <2>3. CASE f \notin own
    <3>1. r[f] = d[f] /\ told'[f] = told[f] /\ f \notin replaced /\ settings[f] = was[f]
      BY <1>1, <1>2, <1>5, <2>3 DEF d
    <3>2. was[f] # None /\ d[f].plain = was[f].plain
      BY <1>4, <2>1, <3>1 DEF SameSecret
    <3> QED
      BY <1>2, <2>1, <3>1, <3>2 DEF KeptFields
  <2> QED
    BY <2>2, <2>3
<1>6. KeptFields'
  BY <1>1, <1>5 DEF KeptFields
<1>7. /\ "tls" \in replaced' <=> "tls" \in replaced
      /\ \A p \in Providers : p \in replaced' <=> p \in replaced
  BY <1>1, <1>2 DEF S!Fields
<1> QED
  BY <1>1, <1>2, <1>3, <1>6, <1>7

\* The same, for a step that ends requests or starts them but not a re-encryption.
LEMMA SecretWrites ==
    ASSUME S!SecretAssumption, S!SecretsInv, UNCHANGED <<listed, mfaEnv, reenc, rotated>>,
           boot' = boot \/ boot # "up",
           loaded' \in [Admins -> S!SettingsCopy \union S!ProviderCopy \union {None}],
           \A a \in Admins : loaded'[a] # None => loaded'[a] = loaded[a] \/
                /\ boot' = "up"
                /\ loaded'[a].at = "settings" =>
                      /\ S!Readable(loaded'[a].was)
                      /\ loaded'[a].now = S!decryptSecretFields(loaded'[a].was),
           settings' \in S!SettingsRow \union {None},
           dns' \in [Providers -> S!SecretValue \union {None}],
           tls' \in S!SecretValue \union {None}, madeUp' \in Nat,
           told' \in [S!Places -> Nat \union {None}],
           KeptFields', KeptProviders', KeptTLS',
           boot' \notin {"down", "settings", "seed"} => settings' # None /\ S!Readable(settings'),
           \A p \in Providers : Settled(p) \/ (dns'[p] = dns[p] /\ p \notin replaced)
    PROVE  S!SecretsInv'
<1>1. S!SecretStateOK /\ S!CopiesReadable /\ S!ReencryptLeaves
  BY DEF S!SecretsInv
<1>2. S!SecretStateOK'
  BY <1>1 DEF S!SecretStateOK
<1>3. S!ReencryptLeaves' /\ S!RotatedLast' /\ S!NothingLeftUnderOldKey'
  <2>1. reenc' # None => boot' = "up" /\ reenc # None
    BY <1>1 DEF S!ReencryptLeaves
  <2> QED
    BY <2>1, ProvidersStep
<1>4. \A a \in Admins : loaded'[a] # None =>
        /\ boot' = "up"
        /\ loaded'[a].at = "settings" =>
              /\ S!Readable(loaded'[a].was)
              /\ loaded'[a].now = S!decryptSecretFields(loaded'[a].was)
  BY <1>1 DEF S!CopiesReadable
<1> QED
  BY <1>2, <1>3, <1>4, SecretStep

\* The hub is launched, with any of the key lists.
LEMMA SecretLaunch ==
    ASSUME S!SecretAssumption, S!SecretsInv, S!Launch
    PROVE  S!SecretsInv'
<1>1. /\ boot = "down" /\ boot' = "settings" /\ listed' \in KeyLists /\ mfaEnv' \in BOOLEAN
      /\ rotated' = None /\ UNCHANGED <<settings, dns, tls, loaded, reenc, madeUp, told, replaced>>
  BY DEF S!Launch, S!store
<1>2. S!SecretStateOK /\ S!CopiesReadable /\ S!ReencryptLeaves /\ S!SecretsKept
  BY DEF S!SecretsInv
<1>3. reenc = None /\ \A a \in Admins : loaded[a] = None
  BY <1>1, <1>2 DEF S!CopiesReadable, S!ReencryptLeaves
<1>4. S!SecretStateOK'
  BY <1>1, <1>2 DEF S!SecretStateOK
<1>5. S!SecretsKept'
  BY <1>1, <1>2 DEF S!SecretsKept, S!Stored
<1>6. S!CopiesReadable' /\ S!ReencryptLeaves' /\ S!RotatedLast' /\ S!ServingReadsSettings'
      /\ S!NothingLeftUnderOldKey'
  BY <1>1, <1>3 DEF S!CopiesReadable, S!ReencryptLeaves, S!RotatedLast, S!ServingReadsSettings,
     S!NothingLeftUnderOldKey
<1> QED
  BY <1>4, <1>5, <1>6 DEF S!SecretsInv

\* The process ends.
LEMMA SecretDown ==
    ASSUME S!SecretAssumption, S!SecretsInv, S!Down
    PROVE  S!SecretsInv'
<1>1. /\ boot' = "down" /\ loaded' = [a \in Admins |-> None] /\ reenc' = None
      /\ UNCHANGED <<listed, mfaEnv, settings, dns, tls, madeUp, told, replaced, rotated>>
  BY DEF S!Down, S!store, S!history
<1>2. /\ S!SecretStateOK /\ S!SecretsKept /\ S!RotatedLast /\ S!NothingLeftUnderOldKey
  BY DEF S!SecretsInv
<1>3. S!SecretStateOK'
  BY <1>1, <1>2 DEF S!SecretStateOK
<1>4. S!SecretsKept' /\ S!RotatedLast' /\ S!NothingLeftUnderOldKey'
  BY <1>1, <1>2 DEF S!SecretsKept, S!Stored, S!RotatedLast, S!NothingLeftUnderOldKey
<1>5. S!CopiesReadable' /\ S!ReencryptLeaves' /\ S!ServingReadsSettings'
  BY <1>1 DEF S!CopiesReadable, S!ReencryptLeaves, S!ServingReadsSettings
<1> QED
  BY <1>3, <1>4, <1>5 DEF S!SecretsInv

\* Text in the settings of an earlier version is encrypted at start-up.
LEMMA SecretMigrate ==
    ASSUME S!SecretAssumption, S!SecretsInv, S!MigrateSettings
    PROVE  S!SecretsInv'
<1> DEFINE v == settings.oidc
           e == S!Encrypt(v)
           x == [settings EXCEPT !.oidc = e]
           old == settings # None /\ v # None /\ v.under = <<>>
<1>1. /\ boot = "settings" /\ boot' = "seed" /\ settings' = IF old THEN x ELSE settings
      /\ UNCHANGED <<listed, mfaEnv, dns, tls, loaded, reenc, madeUp, told, replaced, rotated>>
  BY DEF S!MigrateSettings, S!history, S!IsEncryptedValue
<1>2. S!SecretStateOK /\ KeptFields /\ KeptProviders /\ KeptTLS
  BY SecretFacts
<1>3. settings' \in S!SettingsRow \union {None} /\ KeptFields'
  <2>1. CASE old
    <3>1. settings \in S!SettingsRow /\ v \in S!SecretValue
      BY <1>2, <2>1 DEF S!SecretStateOK, S!SettingsRow
    <3>2. e \in S!SecretValue /\ e.plain = v.plain
      BY <1>2, <2>1, <3>1, SecretEncrypts DEF S!SecretStateOK
    <3> HIDE DEF e
    <3>3. x \in S!SettingsRow /\ x.oidc = e /\ x.tunnel = settings.tunnel
      BY <3>1, <3>2 DEF S!SettingsRow
    <3> HIDE DEF x
    <3>4. KeptFields'
      BY <1>1, <1>2, <2>1, <3>2, <3>3 DEF KeptFields, S!Fields
    <3> QED
      BY <1>1, <2>1, <3>3, <3>4
  <2>2. CASE ~old
    <3>1. settings' = settings
      BY <1>1, <2>2
    <3> QED
      BY <1>1, <1>2, <3>1 DEF KeptFields, S!SecretStateOK
  <2> QED
    BY <2>1, <2>2
<1>4. KeptProviders' /\ KeptTLS'
  BY <1>1, <1>2 DEF KeptProviders, KeptTLS
<1>5. \A p \in Providers : Settled(p) \/ (dns'[p] = dns[p] /\ p \notin replaced)
  BY <1>1 DEF Settled
<1> HIDE DEF old, x
<1> QED
  BY <1>1, <1>2, <1>3, <1>4, <1>5, SecretWrites DEF S!SecretStateOK

\* A row made from the environment.
LEMMA SecretSeeds ==
    ASSUME S!SecretAssumption, S!SecretsInv, S!SeedRow, UNCHANGED <<listed, replaced>>
    PROVE  /\ settings = None /\ settings' \in S!SettingsRow /\ settings' # None
           /\ S!Readable(settings') /\ KeptFields' /\ madeUp' \in Nat
           /\ told' \in [S!Places -> Nat \union {None}]
           /\ told'["tls"] = told["tls"] /\ \A p \in Providers : told'[p] = told[p]
<1> DEFINE n == madeUp + 1
           v == S!PlainValue(n)
           r == [mfa |-> mfaEnv, oidc |-> v, tunnel |-> None]
           e == S!encryptSecretFields(r)
<1>1. settings = None /\ settings' = e /\ madeUp' = n /\ told' = [told EXCEPT !["oidc"] = n]
  BY DEF S!SeedRow, S!Get
<1>2. S!SecretStateOK /\ n \in Nat /\ None \notin S!SettingsRow /\ None \notin Nat
      /\ Providers \cap (S!Fields \union {"tls", "settings"}) = {}
  BY SecretFacts
<1> HIDE DEF n
<1>3. v \in S!SecretValue /\ v # None /\ v.plain = n /\ v.under = <<>>
  BY <1>2, SecretNew
<1> HIDE DEF v
<1>4. r \in S!SettingsRow /\ r.oidc = v /\ r.tunnel = None
  BY <1>2, <1>3 DEF S!SettingsRow, S!SecretStateOK
<1> HIDE DEF r
<1>5. Opened(r)
  BY <1>3, <1>4 DEF Opened, S!Fields
<1>6. e \in S!SettingsRow /\ S!Readable(e) /\ \A f \in S!Fields : SameSecret(e[f], r[f])
  BY <1>2, <1>4, <1>5, RowEncrypts DEF S!SecretStateOK
<1>7. SameSecret(e.oidc, v) /\ e.tunnel = None
  BY <1>4, <1>6 DEF S!Fields, SameSecret
<1> HIDE DEF e
<1>8. /\ told' \in [S!Places -> Nat \union {None}] /\ told'["oidc"] = n
      /\ told'["tls"] = told["tls"] /\ \A p \in Providers : told'[p] = told[p]
  BY <1>1, <1>2 DEF S!SecretStateOK, S!Places, S!Fields
<1>9. KeptFields'
  BY <1>1, <1>3, <1>7, <1>8 DEF KeptFields, S!Fields, SameSecret
<1> QED
  BY <1>1, <1>2, <1>6, <1>8, <1>9

\* Start-up seeds the settings, reads them or ends.
LEMMA SecretSeedDefaults ==
    ASSUME S!SecretAssumption, S!SecretsInv, S!SeedDefaults
    PROVE  S!SecretsInv'
<1>1. /\ boot = "seed" /\ UNCHANGED <<listed, mfaEnv, dns, tls, loaded, reenc, replaced, rotated>>
  BY DEF S!SeedDefaults
<1>2. S!SecretStateOK /\ KeptFields /\ KeptProviders /\ KeptTLS
  BY SecretFacts
<1>3. \A p \in Providers : Settled(p) \/ (dns'[p] = dns[p] /\ p \notin replaced)
  BY <1>1 DEF Settled
<1>4. CASE S!SeedRow
  <2>1. /\ settings = None /\ settings' \in S!SettingsRow /\ settings' # None
        /\ S!Readable(settings') /\ KeptFields' /\ madeUp' \in Nat
        /\ told' \in [S!Places -> Nat \union {None}]
        /\ told'["tls"] = told["tls"] /\ \A p \in Providers : told'[p] = told[p]
    BY <1>1, <1>4, SecretSeeds
  <2>2. KeptProviders' /\ KeptTLS'
    BY <1>1, <1>2, <2>1 DEF KeptProviders, KeptTLS
  <2> QED
    BY <1>1, <1>2, <1>3, <2>1, <2>2, SecretWrites DEF S!SecretStateOK
<1>5. CASE /\ UNCHANGED <<settings, madeUp, told>>
           /\ boot' = "down" \/ S!Get = "row"
  <2>1. KeptFields' /\ KeptProviders' /\ KeptTLS'
    BY <1>1, <1>2, <1>5 DEF KeptFields, KeptProviders, KeptTLS
  <2>2. boot' \notin {"down", "settings", "seed"} => settings' # None /\ S!Readable(settings')
    BY <1>5 DEF S!Get
  <2> QED
    BY <1>1, <1>2, <1>3, <1>5, <2>1, <2>2, SecretWrites DEF S!SecretStateOK
<1> QED
  BY <1>4, <1>5 DEF S!SeedDefaults

\* A new provider, at start-up or by a request.
LEMMA SecretNewProvider ==
    ASSUME S!SecretAssumption, S!SecretsInv, NEW p \in Providers, S!NewProvider(p),
           boot' = boot \/ boot # "up",
           boot' \notin {"down", "settings", "seed"} => boot \notin {"down", "settings", "seed"},
           UNCHANGED <<listed, mfaEnv, settings, tls, loaded, reenc, replaced, rotated>>
    PROVE  S!SecretsInv'
<1> DEFINE n == madeUp + 1
           v == S!PlainValue(n)
           e == S!Encrypt(v)
<1>1. madeUp' = n /\ told' = [told EXCEPT ![p] = n] /\ dns' = [dns EXCEPT ![p] = e]
  BY DEF S!NewProvider
<1>2. /\ S!SecretStateOK /\ KeptFields /\ KeptProviders /\ KeptTLS /\ S!ServingReadsSettings
      /\ n \in Nat /\ Providers \cap (S!Fields \union {"tls", "settings"}) = {}
  BY SecretFacts
<1> HIDE DEF n
<1>3. v \in S!SecretValue /\ v.plain = n /\ v.under = <<>>
  BY <1>2, SecretNew
<1> HIDE DEF v
<1>4. e \in S!SecretValue /\ e.plain = n /\ e.under = <<listed[1]>>
  BY <1>2, <1>3, SecretEncrypts DEF S!SecretStateOK
<1> HIDE DEF e
<1>5. /\ told' \in [S!Places -> Nat \union {None}] /\ told'[p] = n
      /\ \A x \in S!Places \ {p} : told'[x] = told[x]
      /\ dns' \in [Providers -> S!SecretValue \union {None}] /\ dns'[p] = e
      /\ \A q \in Providers \ {p} : dns'[q] = dns[q]
  BY <1>1, <1>2, <1>4 DEF S!SecretStateOK, S!Places
<1>6. KeptFields' /\ KeptTLS'
  BY <1>2, <1>5 DEF KeptFields, KeptTLS, S!Places
<1>7. KeptProviders'
  BY <1>2, <1>4, <1>5 DEF KeptProviders, S!Places
<1>8. \A q \in Providers : Settled(q) \/ (dns'[q] = dns[q] /\ q \notin replaced)
  BY <1>4, <1>5 DEF Settled
<1>9. boot' \notin {"down", "settings", "seed"} => settings' # None /\ S!Readable(settings')
  BY <1>2 DEF S!ServingReadsSettings
<1> QED
  BY <1>1, <1>2, <1>5, <1>6, <1>7, <1>8, <1>9, SecretWrites DEF S!SecretStateOK

\* A new private key, or text of an earlier version encrypted at start-up.
LEMMA SecretTLS ==
    ASSUME S!SecretAssumption, S!SecretsInv, S!MigrateTLS \/ S!StorePrivateKey
    PROVE  S!SecretsInv'
<1> DEFINE n == madeUp + 1
           v == IF S!MigrateTLS THEN tls ELSE S!PlainValue(n)
           e == S!Encrypt(v)
           same == S!MigrateTLS /\ (tls = None \/ tls.under # <<>>)
<1>1. /\ UNCHANGED <<listed, mfaEnv, settings, dns, loaded, reenc, replaced, rotated>>
      /\ boot' = boot \/ boot # "up"
      /\ boot \notin {"down", "settings", "seed"}
  BY DEF S!MigrateTLS, S!StorePrivateKey, S!history
<1>2. /\ S!SecretStateOK /\ KeptFields /\ KeptProviders /\ KeptTLS /\ S!ServingReadsSettings
      /\ n \in Nat /\ Providers \cap (S!Fields \union {"tls", "settings"}) = {}
      /\ None \notin Nat
  BY SecretFacts
<1>3. /\ madeUp' \in Nat /\ told' \in [S!Places -> Nat \union {None}]
      /\ \A x \in S!Places \ {"tls"} : told'[x] = told[x]
      /\ S!MigrateTLS => told'["tls"] = told["tls"]
      /\ ~S!MigrateTLS => told'["tls"] = n
  BY <1>2 DEF S!MigrateTLS, S!StorePrivateKey, S!SecretStateOK, S!Places, S!history
<1>4. tls' = IF same THEN tls ELSE e
  BY DEF S!MigrateTLS, S!StorePrivateKey, S!IsEncryptedValue
<1>5. ~same => /\ v \in S!SecretValue /\ v.under = <<>>
               /\ v.plain = IF S!MigrateTLS THEN tls.plain ELSE n
  BY <1>2, SecretNew DEF S!SecretStateOK
<1>6. ~same => e \in S!SecretValue /\ e.plain = v.plain
  <2> HIDE DEF v
  <2> QED
    BY <1>2, <1>5, SecretEncrypts DEF S!SecretStateOK
<1>7. KeptTLS' /\ tls' \in S!SecretValue \union {None}
  <2>1. CASE same
    BY <1>1, <1>2, <1>3, <1>4, <2>1 DEF KeptTLS, S!SecretStateOK
  <2>2. CASE ~same /\ S!MigrateTLS
    <3>1. tls # None /\ tls'.plain = tls.plain /\ tls' \in S!SecretValue
      BY <1>4, <1>5, <1>6, <2>2
    <3> QED
      BY <1>1, <1>2, <1>3, <2>2, <3>1 DEF KeptTLS
  <2>3. CASE ~S!MigrateTLS
    <3>1. tls'.plain = n /\ tls' \in S!SecretValue
      BY <1>4, <1>5, <1>6, <2>3
    <3> QED
      BY <1>3, <2>3, <3>1 DEF KeptTLS
  <2> QED
    BY <2>1, <2>2, <2>3
<1>8. KeptFields' /\ KeptProviders'
  BY <1>1, <1>2, <1>3 DEF KeptFields, KeptProviders, S!Places, S!Fields
<1>9. /\ \A q \in Providers : Settled(q) \/ (dns'[q] = dns[q] /\ q \notin replaced)
      /\ boot' \notin {"down", "settings", "seed"} => settings' # None /\ S!Readable(settings')
  BY <1>1, <1>2 DEF Settled, S!ServingReadsSettings
<1> QED
  BY <1>1, <1>2, <1>3, <1>7, <1>8, <1>9, SecretWrites DEF S!SecretStateOK

\* Providers of the first format are rewritten at the end of start-up.
LEMMA SecretMigrateProviders ==
    ASSUME S!SecretAssumption, S!SecretsInv, S!MigrateDNSProviderSecrets
    PROVE  S!SecretsInv'
<1>1. /\ boot = "dns" /\ dns' = [p \in Providers |-> S!MigratedProvider(dns[p])]
      /\ UNCHANGED <<listed, mfaEnv, settings, tls, loaded, reenc, madeUp, told, replaced, rotated>>
  BY DEF S!MigrateDNSProviderSecrets, S!history
<1>2. /\ S!SecretStateOK /\ KeptFields /\ KeptProviders /\ KeptTLS /\ S!ServingReadsSettings
      /\ None \notin S!SecretValue
  BY SecretFacts
<1>3. ASSUME NEW p \in Providers
      PROVE  /\ dns'[p] \in S!SecretValue \union {None} /\ SameSecret(dns'[p], dns[p])
             /\ dns'[p] = dns[p] \/ dns'[p].under = <<listed[1]>>
  <2> DEFINE v == dns[p]
             d == S!DecryptAuto(listed, v)
  <2>1. dns'[p] = IF v = None \/ v.ver = 2 \/ d = None THEN v ELSE S!Encrypt(d)
    BY <1>1 DEF S!MigratedProvider
  <2>2. v \in S!SecretValue \union {None}
    BY <1>2 DEF S!SecretStateOK
  <2>3. CASE v = None \/ v.ver = 2 \/ d = None
    BY <2>1, <2>2, <2>3 DEF SameSecret
  <2>4. CASE ~(v = None \/ v.ver = 2 \/ d = None)
    <3>1. d \in S!SecretValue /\ d.plain = v.plain /\ d.under = <<>>
      BY <2>2, <2>4, SecretDecrypts
    <3> HIDE DEF d
    <3>2. S!Encrypt(d) \in S!SecretValue /\ S!Encrypt(d).plain = d.plain
          /\ S!Encrypt(d).under = <<listed[1]>>
      BY <1>2, <3>1, SecretEncrypts DEF S!SecretStateOK
    <3> QED
      BY <1>2, <2>1, <2>4, <3>1, <3>2 DEF SameSecret
  <2> QED
    BY <2>3, <2>4
<1>4. dns' \in [Providers -> S!SecretValue \union {None}]
  BY <1>1, <1>3
<1>5. KeptFields' /\ KeptProviders' /\ KeptTLS'
  BY <1>1, <1>2, <1>3 DEF KeptFields, KeptProviders, KeptTLS, SameSecret
<1>6. /\ \A q \in Providers : Settled(q) \/ (dns'[q] = dns[q] /\ q \notin replaced)
      /\ settings' # None /\ S!Readable(settings')
  BY <1>1, <1>2, <1>3 DEF Settled, S!ServingReadsSettings
<1> QED
  BY <1>1, <1>2, <1>4, <1>5, <1>6, SecretWrites DEF S!SecretStateOK

\* A row saved by a request or a process of its own.
LEMMA SecretRowSaved ==
    ASSUME S!SecretAssumption, S!SecretsInv, NEW was \in S!SettingsRow, S!Readable(was),
           NEW r \in S!SettingsRow, Opened(r), NEW own \in SUBSET S!Fields,
           settings \in S!SettingsRow, S!Upsert(was, r, own),
           \A f \in own : r[f] # None => r[f].plain = told'[f],
           \A f \in S!Fields \ own : r[f] = S!decryptSecretFields(was)[f],
           \A x \in S!Places \ own : told'[x] = told[x],
           told' \in [S!Places -> Nat \union {None}], madeUp' \in Nat,
           boot' = boot \/ boot # "up",
           loaded' \in [Admins -> S!SettingsCopy \union S!ProviderCopy \union {None}],
           \A a \in Admins : loaded'[a] # None => loaded'[a] = loaded[a],
           UNCHANGED <<listed, mfaEnv, dns, tls, reenc, rotated>>
    PROVE  S!SecretsInv'
<1>1. /\ S!SecretStateOK /\ KeptProviders /\ KeptTLS
      /\ Providers \cap (S!Fields \union {"tls", "settings"}) = {}
  BY SecretFacts
<1>2. /\ settings' \in S!SettingsRow /\ settings' # None /\ S!Readable(settings')
      /\ KeptFields'
      /\ "tls" \in replaced' <=> "tls" \in replaced
      /\ \A p \in Providers : p \in replaced' <=> p \in replaced
  BY RowSaved DEF S!Places
<1>3. KeptProviders' /\ KeptTLS'
  BY <1>1, <1>2 DEF KeptProviders, KeptTLS, S!Places, S!Fields
<1>4. \A p \in Providers : Settled(p) \/ (dns'[p] = dns[p] /\ p \notin replaced)
  BY <1>2 DEF Settled
<1> QED
  BY <1>1, <1>2, <1>3, <1>4, SecretWrites DEF S!SecretStateOK

\* A key for the tunnel is made at start-up.
LEMMA SecretServerKey ==
    ASSUME S!SecretAssumption, S!SecretsInv, S!EnsureServerKey
    PROVE  S!SecretsInv'
<1> DEFINE n == madeUp + 1
           v == S!PlainValue(n)
           d == S!decryptSecretFields(settings)
           r == [d EXCEPT !.tunnel = v]
<1>1. /\ boot = "key" /\ UNCHANGED <<listed, mfaEnv, dns, tls, loaded, reenc, rotated>>
  BY DEF S!EnsureServerKey
<1>2. /\ S!SecretStateOK /\ KeptFields /\ KeptProviders /\ KeptTLS /\ S!ServingReadsSettings
      /\ n \in Nat
  BY SecretFacts
<1>3. settings \in S!SettingsRow /\ S!Readable(settings)
  BY <1>1, <1>2 DEF S!ServingReadsSettings, S!SecretStateOK
<1>4. CASE UNCHANGED <<settings, madeUp, told, replaced>>
  <2>1. KeptFields' /\ KeptProviders' /\ KeptTLS'
    BY <1>1, <1>2, <1>4 DEF KeptFields, KeptProviders, KeptTLS
  <2>2. \A p \in Providers : Settled(p) \/ (dns'[p] = dns[p] /\ p \notin replaced)
    BY <1>1, <1>4 DEF Settled
  <2> QED
    BY <1>1, <1>2, <1>3, <1>4, <2>1, <2>2, SecretWrites DEF S!SecretStateOK, S!ServingReadsSettings
<1>5. CASE /\ madeUp' = n /\ told' = [told EXCEPT !["tunnel"] = n]
           /\ S!Upsert(settings, r, {"tunnel"})
  <2>1. v \in S!SecretValue /\ v.plain = n /\ v.under = <<>>
    BY <1>2, SecretNew
  <2>2. d \in S!SettingsRow /\ Opened(d)
    BY <1>3, RowDecrypts
  <2> HIDE DEF v, n
  <2>3. r \in S!SettingsRow /\ r.tunnel = v /\ r.oidc = d.oidc
    <3> HIDE DEF d
    <3> QED
      BY <2>1, <2>2 DEF S!SettingsRow
  <2>4. Opened(r)
    <3> HIDE DEF d, r
    <3> QED
      BY <2>1, <2>2, <2>3 DEF Opened, S!Fields
  <2>5. /\ told' \in [S!Places -> Nat \union {None}] /\ told'["tunnel"] = n
        /\ \A x \in S!Places \ {"tunnel"} : told'[x] = told[x]
    BY <1>2, <1>5 DEF S!SecretStateOK, S!Places, S!Fields
  <2>6. {"tunnel"} \in SUBSET S!Fields
    BY DEF S!Fields
  <2>7. \A f \in S!Fields \ {"tunnel"} : r[f] = d[f]
    <3> HIDE DEF d, r
    <3> QED
      BY <2>3 DEF S!Fields
  <2>8. \A f \in {"tunnel"} : r[f] # None => r[f].plain = told'[f]
    <3> HIDE DEF r
    <3> QED
      BY <2>1, <2>3, <2>5
  <2> HIDE DEF r
  <2> QED
    BY <1>1, <1>2, <1>3, <1>5, <2>3, <2>4, <2>5, <2>6, <2>7, <2>8, SecretRowSaved
       DEF S!SecretStateOK
<1> QED
  BY <1>4, <1>5 DEF S!EnsureServerKey

\* Drift from the environment is written, or a row is seeded, by a process of its own.
LEMMA SecretSync ==
    ASSUME S!SecretAssumption, S!SecretsInv, S!SettingsSync
    PROVE  S!SecretsInv'
<1> DEFINE d == S!decryptSecretFields(settings)
           r == [d EXCEPT !.mfa = mfaEnv]
<1>1. UNCHANGED <<boot, listed, mfaEnv, dns, tls, loaded, reenc, rotated>>
  BY DEF S!SettingsSync
<1>2. S!SecretStateOK /\ KeptFields /\ KeptProviders /\ KeptTLS
  BY SecretFacts
<1>3. CASE S!SeedRow /\ UNCHANGED replaced
  <2>1. /\ settings' \in S!SettingsRow /\ settings' # None
        /\ S!Readable(settings') /\ KeptFields' /\ madeUp' \in Nat
        /\ told' \in [S!Places -> Nat \union {None}]
        /\ told'["tls"] = told["tls"] /\ \A p \in Providers : told'[p] = told[p]
    BY <1>1, <1>3, SecretSeeds
  <2>2. KeptProviders' /\ KeptTLS'
    BY <1>1, <1>2, <1>3, <2>1 DEF KeptProviders, KeptTLS
  <2>3. \A p \in Providers : Settled(p) \/ (dns'[p] = dns[p] /\ p \notin replaced)
    BY <1>1, <1>3 DEF Settled
  <2> QED
    BY <1>1, <1>2, <2>1, <2>2, <2>3, SecretWrites DEF S!SecretStateOK
<1>4. CASE /\ S!Get = "row" /\ S!Upsert(settings, r, {}) /\ UNCHANGED <<madeUp, told>>
  <2>1. settings \in S!SettingsRow /\ S!Readable(settings)
    BY <1>2, <1>4 DEF S!Get, S!SecretStateOK
  <2>2. d \in S!SettingsRow /\ Opened(d)
    BY <2>1, RowDecrypts
  <2>3. r \in S!SettingsRow /\ r.tunnel = d.tunnel /\ r.oidc = d.oidc
    <3> HIDE DEF d
    <3> QED
      BY <1>2, <2>2 DEF S!SettingsRow, S!SecretStateOK
  <2>4. Opened(r) /\ \A f \in S!Fields : r[f] = d[f]
    <3> HIDE DEF d, r
    <3> QED
      BY <2>2, <2>3 DEF Opened, S!Fields
  <2> HIDE DEF r
  <2> QED
    BY <1>1, <1>2, <1>4, <2>1, <2>3, <2>4, SecretRowSaved DEF S!SecretStateOK
<1> QED
  BY <1>3, <1>4 DEF S!SettingsSync

\* The end of a request that loaded the settings.
LEMMA SecretSaveSettings ==
    ASSUME S!SecretAssumption, S!SecretsInv, NEW a \in Admins, NEW f \in S!Fields,
           NEW own \in BOOLEAN, NEW mfa \in BOOLEAN, S!SaveSettings(a, f, own, mfa)
    PROVE  S!SecretsInv'
<1> DEFINE n == madeUp + 1
           c == loaded[a]
           v == IF own THEN S!PlainValue(n) ELSE c.now[f]
           r == [c.now EXCEPT !.mfa = mfa, ![f] = v]
           mine == IF own THEN {f} ELSE {}
<1>1. /\ c # None /\ c.at = "settings" /\ loaded' = [loaded EXCEPT ![a] = None]
      /\ madeUp' = IF own THEN n ELSE madeUp
      /\ told' = IF own THEN [told EXCEPT ![f] = n] ELSE told
      /\ UNCHANGED <<boot, listed, mfaEnv, dns, tls, reenc, rotated>>
  BY DEF S!SaveSettings
<1>2. S!Upsert(c.was, r, mine)
  <2>1. [c.now EXCEPT !.mfa = mfa, ![f] = IF own THEN S!PlainValue(n) ELSE @] = r
    BY DEF S!Fields
  <2> QED
    BY <2>1 DEF S!SaveSettings
<1>3. /\ S!SecretStateOK /\ S!CopiesReadable /\ S!ServingReadsSettings /\ n \in Nat
      /\ Providers \cap (S!Fields \union {"tls", "settings"}) = {}
  BY SecretFacts
<1>4. c \in S!SettingsCopy
  BY <1>1, <1>3 DEF S!SecretStateOK, S!ProviderCopy
<1>5. boot = "up" /\ c.was \in S!SettingsRow /\ S!Readable(c.was)
      /\ c.now = S!decryptSecretFields(c.was)
  BY <1>1, <1>3, <1>4 DEF S!CopiesReadable, S!SettingsCopy
<1>6. c.now \in S!SettingsRow /\ Opened(c.now)
  BY <1>5, RowDecrypts
<1>7. settings \in S!SettingsRow
  BY <1>3, <1>5 DEF S!ServingReadsSettings, S!SecretStateOK
<1>8. /\ v \in S!SecretValue \union {None} /\ (v # None => v.under = <<>>)
      /\ own => v.plain = n
  BY <1>3, <1>6, SecretNew DEF S!SettingsRow, S!Fields, Opened
<1>9. ~own => v = c.now[f]
  OBVIOUS
<1> HIDE DEF v
<1>10. r \in S!SettingsRow /\ \A g \in S!Fields : r[g] = IF g = f THEN v ELSE c.now[g]
  BY <1>6, <1>8 DEF S!SettingsRow, S!Fields
<1> HIDE DEF r
<1>11. Opened(r)
  BY <1>6, <1>8, <1>10 DEF Opened
<1>12. /\ told' \in [S!Places -> Nat \union {None}] /\ madeUp' \in Nat
       /\ own => told'[f] = n
       /\ \A x \in S!Places \ mine : told'[x] = told[x]
  BY <1>1, <1>3 DEF S!SecretStateOK, S!Places
<1>13. /\ \A g \in mine : r[g] # None => r[g].plain = told'[g]
       /\ \A g \in S!Fields \ mine : r[g] = S!decryptSecretFields(c.was)[g]
  BY <1>5, <1>8, <1>9, <1>10, <1>12
<1>14. /\ loaded' \in [Admins -> S!SettingsCopy \union S!ProviderCopy \union {None}]
       /\ \A b \in Admins : loaded'[b] # None => loaded'[b] = loaded[b]
  BY <1>1, <1>3 DEF S!SecretStateOK
<1> QED
  BY <1>1, <1>2, <1>5, <1>7, <1>10, <1>11, <1>12, <1>13, <1>14, SecretRowSaved

\* A request loads the settings or a provider.
LEMMA SecretLoads ==
    ASSUME S!SecretAssumption, S!SecretsInv, NEW a \in Admins,
           S!LoadSettings(a) \/ \E p \in Providers : S!LoadProvider(a, p)
    PROVE  S!SecretsInv'
<1>1. /\ boot = "up"
      /\ UNCHANGED <<boot, listed, mfaEnv, settings, dns, tls, reenc, madeUp, told, replaced, rotated>>
  BY DEF S!LoadSettings, S!LoadProvider, S!store, S!history
<1>2. /\ S!SecretStateOK /\ KeptFields /\ KeptProviders /\ KeptTLS /\ S!ServingReadsSettings
      /\ None \notin S!SettingsRow /\ None \notin S!SecretValue
      /\ Providers \cap (S!Fields \union {"tls", "settings"}) = {}
  BY SecretFacts
<1>3. settings \in S!SettingsRow /\ S!Readable(settings)
  BY <1>1, <1>2 DEF S!ServingReadsSettings, S!SecretStateOK
<1>4. PICK c : /\ loaded' = [loaded EXCEPT ![a] = c] /\ c \in S!SettingsCopy \union S!ProviderCopy
               /\ c.at = "settings" => S!Readable(c.was) /\ c.now = S!decryptSecretFields(c.was)
  <2>1. CASE S!LoadSettings(a)
    <3> DEFINE d == S!decryptSecretFields(settings)
               c == [at |-> "settings", was |-> settings, now |-> d]
    <3>1. loaded' = [loaded EXCEPT ![a] = c]
      BY <2>1 DEF S!LoadSettings
    <3>2. d \in S!SettingsRow
      BY <1>3, RowDecrypts
    <3>3. c.was = settings /\ c.now = S!decryptSecretFields(settings)
      OBVIOUS
    <3> HIDE DEF d
    <3>4. c \in S!SettingsCopy
      BY <1>3, <3>2 DEF S!SettingsCopy
    <3> HIDE DEF c
    <3> QED
      BY <1>3, <3>1, <3>3, <3>4
  <2>2. ASSUME NEW p \in Providers, S!LoadProvider(a, p)
        PROVE  \E c : /\ loaded' = [loaded EXCEPT ![a] = c]
                      /\ c \in S!SettingsCopy \union S!ProviderCopy /\ c.at # "settings"
    <3> DEFINE c == [at |-> p, was |-> dns[p], now |-> dns[p]]
    <3>1. loaded' = [loaded EXCEPT ![a] = c] /\ dns[p] \in S!SecretValue
      BY <1>2, <2>2 DEF S!LoadProvider, S!SecretStateOK
    <3>2. c \in S!ProviderCopy /\ c.at # "settings"
      BY <1>2, <3>1 DEF S!ProviderCopy
    <3> HIDE DEF c
    <3> QED
      BY <3>1, <3>2
  <2> QED
    BY <2>1, <2>2
<1>5. /\ loaded' \in [Admins -> S!SettingsCopy \union S!ProviderCopy \union {None}]
      /\ \A b \in Admins : loaded'[b] = IF b = a THEN c ELSE loaded[b]
  BY <1>2, <1>4 DEF S!SecretStateOK
<1>6. KeptFields' /\ KeptProviders' /\ KeptTLS'
  BY <1>1, <1>2 DEF KeptFields, KeptProviders, KeptTLS
<1>7. \A p \in Providers : Settled(p) \/ (dns'[p] = dns[p] /\ p \notin replaced)
  BY <1>1 DEF Settled
<1>8. \A b \in Admins : loaded'[b] # None => loaded'[b] = loaded[b] \/
        /\ boot' = "up"
        /\ loaded'[b].at = "settings" =>
              /\ S!Readable(loaded'[b].was)
              /\ loaded'[b].now = S!decryptSecretFields(loaded'[b].was)
  BY <1>1, <1>4, <1>5
<1> QED
  BY <1>1, <1>2, <1>3, <1>5, <1>6, <1>7, <1>8, SecretWrites DEF S!SecretStateOK

\* The save of provider p, loaded as was.
LEMMA ProviderSaved ==
    ASSUME S!SecretAssumption, S!SecretsInv, NEW p \in Providers, NEW was, NEW v \in S!SecretValue,
           S!SaveProvider(p, was, v), told' \in [S!Places -> Nat \union {None}],
           \A x \in S!Places \ {p} : told'[x] = told[x],
           dns[p] = was /\ p \notin replaced => v.plain = told'[p],
           v.under = <<listed[1]>> \/ v = was, UNCHANGED <<settings, tls>>
    PROVE  /\ dns' \in [Providers -> S!SecretValue \union {None}]
           /\ KeptFields' /\ KeptProviders' /\ KeptTLS'
           /\ dns'[p] = v /\ (p \in replaced \/ dns[p] # was => p \in replaced')
           /\ \A q \in Providers : Settled(q) \/ (dns'[q] = dns[q] /\ q \notin replaced)
<1>1. /\ dns' = [dns EXCEPT ![p] = v]
      /\ replaced' = IF dns[p] = was THEN replaced ELSE replaced \union {p}
  BY DEF S!SaveProvider
<1>2. /\ S!SecretStateOK /\ KeptFields /\ KeptProviders /\ KeptTLS
      /\ None \notin S!SecretValue
      /\ Providers \cap (S!Fields \union {"tls", "settings"}) = {}
  BY SecretFacts
<1>3. /\ dns' \in [Providers -> S!SecretValue \union {None}] /\ dns'[p] = v
      /\ \A q \in Providers \ {p} : dns'[q] = dns[q] /\ (q \in replaced' <=> q \in replaced)
      /\ \A x : x \in replaced => x \in replaced'
      /\ dns[p] # was => p \in replaced'
  BY <1>1, <1>2 DEF S!SecretStateOK
<1>4. KeptFields' /\ KeptTLS'
  BY <1>2, <1>3 DEF KeptFields, KeptTLS, S!Places
<1>5. KeptProviders'
  <2> SUFFICES ASSUME NEW q \in Providers, q \notin replaced', dns'[q] # None
               PROVE  dns'[q].plain = told'[q]
    BY DEF KeptProviders
  <2>1. CASE q = p
    BY <1>3, <2>1
  <2>2. CASE q # p
    BY <1>2, <1>3, <2>2 DEF KeptProviders, S!Places
  <2> QED
    BY <2>1, <2>2
<1>6. ASSUME NEW q \in Providers
      PROVE  Settled(q) \/ (dns'[q] = dns[q] /\ q \notin replaced)
  <2>1. CASE q = p
    BY <1>3, <2>1 DEF Settled
  <2>2. CASE q # p
    BY <1>3, <2>2 DEF Settled
  <2> QED
    BY <2>1, <2>2
<1> QED
  BY <1>3, <1>4, <1>5, <1>6

\* A request that loaded a provider saves a new configuration, or what it loaded.
LEMMA SecretSaveProvider ==
    ASSUME S!SecretAssumption, S!SecretsInv, NEW a \in Admins,
           S!UpdateProvider(a) \/ S!TestProvider(a)
    PROVE  S!SecretsInv'
<1> DEFINE n == madeUp + 1
           c == loaded[a]
           v == S!PlainValue(n)
           e == S!Encrypt(v)
<1>1. /\ c # None /\ c.at \in Providers /\ loaded' = [loaded EXCEPT ![a] = None]
      /\ UNCHANGED <<boot, listed, mfaEnv, settings, tls, reenc, rotated>>
  BY DEF S!UpdateProvider, S!TestProvider
<1>2. /\ S!SecretStateOK /\ S!CopiesReadable /\ S!ServingReadsSettings /\ n \in Nat
      /\ KeptFields /\ KeptProviders /\ KeptTLS
      /\ Providers \cap (S!Fields \union {"tls", "settings"}) = {}
  BY SecretFacts
<1>3. c \in S!ProviderCopy
  BY <1>1, <1>2 DEF S!SecretStateOK, S!SettingsCopy
<1>4. c.was \in S!SecretValue
  BY <1>3 DEF S!ProviderCopy
<1>5. /\ loaded' \in [Admins -> S!SettingsCopy \union S!ProviderCopy \union {None}]
      /\ \A b \in Admins : loaded'[b] # None => loaded'[b] = loaded[b]
  BY <1>1, <1>2 DEF S!SecretStateOK
<1>6. boot' \notin {"down", "settings", "seed"} => settings' # None /\ S!Readable(settings')
  BY <1>1, <1>2 DEF S!ServingReadsSettings
<1>7. CASE S!UpdateProvider(a)
  <2>1. /\ madeUp' = n /\ told' = [told EXCEPT ![c.at] = n] /\ S!SaveProvider(c.at, c.was, e)
    BY <1>7 DEF S!UpdateProvider
  <2> HIDE DEF n
  <2>2. v \in S!SecretValue /\ v.plain = n /\ v.under = <<>>
    BY <1>2, SecretNew
  <2> HIDE DEF v
  <2>3. e \in S!SecretValue /\ e.plain = n /\ e.under = <<listed[1]>>
    BY <1>2, <2>2, SecretEncrypts DEF S!SecretStateOK
  <2> HIDE DEF e
  <2>4. /\ told' \in [S!Places -> Nat \union {None}] /\ told'[c.at] = n
        /\ \A x \in S!Places \ {c.at} : told'[x] = told[x]
    BY <1>1, <1>2, <2>1 DEF S!SecretStateOK, S!Places
  <2>5. /\ dns' \in [Providers -> S!SecretValue \union {None}]
        /\ KeptFields' /\ KeptProviders' /\ KeptTLS'
        /\ \A q \in Providers : Settled(q) \/ (dns'[q] = dns[q] /\ q \notin replaced)
    BY <1>1, <2>1, <2>3, <2>4, ProviderSaved
  <2> QED
    BY <1>1, <1>2, <1>5, <1>6, <2>1, <2>4, <2>5, SecretWrites DEF S!SecretStateOK
<1>8. CASE S!TestProvider(a) /\ S!SaveProvider(c.at, c.was, c.was)
  <2>1. UNCHANGED <<madeUp, told>>
    BY <1>8 DEF S!TestProvider
  <2>2. dns[c.at] = c.was /\ c.at \notin replaced => c.was.plain = told'[c.at]
    BY <1>1, <1>2, <1>4, <2>1, SecretFacts DEF KeptProviders
  <2>3. /\ dns' \in [Providers -> S!SecretValue \union {None}]
        /\ KeptFields' /\ KeptProviders' /\ KeptTLS'
        /\ \A q \in Providers : Settled(q) \/ (dns'[q] = dns[q] /\ q \notin replaced)
    BY <1>1, <1>2, <1>4, <1>8, <2>1, <2>2, ProviderSaved DEF S!SecretStateOK
  <2> QED
    BY <1>1, <1>2, <1>5, <1>6, <2>1, <2>3, SecretWrites DEF S!SecretStateOK
<1>9. CASE S!TestProvider(a) /\ UNCHANGED <<dns, replaced>>
  <2>1. UNCHANGED <<madeUp, told>>
    BY <1>9 DEF S!TestProvider
  <2>2. KeptFields' /\ KeptProviders' /\ KeptTLS'
    BY <1>1, <1>2, <1>9, <2>1 DEF KeptFields, KeptProviders, KeptTLS
  <2>3. \A q \in Providers : Settled(q) \/ (dns'[q] = dns[q] /\ q \notin replaced)
    BY <1>9 DEF Settled
  <2> QED
    BY <1>1, <1>2, <1>5, <1>6, <1>9, <2>1, <2>2, <2>3, SecretWrites DEF S!SecretStateOK
<1> QED
  BY <1>7, <1>8, <1>9 DEF S!TestProvider

\* A provider is deleted.
LEMMA SecretDelete ==
    ASSUME S!SecretAssumption, S!SecretsInv, NEW p \in Providers, S!DeleteProvider(p)
    PROVE  S!SecretsInv'
<1>1. /\ boot = "up" /\ dns' = [dns EXCEPT ![p] = None]
      /\ UNCHANGED <<boot, listed, mfaEnv, settings, tls, loaded, reenc, madeUp, told, replaced, rotated>>
  BY DEF S!DeleteProvider, S!history
<1>2. /\ S!SecretStateOK /\ KeptFields /\ KeptProviders /\ KeptTLS /\ S!ServingReadsSettings
  BY SecretFacts
<1>3. /\ dns' \in [Providers -> S!SecretValue \union {None}] /\ dns'[p] = None
      /\ \A q \in Providers \ {p} : dns'[q] = dns[q]
  BY <1>1, <1>2 DEF S!SecretStateOK
<1>4. KeptFields' /\ KeptProviders' /\ KeptTLS'
  BY <1>1, <1>2, <1>3 DEF KeptFields, KeptProviders, KeptTLS
<1>5. \A q \in Providers : Settled(q) \/ (dns'[q] = dns[q] /\ q \notin replaced)
  BY <1>1, <1>3 DEF Settled
<1>6. settings' # None /\ S!Readable(settings')
  BY <1>1, <1>2 DEF S!ServingReadsSettings
<1> QED
  BY <1>1, <1>2, <1>3, <1>4, <1>5, <1>6, SecretWrites DEF S!SecretStateOK

-----------------------------------------------------------------------------
(* Secrets: rotation.                                                      *)

\* What the status calls current is under the first key.
LEMMA CurrentUnderFirst ==
    ASSUME S!SecretAssumption, NEW v \in S!SecretValue, S!Current(v)
    PROVE  v.under = <<listed[1]>>
<1> DEFINE k == listed[1]
<1>1. v.under # <<>> /\ v.under[1] \in S!Elements(<<k>>)
  BY SecretDecrypts DEF S!Current
<1>2. PICK j \in S!Keys : v.under = <<j>>
  BY <1>1 DEF S!SecretValue
<1> HIDE DEF k
<1>3. S!Elements(<<k>>) = {k}
  BY DEF S!Elements
<1>4. v.under[1] = j
  BY <1>2
<1> QED
  BY <1>1, <1>2, <1>3, <1>4 DEF k

\* A re-encryption comes to one of the rows it listed.
LEMMA SecretItem ==
    ASSUME S!SecretAssumption, S!SecretsInv, reenc # None, NEW i \in reenc.todo, S!ReencryptItem(i)
    PROVE  S!SecretsInv'
<1>1. UNCHANGED <<boot, listed, mfaEnv, settings, tls, loaded, madeUp, told, rotated>>
  BY DEF S!ReencryptItem
<1>2. /\ S!SecretStateOK /\ KeptFields /\ KeptProviders /\ KeptTLS /\ S!ServingReadsSettings
      /\ S!CopiesReadable /\ None \notin S!SecretValue
  BY SecretFacts
<1>3. boot = "up"
  BY DEF S!SecretsInv, S!ReencryptLeaves
<1>4. /\ reenc.todo \in SUBSET S!ReencryptRow /\ reenc.failed \in BOOLEAN
      /\ DOMAIN reenc = {"todo", "failed"}
  BY <1>2 DEF S!SecretStateOK
<1>5. i.p \in Providers /\ i.was \in S!SecretValue
  BY <1>4 DEF S!ReencryptRow
<1> DEFINE rest == reenc.todo \ {i}
<1>6. /\ reenc' \in [todo: SUBSET S!ReencryptRow, failed: BOOLEAN] /\ reenc'.todo = rest
      /\ reenc.failed => reenc'.failed
  <2>1. reenc \in [todo: SUBSET S!ReencryptRow, failed: BOOLEAN]
    BY <1>2 DEF S!SecretStateOK
  <2>2. reenc' = [reenc EXCEPT !.todo = rest] \/ reenc' = [todo |-> rest, failed |-> TRUE]
    BY DEF S!ReencryptItem
  <2>3. rest \in SUBSET S!ReencryptRow
    BY <1>4
  <2> HIDE DEF rest
  <2>4. CASE reenc' = [reenc EXCEPT !.todo = rest]
    <3>1. reenc'.failed = reenc.failed /\ reenc'.todo = rest
      BY <2>1, <2>4
    <3>2. reenc' \in [todo: SUBSET S!ReencryptRow, failed: BOOLEAN]
      BY <2>1, <2>3, <2>4
    <3> QED
      BY <3>1, <3>2, Zenon
  <2>5. CASE reenc' = [todo |-> rest, failed |-> TRUE]
    <3>1. reenc'.failed /\ reenc'.todo = rest
      BY <2>5
    <3>2. reenc' \in [todo: SUBSET S!ReencryptRow, failed: BOOLEAN]
      BY <2>3, <2>5
    <3> QED
      BY <3>1, <3>2
  <2> QED
    BY <2>2, <2>4, <2>5
<1>7. ASSUME dns' \in [Providers -> S!SecretValue \union {None}],
             KeptFields', KeptProviders', KeptTLS',
             \A q \in Providers : Settled(q) \/ (dns'[q] = dns[q] /\ q \notin replaced),
             reenc'.failed \/ (dns[i.p] = i.was => Settled(i.p))
      PROVE  S!SecretsInv'
  <2>1. S!SecretStateOK'
    BY <1>1, <1>2, <1>6, <1>7 DEF S!SecretStateOK
  <2>2. ASSUME NEW p \in Providers, [p |-> p, was |-> dns[p]] \in reenc.todo, ~reenc'.failed
        PROVE  Settled(p) \/ [p |-> p, was |-> dns[p]] \in reenc'.todo
    <3>1. CASE [p |-> p, was |-> dns[p]] = i
      <4>1. i.p = p /\ i.was = dns[p]
        BY <3>1
      <4> QED
        BY <1>7, <2>2, <4>1
    <3>2. CASE [p |-> p, was |-> dns[p]] # i
      BY <1>6, <2>2, <3>2
    <3> QED
      BY <3>1, <3>2
  <2>3. S!ReencryptLeaves' /\ S!RotatedLast' /\ S!NothingLeftUnderOldKey'
    BY <1>1, <1>3, <1>6, <1>7, <2>2, ProvidersStep
  <2>4. settings' # None /\ S!Readable(settings')
    BY <1>1, <1>2, <1>3 DEF S!ServingReadsSettings
  <2>5. \A a \in Admins : loaded'[a] # None =>
          /\ boot' = "up"
          /\ loaded'[a].at = "settings" =>
                /\ S!Readable(loaded'[a].was)
                /\ loaded'[a].now = S!decryptSecretFields(loaded'[a].was)
    BY <1>1, <1>2 DEF S!CopiesReadable
  <2> QED
    BY <1>1, <1>7, <2>1, <2>3, <2>4, <2>5, SecretStep
<1>8. CASE UNCHANGED <<dns, replaced>> /\ (S!Current(i.was) \/ reenc'.failed)
  <2>1. KeptFields' /\ KeptProviders' /\ KeptTLS'
    BY <1>1, <1>2, <1>8 DEF KeptFields, KeptProviders, KeptTLS
  <2>2. \A q \in Providers : Settled(q) \/ (dns'[q] = dns[q] /\ q \notin replaced)
    BY <1>8 DEF Settled
  <2>3. S!Current(i.was) => i.was.under = <<listed[1]>>
    BY <1>5, CurrentUnderFirst
  <2>4. reenc'.failed \/ (dns[i.p] = i.was => Settled(i.p))
    BY <1>8, <2>3 DEF Settled
  <2> QED
    BY <1>2, <1>7, <1>8, <2>1, <2>2, <2>4 DEF S!SecretStateOK
<1>9. CASE /\ S!DecryptAuto(listed, i.was) # None
           /\ S!SaveProvider(i.p, i.was, S!Encrypt(S!DecryptAuto(listed, i.was)))
  <2> DEFINE d == S!DecryptAuto(listed, i.was)
             e == S!Encrypt(d)
  <2>1. d \in S!SecretValue /\ d.plain = i.was.plain /\ d.under = <<>>
    BY <1>5, <1>9, SecretDecrypts
  <2>2. S!SaveProvider(i.p, i.was, e)
    BY <1>9
  <2> HIDE DEF d
  <2>3. e \in S!SecretValue /\ e.plain = i.was.plain /\ e.under = <<listed[1]>>
    BY <1>2, <2>1, SecretEncrypts DEF S!SecretStateOK
  <2> HIDE DEF e
  <2>4. dns[i.p] = i.was /\ i.p \notin replaced => e.plain = told'[i.p]
    BY <1>1, <1>2, <1>5, <2>3 DEF KeptProviders
  <2>5. /\ dns' \in [Providers -> S!SecretValue \union {None}]
        /\ KeptFields' /\ KeptProviders' /\ KeptTLS' /\ dns'[i.p] = e
        /\ \A q \in Providers : Settled(q) \/ (dns'[q] = dns[q] /\ q \notin replaced)
    BY <1>1, <1>2, <1>5, <2>2, <2>3, <2>4, ProviderSaved DEF S!SecretStateOK
  <2>6. Settled(i.p)
    BY <2>3, <2>5 DEF Settled
  <2> QED
    BY <1>7, <2>5, <2>6
<1>10. \/ UNCHANGED <<dns, replaced>> /\ (S!Current(i.was) \/ reenc'.failed)
       \/ /\ S!DecryptAuto(listed, i.was) # None
          /\ S!SaveProvider(i.p, i.was, S!Encrypt(S!DecryptAuto(listed, i.was)))
  BY DEF S!ReencryptItem
<1> QED
  BY <1>8, <1>9, <1>10

\* A re-encryption lists the rows, and ends; the status changes nothing stored.
LEMMA SecretRotation ==
    ASSUME S!SecretAssumption, S!SecretsInv,
           S!ReencryptList \/ S!ReencryptEnd \/ S!RotationStatus \/ UNCHANGED S!vars
    PROVE  S!SecretsInv'
<1>1. UNCHANGED <<boot, listed, mfaEnv, settings, dns, tls, loaded, madeUp, told, replaced>>
  BY DEF S!ReencryptList, S!ReencryptEnd, S!RotationStatus, S!vars, S!store, S!history
<1>2. /\ S!SecretStateOK /\ KeptFields /\ KeptProviders /\ KeptTLS /\ S!ServingReadsSettings
      /\ S!CopiesReadable
  BY SecretFacts
<1>3. S!ReencryptLeaves /\ S!RotatedLast /\ S!NothingLeftUnderOldKey
  BY DEF S!SecretsInv
<1>4. KeptFields' /\ KeptProviders' /\ KeptTLS'
  BY <1>1, <1>2 DEF KeptFields, KeptProviders, KeptTLS
<1>5. /\ reenc' \in [todo: SUBSET S!ReencryptRow, failed: BOOLEAN] \union {None}
      /\ S!ReencryptLeaves' /\ S!RotatedLast' /\ S!NothingLeftUnderOldKey'
  <2>1. CASE S!ReencryptList
    <3> DEFINE T == {[p |-> p, was |-> dns[p]] : p \in {q \in Providers : dns[q] # None}}
               x == [todo |-> T, failed |-> FALSE]
    <3>1. reenc' = x /\ boot = "up" /\ rotated' = rotated
      BY <2>1 DEF S!ReencryptList, S!history
    <3>2. T \in SUBSET S!ReencryptRow
      BY <1>2 DEF S!SecretStateOK, S!ReencryptRow
    <3>3. \A p \in Providers : dns[p] # None => [p |-> p, was |-> dns[p]] \in T
      OBVIOUS
    <3> HIDE DEF T
    <3>4. x \in [todo: SUBSET S!ReencryptRow, failed: BOOLEAN] /\ x.todo = T
      BY <3>2
    <3> HIDE DEF x
    <3>5. S!ReencryptLeaves'
      BY <1>1, <3>1, <3>3, <3>4 DEF S!ReencryptLeaves
    <3>6. S!RotatedLast' /\ S!NothingLeftUnderOldKey'
      BY <1>1, <1>3, <3>1 DEF S!RotatedLast, S!NothingLeftUnderOldKey
    <3> QED
      BY <3>1, <3>4, <3>5, <3>6
  <2>2. CASE S!ReencryptEnd
    <3>1. /\ reenc # None /\ reenc.todo = {} /\ reenc' = None
          /\ rotated' = IF reenc.failed THEN rotated ELSE listed[1]
      BY <2>2 DEF S!ReencryptEnd
    <3>2. S!RotatedLast'
      BY <1>1, <1>3, <3>1 DEF S!RotatedLast
    <3>3. CASE reenc.failed
      BY <1>1, <1>3, <3>1, <3>2, <3>3 DEF S!ReencryptLeaves, S!NothingLeftUnderOldKey
    <3>4. CASE ~reenc.failed
      <4>1. \A p \in Providers \ replaced : dns[p] # None => dns[p].under = <<listed[1]>>
        BY <1>3, <3>1, <3>4 DEF S!ReencryptLeaves, S!UnderFirst
      <4> QED
        BY <1>1, <3>1, <3>2, <3>4, <4>1 DEF S!ReencryptLeaves, S!NothingLeftUnderOldKey
    <3> QED
      BY <3>3, <3>4
  <2>3. CASE UNCHANGED <<reenc, rotated>>
    BY <1>1, <1>2, <1>3, <2>3 DEF S!SecretStateOK, S!ReencryptLeaves, S!UnderFirst,
       S!RotatedLast, S!NothingLeftUnderOldKey
  <2> QED
    BY <2>1, <2>2, <2>3 DEF S!RotationStatus, S!vars, S!history
<1>6. S!SecretStateOK'
  BY <1>1, <1>2, <1>5 DEF S!SecretStateOK
<1>7. boot' \notin {"down", "settings", "seed"} => settings' # None /\ S!Readable(settings')
  BY <1>1, <1>2 DEF S!ServingReadsSettings
<1>8. \A a \in Admins : loaded'[a] # None =>
        /\ boot' = "up"
        /\ loaded'[a].at = "settings" =>
              /\ S!Readable(loaded'[a].was)
              /\ loaded'[a].now = S!decryptSecretFields(loaded'[a].was)
  BY <1>1, <1>2 DEF S!CopiesReadable
<1> QED
  BY <1>1, <1>4, <1>5, <1>6, <1>7, <1>8, SecretStep

\* It holds at the start, with a database of an earlier version or none.
LEMMA SecretInit ==
    ASSUME S!SecretAssumption, S!Init
    PROVE  S!SecretsInv
<1> DEFINE k == listed[1]
<1>0. listed \in KeyLists
  BY DEF S!Init
<1>1. k \in S!Keys
  BY <1>0, SecretKeys
<1>2. PICK old \in BOOLEAN :
        /\ settings = IF old THEN [mfa |-> FALSE, oidc |-> S!PlainValue(0), tunnel |-> None]
                      ELSE None
        /\ dns = [p \in Providers |->
                    IF old /\ p = CHOOSE q \in Providers : TRUE
                    THEN [plain |-> 0, under |-> <<k>>, ver |-> 1] ELSE None]
        /\ tls = IF old THEN S!PlainValue(0) ELSE None
        /\ told = [x \in S!Places |->
                    IF old /\ (x \in {"oidc", "tls"} \/ (x \in Providers /\ dns[x] # None))
                    THEN 0 ELSE None]
  BY DEF S!Init
<1>3. /\ boot = "down" /\ mfaEnv \in BOOLEAN /\ loaded = [a \in Admins |-> None] /\ reenc = None
      /\ madeUp = 0 /\ rotated = None
  BY DEF S!Init
<1> HIDE DEF k
<1>4. /\ Providers \cap (S!Fields \union {"tls", "settings"}) = {}
      /\ None \notin Nat /\ None \notin S!SecretValue /\ None \notin S!SettingsRow
  BY DEF S!SecretAssumption
<1> DEFINE v == S!PlainValue(0)
           w == [plain |-> 0, under |-> <<k>>, ver |-> 1]
           r == [mfa |-> FALSE, oidc |-> v, tunnel |-> None]
<1>5. v \in S!SecretValue /\ v.plain = 0
  BY SecretNew
<1>6. w \in S!SecretValue /\ w.plain = 0
  BY <1>1 DEF S!SecretValue
<1> HIDE DEF v, w
<1>7. r \in S!SettingsRow /\ r.oidc = v /\ r.tunnel = None
  BY <1>5 DEF S!SettingsRow
<1> HIDE DEF r
<1>8. settings = (IF old THEN r ELSE None) /\ tls = (IF old THEN v ELSE None)
  BY <1>2 DEF r, v
<1>9. /\ dns \in [Providers -> S!SecretValue \union {None}]
      /\ \A p \in Providers : dns[p] # None => old /\ dns[p] = w
  BY <1>2, <1>4, <1>6 DEF w
<1>10. told \in [S!Places -> Nat \union {None}]
  BY <1>2
<1>11. S!SecretStateOK
  BY <1>0, <1>3, <1>5, <1>7, <1>8, <1>9, <1>10 DEF S!SecretStateOK
<1>12. S!SecretsKept
  <2> SUFFICES ASSUME NEW x \in S!Places, S!Stored(x) # None
               PROVE  S!Stored(x).plain = told[x] /\ Len(S!Stored(x).under) <= 1
    BY DEF S!SecretsKept
  <2>1. CASE x = "tls"
    BY <1>2, <1>4, <1>5, <1>8, <2>1, SecretUnderOne DEF S!Stored
  <2>2. CASE x \in Providers
    BY <1>2, <1>4, <1>6, <1>9, <2>2, SecretUnderOne DEF S!Stored, S!Fields
  <2>3. CASE x \in S!Fields
    <3>1. settings # None /\ S!Stored(x) = settings[x] /\ old /\ settings = r
      BY <1>4, <1>8, <2>3 DEF S!Stored, S!Fields
    <3>2. x = "oidc" /\ S!Stored(x) = v
      BY <1>7, <2>3, <3>1 DEF S!Fields
    <3>3. told[x] = 0
      BY <1>2, <3>1, <3>2
    <3> QED
      BY <1>5, <3>2, <3>3, SecretUnderOne
  <2> QED
    BY <2>1, <2>2, <2>3 DEF S!Places
<1>13. S!CopiesReadable /\ S!ReencryptLeaves /\ S!RotatedLast /\ S!ServingReadsSettings
       /\ S!NothingLeftUnderOldKey
  BY <1>3 DEF S!CopiesReadable, S!ReencryptLeaves, S!RotatedLast, S!ServingReadsSettings,
     S!NothingLeftUnderOldKey
<1> QED
  BY <1>11, <1>12, <1>13 DEF S!SecretsInv

\* Every step keeps the invariant.
LEMMA SecretNext ==
    ASSUME S!SecretAssumption, S!SecretsInv, [S!Next]_S!vars
    PROVE  S!SecretsInv'
<1>1. CASE S!Launch \/ S!MigrateSettings \/ S!SeedDefaults \/ S!MigrateTLS \/ S!EnsureServerKey
           \/ S!MigrateDNSProviderSecrets \/ S!Down
  BY <1>1, SecretLaunch, SecretMigrate, SecretSeedDefaults, SecretTLS, SecretServerKey,
     SecretMigrateProviders, SecretDown
<1>2. CASE S!seedDNSProviderFromEnv
  <2>1. /\ boot = "provider" /\ boot' = "tls"
        /\ UNCHANGED <<listed, mfaEnv, settings, tls, loaded, reenc, replaced, rotated>>
    BY <1>2 DEF S!seedDNSProviderFromEnv
  <2>2. CASE \E p \in Providers : S!NewProvider(p)
    BY <2>1, <2>2, SecretNewProvider
  <2>3. CASE UNCHANGED <<dns, madeUp, told>>
    <3>1. /\ S!SecretStateOK /\ KeptFields /\ KeptProviders /\ KeptTLS /\ S!ServingReadsSettings
      BY SecretFacts
    <3>2. KeptFields' /\ KeptProviders' /\ KeptTLS'
      BY <2>1, <2>3, <3>1 DEF KeptFields, KeptProviders, KeptTLS
    <3>3. \A p \in Providers : Settled(p) \/ (dns'[p] = dns[p] /\ p \notin replaced)
      BY <2>1, <2>3 DEF Settled
    <3>4. settings' # None /\ S!Readable(settings')
      BY <2>1, <3>1 DEF S!ServingReadsSettings
    <3> QED
      BY <2>1, <2>3, <3>1, <3>2, <3>3, <3>4, SecretWrites DEF S!SecretStateOK
  <2> QED
    BY <1>2, <2>2, <2>3 DEF S!seedDNSProviderFromEnv
<1>3. ASSUME NEW a \in Admins,
             \/ S!LoadSettings(a) \/ S!UpdateProvider(a) \/ S!TestProvider(a)
             \/ \E p \in Providers : S!LoadProvider(a, p)
      PROVE  S!SecretsInv'
  BY <1>3, SecretLoads, SecretSaveProvider
<1>4. ASSUME NEW a \in Admins, NEW f \in S!Fields, NEW own \in BOOLEAN, NEW mfa \in BOOLEAN,
             S!SaveSettings(a, f, own, mfa)
      PROVE  S!SecretsInv'
  BY <1>4, SecretSaveSettings
<1>5. CASE S!SettingsSync \/ S!StorePrivateKey
  BY <1>5, SecretSync, SecretTLS
<1>6. ASSUME NEW p \in Providers, S!CreateProvider(p) \/ S!DeleteProvider(p) PROVE S!SecretsInv'
  <2>1. CASE S!CreateProvider(p)
    <3>1. /\ S!NewProvider(p)
          /\ UNCHANGED <<boot, listed, mfaEnv, settings, tls, loaded, reenc, replaced, rotated>>
      BY <2>1 DEF S!CreateProvider
    <3> QED
      BY <3>1, SecretNewProvider
  <2> QED
    BY <1>6, <2>1, SecretDelete
<1>7. CASE S!RotationStatus \/ S!ReencryptList \/ S!ReencryptEnd \/ UNCHANGED S!vars
  BY <1>7, SecretRotation
<1>8. ASSUME NEW i \in (IF reenc = None THEN {} ELSE reenc.todo), S!ReencryptItem(i)
      PROVE  S!SecretsInv'
  BY <1>8, SecretItem
<1> QED
  BY <1>1, <1>2, <1>3, <1>4, <1>5, <1>6, <1>7, <1>8 DEF S!Next

\* Through migrations, key rotations and restarts with any of the key lists, a stored
\* secret is the one last given, under at most one key; while the hub serves, it can
\* read its settings; and after a complete re-encryption no provider is left under
\* another key; stale copies saved over them excepted (SeedDefaults, encryptSecretFields,
\* MigrateDNSProviderSecrets, handleReencryptDataKey).
THEOREM SecretsSound == S!Spec => []SecretsSafe
<1> USE SecretAssumption
<1>1. S!Init => S!SecretsInv
  BY SecretInit
<1>2. S!SecretsInv /\ [S!Next]_S!vars => S!SecretsInv'
  BY SecretNext
<1>3. S!SecretsInv => SecretsSafe
  BY DEF S!SecretsInv, SecretsSafe
<1> QED
  BY <1>1, <1>2, <1>3, PTL DEF S!Spec

-----------------------------------------------------------------------------
(* The audit chain: sequences and positions.                               *)

\* A set of natural numbers that is not empty has a least element.
LEMMA Least == ASSUME NEW T \in SUBSET Nat, T # {} PROVE \E m \in T : \A k \in T : m <= k
<1> DEFINE R1 == OpToRel(<, Nat)
<1>1. IsWellFoundedOn(R1, Nat)
  BY NatLessThanWellFounded
<1>2. PICK m \in T : \A y \in T : ~(<<y, m>> \in R1)
  BY <1>1, WFMin
<1>3. \A a, b \in Nat : a < b => <<a, b>> \in {ss \in Nat \X Nat : ss[1] < ss[2]}
  OBVIOUS
<1>4. \A a, b \in Nat : a < b => <<a, b>> \in R1
  BY <1>3, Zenon DEF OpToRel
<1>5. \A k \in T : ~(k < m)
  BY <1>2, <1>4, Zenon
<1> QED
  BY <1>5

\* A function on 1..n is a sequence.
LEMMA FunctionIsSeq ==
    ASSUME NEW X, NEW n \in Nat, NEW f \in [1..n -> X]
    PROVE  f \in Seq(X) /\ Len(f) = n
<1>1. f \in Seq(X)
  BY SeqDef
<1>2. DOMAIN f = 1..n /\ DOMAIN f = 1..Len(f) /\ Len(f) \in Nat
  BY <1>1, LenProperties
<1> QED
  BY <1>1, <1>2

\* One entry more at the end of what was hashed.
LEMMA HashGrows ==
    ASSUME NEW p \in Seq(Entries), NEW e \in Seq(Entries), NEW i \in 1..Len(e)
    PROVE  /\ p \o SubSeq(e, 1, i - 1) \in Seq(Entries)
           /\ Append(p \o SubSeq(e, 1, i - 1), e[i]) = p \o SubSeq(e, 1, i)
           /\ Append(p \o SubSeq(e, 1, i - 1), e[i]) \in Seq(Entries)
           /\ i = 1 => p \o SubSeq(e, 1, i - 1) = p
<1> DEFINE a == SubSeq(e, 1, i - 1)
           b == SubSeq(e, 1, i)
           x == e[i]
           n == Len(p)
<1>0. Len(e) \in Nat /\ i \in Nat /\ i >= 1 /\ i <= Len(e) /\ i - 1 \in Nat /\ n \in Nat
  BY LenProperties
<1>1. x \in Entries /\ \A j \in 1..i : e[j] \in Entries
  BY <1>0, ElementOfSeq
<1>2. a \in Seq(Entries) /\ Len(a) = i - 1 /\ \A j \in 1..i - 1 : a[j] = e[j]
  <2>1. \A j \in 1..i - 1 : e[j] \in Entries
    BY <1>0, <1>1
  <2>2. /\ a \in Seq(Entries) /\ Len(a) = IF 1 <= i - 1 THEN (i - 1) - 1 + 1 ELSE 0
        /\ \A j \in 1..(i - 1) - 1 + 1 : a[j] = e[1 + j - 1]
    BY <1>0, <2>1, SubSeqProperties
  <2> HIDE DEF a
  <2> QED
    BY <1>0, <2>2
<1>3. b \in Seq(Entries) /\ Len(b) = i /\ \A j \in 1..i : b[j] = e[j]
  <2>2. /\ b \in Seq(Entries) /\ Len(b) = IF 1 <= i THEN i - 1 + 1 ELSE 0
        /\ \A j \in 1..i - 1 + 1 : b[j] = e[1 + j - 1]
    BY <1>0, <1>1, SubSeqProperties
  <2> HIDE DEF b
  <2> QED
    BY <1>0, <2>2
<1>4. i = 1 => a = <<>>
  BY <1>0, SubSeqEmpty
<1> HIDE DEF a, b
<1>5. /\ p \o a \in Seq(Entries) /\ Len(p \o a) = n + (i - 1)
      /\ \A j \in 1..n + (i - 1) : (p \o a)[j] = IF j <= n THEN p[j] ELSE a[j - n]
  <2> DEFINE s0 == p \o a
             la == Len(a)
  <2>1. /\ s0 \in Seq(Entries) /\ Len(s0) = n + la
        /\ \A j \in 1..n + la : s0[j] = IF j <= n THEN p[j] ELSE a[j - n]
    BY <1>2, ConcatProperties
  <2>2. la = i - 1
    BY <1>2
  <2> HIDE DEF s0, la
  <2>3. /\ s0 \in Seq(Entries) /\ Len(s0) = n + (i - 1)
        /\ \A j \in 1..n + (i - 1) : s0[j] = IF j <= n THEN p[j] ELSE a[j - n]
    BY <2>1, <2>2, Zenon
  <2> QED
    BY <2>3 DEF s0
<1>6. /\ p \o b \in Seq(Entries) /\ Len(p \o b) = n + i
      /\ \A j \in 1..n + i : (p \o b)[j] = IF j <= n THEN p[j] ELSE b[j - n]
  BY <1>3, ConcatProperties
<1>7. i = 1 => p \o a = p
  BY <1>4, ConcatEmptySeq
<1> DEFINE s == p \o a
           t == p \o b
           l == Append(s, x)
<1> HIDE DEF s, t, x
<1>8. /\ l \in Seq(Entries) /\ Len(l) = n + (i - 1) + 1
      /\ \A j \in 1..n + (i - 1) : l[j] = s[j]
      /\ l[n + (i - 1) + 1] = x
  BY <1>1, <1>5, AppendProperties DEF s
<1> HIDE DEF l, n
<1>9. \A j \in 1..n + i : l[j] = t[j]
  <2> SUFFICES ASSUME NEW j \in 1..n + i PROVE l[j] = t[j]
    OBVIOUS
  <2>1. CASE j <= n
    <3>1. j \in 1..n + (i - 1)
      BY <1>0, <2>1
    <3> QED
      BY <1>5, <1>6, <1>8, <2>1, <3>1 DEF s, t
  <2>2. CASE ~(j <= n) /\ j <= n + (i - 1)
    <3>1. j \in 1..n + (i - 1) /\ j - n \in 1..i - 1 /\ j - n \in 1..i
      BY <1>0, <2>2
    <3> QED
      BY <1>2, <1>3, <1>5, <1>6, <1>8, <2>2, <3>1 DEF s, t
  <2>3. CASE j = n + i
    <3>1. ~(j <= n) /\ j - n = i /\ i \in 1..i /\ j = n + (i - 1) + 1
      BY <1>0, <2>3
    <3> QED
      BY <1>3, <1>6, <1>8, <3>1 DEF t, x
  <2> QED
    BY <1>0, <2>1, <2>2, <2>3
<1>10. Len(l) = Len(t) /\ Len(l) = n + i
  BY <1>0, <1>6, <1>8 DEF t
<1>11. l = t
  BY <1>6, <1>8, <1>9, <1>10, SeqEqual DEF t
<1> QED
  BY <1>5, <1>7, <1>8, <1>11 DEF a, b, s, t, l, x

\* What is known of a row.
LEMMA RowFacts ==
    ASSUME TypeOK
    PROVE  /\ Len(rows) \in Nat /\ rows \in Seq(Row)
           /\ \A i \in 1..Len(rows) :
                /\ rows[i] \in Row /\ rows[i].id \in Nat /\ rows[i].entry \in Entries
                /\ rows[i].prev \in Hashes /\ rows[i].hash \in Hashes
           /\ rows = <<>> <=> Len(rows) = 0
<1>1. rows \in Seq(Row)
  BY DEF TypeOK
<1>2. Len(rows) \in Nat /\ \A i \in 1..Len(rows) : rows[i] \in Row
  BY <1>1, LenProperties, ElementOfSeq
<1>3. \A t \in Row : t.id \in Nat /\ t.entry \in Entries /\ t.prev \in Hashes /\ t.hash \in Hashes
  BY DEF Row
<1>4. rows = <<>> <=> Len(rows) = 0
  BY <1>1, EmptySeq
<1> QED
  BY <1>1, <1>2, <1>3, <1>4

\* The rows up to an id are the first ones.
LEMMA ThroughIs ==
    ASSUME TypeOK, IdsRise, NEW id \in Int
    PROVE  /\ Through(id) \in 0..Len(rows)
           /\ \A i \in 1..Len(rows) : rows[i].id <= id <=> i <= Through(id)
<1> DEFINE L == Len(rows)
           T == {m \in 1..L + 1 : m = L + 1 \/ ~(rows[m].id <= id)}
<1>0. L \in Nat /\ \A i \in 1..L : rows[i].id \in Nat
  BY RowFacts
<1>1. \A i, j \in 1..L : i < j => rows[i].id < rows[j].id
  BY DEF IdsRise
<1> HIDE DEF L
<1>2. T \in SUBSET Nat /\ L + 1 \in T
  BY <1>0
<1>3. PICK m \in T : \A k \in T : m <= k
  BY <1>2, Least
<1> DEFINE n == m - 1
<1>4. n \in 0..L /\ m \in 1..L + 1
  BY <1>0, <1>3
<1>5. ASSUME NEW i \in 1..L PROVE rows[i].id <= id <=> i <= n
  <2>1. CASE i <= n
    <3>1. i \notin T
      BY <1>0, <1>3, <1>4, <2>1
    <3>2. rows[i].id <= id
      BY <1>0, <3>1
    <3> QED
      BY <2>1, <3>2
  <2>2. CASE ~(i <= n)
    <3>1. m \in 1..L /\ ~(rows[m].id <= id) /\ m <= i
      BY <1>0, <1>3, <1>4, <2>2
    <3>2. rows[m].id <= rows[i].id
      BY <1>0, <1>1, <3>1
    <3>3. ~(rows[i].id <= id)
      BY <1>0, <3>1, <3>2
    <3> QED
      BY <2>2, <3>3
  <2> QED
    BY <2>1, <2>2
<1>6. {i \in 1..L : rows[i].id <= id} = 1..n
  <2>1. \A i : i \in 1..n <=> i \in 1..L /\ i <= n
    BY <1>0, <1>4
  <2> QED
    BY <1>5, <2>1
<1>7. Cardinality(1..n) = n
  <2>1. n \in Int /\ 1 \in Int /\ n - 1 + 1 = n
    BY <1>4
  <2>2. Cardinality(1..n) = IF 1 > n THEN 0 ELSE n - 1 + 1
    BY <2>1, FS_Interval
  <2> QED
    BY <1>4, <2>1, <2>2
<1>8. Through(id) = n
  BY <1>6, <1>7 DEF Through, L
<1> QED
  BY <1>4, <1>5, <1>8 DEF L

\* A slice of a sequence.
LEMMA Slice ==
    ASSUME NEW X, NEW q \in Seq(X), NEW m \in Nat, NEW n \in Nat, 1 <= m, m <= n + 1, n <= Len(q)
    PROVE  /\ SubSeq(q, m, n) \in Seq(X) /\ Len(SubSeq(q, m, n)) = n - m + 1
           /\ \A i \in 1..n - m + 1 : SubSeq(q, m, n)[i] = q[m + i - 1]
<1> DEFINE u == SubSeq(q, m, n)
<1>0. Len(q) \in Nat
  BY LenProperties
<1>1. \A i \in m..n : q[i] \in X
  <2>1. \A i \in m..n : i \in 1..Len(q)
    BY <1>0
  <2> QED
    BY <2>1, ElementOfSeq
<1>2. /\ u \in Seq(X) /\ Len(u) = IF m <= n THEN n - m + 1 ELSE 0
      /\ \A i \in 1..n - m + 1 : u[i] = q[m + i - 1]
  BY <1>1, SubSeqProperties
<1> HIDE DEF u
<1>3. Len(u) = n - m + 1
  BY <1>2
<1> QED
  BY <1>2, <1>3 DEF u

\* The entries as the database keeps them.
LEMMA StoredIs ==
    ASSUME NEW e \in Entries
    PROVE  Stored(e) \in Entries /\ (driver = "sqlite" => Stored(e) = e)
<1>1. [e EXCEPT !.frac = 0] \in Entries
  BY DEF Entries
<1> QED
  BY <1>1 DEF Stored

\* The rows of one write: the ids it drew, each chained on the one before.
LEMMA ChainOnIs ==
    ASSUME NEW p \in Hashes, NEW e \in Seq(Entries), NEW ids \in Seq(Nat),
           Len(ids) = Len(e)
    PROVE  /\ ChainOn(p, e, ids) \in Seq(Row) /\ Len(ChainOn(p, e, ids)) = Len(e)
           /\ \A i \in 1..Len(e) :
                /\ ChainOn(p, e, ids)[i].id = ids[i]
                /\ ChainOn(p, e, ids)[i].entry = Stored(e[i])
                /\ ChainOn(p, e, ids)[i].hash = Append(ChainOn(p, e, ids)[i].prev, e[i])
                /\ i = 1 => ChainOn(p, e, ids)[i].prev = p
                /\ i > 1 => ChainOn(p, e, ids)[i].prev = ChainOn(p, e, ids)[i - 1].hash
<1> DEFINE H(i) == p \o SubSeq(e, 1, i)
           R(i) == [id |-> ids[i], entry |-> Stored(e[i]), prev |-> H(i - 1),
                    hash |-> Append(H(i - 1), e[i])]
           c == ChainOn(p, e, ids)
<1>0. Len(e) \in Nat /\ \A i \in 1..Len(e) : e[i] \in Entries
  BY LenProperties, ElementOfSeq
<1>1. c = [i \in 1..Len(e) |-> R(i)]
  BY DEF ChainOn, computeAuditHash
<1>2. \A i \in 1..Len(e) :
        /\ H(i - 1) \in Hashes /\ Append(H(i - 1), e[i]) = H(i) /\ Append(H(i - 1), e[i]) \in Hashes
        /\ i = 1 => H(i - 1) = p
  <2> SUFFICES ASSUME NEW i \in 1..Len(e)
               PROVE  /\ p \o SubSeq(e, 1, i - 1) \in Seq(Entries)
                      /\ Append(p \o SubSeq(e, 1, i - 1), e[i]) = p \o SubSeq(e, 1, i)
                      /\ Append(p \o SubSeq(e, 1, i - 1), e[i]) \in Seq(Entries)
                      /\ i = 1 => p \o SubSeq(e, 1, i - 1) = p
    BY Zenon DEF Hashes
  <2>1. p \in Seq(Entries)
    BY DEF Hashes
  <2> QED
    BY <2>1, HashGrows, Zenon
<1>3. \A i \in 1..Len(e) : Stored(e[i]) \in Entries
  BY <1>0, StoredIs
<1> HIDE DEF H
<1>4. ASSUME NEW i \in 1..Len(e)
      PROVE  /\ R(i) \in Row
             /\ R(i).id = ids[i] /\ R(i).entry = Stored(e[i])
             /\ R(i).prev = H(i - 1) /\ R(i).hash = Append(H(i - 1), e[i])
             /\ R(i).hash = H(i)
  <2>1. ids[i] \in Nat
    BY <1>0, ElementOfSeq
  <2>2. R(i) \in Row
    BY <1>2, <1>3, <2>1 DEF Row
  <2> QED
    BY <1>2, <2>2
<1> HIDE DEF R, c
<1>5. c \in [1..Len(e) -> Row] /\ \A i \in 1..Len(e) : c[i] = R(i)
  BY <1>1, <1>4
<1>6. c \in Seq(Row) /\ Len(c) = Len(e)
  BY <1>0, <1>5, FunctionIsSeq
<1>7. ASSUME NEW i \in 1..Len(e)
      PROVE  /\ c[i].id = ids[i] /\ c[i].entry = Stored(e[i])
             /\ c[i].hash = Append(c[i].prev, e[i])
             /\ i = 1 => c[i].prev = p
             /\ i > 1 => c[i].prev = c[i - 1].hash
  <2>1. i > 1 => i - 1 \in 1..Len(e)
    BY <1>0
  <2>2. i > 1 => c[i - 1].hash = H(i - 1)
    BY <1>4, <1>5, <2>1, Zenon
  <2>3. c[i].prev = H(i - 1) /\ c[i].hash = Append(H(i - 1), e[i])
        /\ c[i].id = ids[i] /\ c[i].entry = Stored(e[i])
    BY <1>4, <1>5, Zenon
  <2> QED
    BY <1>2, <2>2, <2>3, Zenon
<1> QED
  BY <1>6, <1>7 DEF c

\* What a segment of rows that verifies is followed by.
LEMMA SegmentConcat ==
    ASSUME NEW p, NEW q \in Seq(Row), NEW c \in Seq(Row),
           verifyAuditChainSegment(p, q),
           verifyAuditChainSegment(IF Len(q) = 0 THEN p ELSE q[Len(q)].hash, c)
    PROVE  verifyAuditChainSegment(p, q \o c)
<1> DEFINE z == q \o c
           L == Len(q)
           M == Len(c)
<1>0. L \in Nat /\ M \in Nat
  BY LenProperties
<1>1. /\ z \in Seq(Row) /\ Len(z) = L + M
      /\ \A i \in 1..L + M : z[i] = IF i <= L THEN q[i] ELSE c[i - L]
  BY ConcatProperties
<1>2. \A i \in 1..L : /\ q[i].prev = IF i = 1 THEN p ELSE q[i - 1].hash
                      /\ q[i].hash = Append(IF i = 1 THEN p ELSE q[i - 1].hash, q[i].entry)
  BY DEF verifyAuditChainSegment, computeAuditHash
<1> DEFINE b == IF L = 0 THEN p ELSE q[L].hash
<1>3. \A i \in 1..M : /\ c[i].prev = IF i = 1 THEN b ELSE c[i - 1].hash
                      /\ c[i].hash = Append(IF i = 1 THEN b ELSE c[i - 1].hash, c[i].entry)
  BY DEF verifyAuditChainSegment, computeAuditHash
<1> HIDE DEF z, L, M
<1>4. ASSUME NEW i \in 1..L + M
      PROVE  /\ z[i].prev = IF i = 1 THEN p ELSE z[i - 1].hash
             /\ z[i].hash = Append(IF i = 1 THEN p ELSE z[i - 1].hash, z[i].entry)
  <2>0. i \in Nat /\ i >= 1 /\ i <= L + M /\ (i > 1 => i - 1 \in 1..L + M)
    BY <1>0
  <2>1. CASE i <= L
    <3>1. z[i] = q[i] /\ i \in 1..L
      BY <1>0, <1>1, <2>0, <2>1
    <3>2. i # 1 => z[i - 1] = q[i - 1]
      BY <1>0, <1>1, <2>0, <2>1
    <3> QED
      BY <1>2, <3>1, <3>2
  <2>2. CASE i = L + 1
    <3>1. i - L = 1 /\ 1 \in 1..M /\ ~(i <= L)
      BY <1>0, <2>0, <2>2
    <3>2. z[i] = c[1]
      BY <1>1, <3>1
    <3>3. i # 1 => L # 0 /\ z[i - 1] = q[L]
      <4>1. i # 1 => L # 0 /\ i - 1 = L /\ L <= L /\ L \in 1..L + M
        BY <1>0, <2>0, <2>2
      <4> QED
        BY <1>1, <4>1
    <3>4. i = 1 => L = 0
      BY <1>0, <2>2
    <3>5. c[1].prev = b /\ c[1].hash = Append(b, c[1].entry)
      BY <1>3, <3>1
    <3>6. b = IF i = 1 THEN p ELSE z[i - 1].hash
      BY <3>3, <3>4
    <3> QED
      BY <3>2, <3>5, <3>6
  <2>3. CASE i > L + 1
    <3>1. /\ i - L \in 1..M /\ i - L # 1 /\ ~(i <= L) /\ ~(i - 1 <= L) /\ i # 1
          /\ i - 1 \in 1..L + M /\ (i - 1) - L = (i - L) - 1
      BY <1>0, <2>0, <2>3
    <3>2. z[i] = c[i - L] /\ z[i - 1] = c[(i - L) - 1]
      BY <1>1, <3>1
    <3> QED
      BY <1>3, <3>1, <3>2
  <2> QED
    BY <1>0, <2>0, <2>1, <2>2, <2>3
<1> QED
  BY <1>1, <1>4 DEF verifyAuditChainSegment, computeAuditHash, z

\* And a slice of it.
LEMMA SegmentSlice ==
    ASSUME NEW p, NEW q \in Seq(Row), NEW m \in Nat, NEW n \in Nat, m <= n, n <= Len(q),
           verifyAuditChainSegment(p, q)
    PROVE  verifyAuditChainSegment(IF m = 0 THEN p ELSE q[m].hash, SubSeq(q, m + 1, n))
<1> DEFINE z == SubSeq(q, m + 1, n)
           b == IF m = 0 THEN p ELSE q[m].hash
<1>0. Len(q) \in Nat
  BY LenProperties
<1>1. Len(z) = n - m /\ \A i \in 1..n - m : z[i] = q[m + i]
  <2>1. m + 1 \in Nat /\ 1 <= m + 1 /\ m + 1 <= n + 1 /\ n - (m + 1) + 1 = n - m
    OBVIOUS
  <2>2. Len(z) = n - m /\ \A i \in 1..n - m : z[i] = q[m + 1 + i - 1]
    BY <2>1, Slice
  <2>3. \A i \in 1..n - m : m + 1 + i - 1 = m + i
    OBVIOUS
  <2> QED
    BY <2>2, <2>3, Zenon
<1>2. \A i \in 1..Len(q) : /\ q[i].prev = IF i = 1 THEN p ELSE q[i - 1].hash
                           /\ q[i].hash = Append(IF i = 1 THEN p ELSE q[i - 1].hash, q[i].entry)
  BY DEF verifyAuditChainSegment, computeAuditHash
<1> HIDE DEF z
<1>3. ASSUME NEW i \in 1..n - m
      PROVE  /\ z[i].prev = IF i = 1 THEN b ELSE z[i - 1].hash
             /\ z[i].hash = Append(IF i = 1 THEN b ELSE z[i - 1].hash, z[i].entry)
  <2> DEFINE k == m + i
  <2>1. k \in 1..Len(q) /\ (i # 1 => i - 1 \in 1..n - m /\ k # 1 /\ m + (i - 1) = k - 1)
        /\ (i = 1 => k - 1 = m /\ (k = 1 <=> m = 0))
    BY <1>0
  <2>2. z[i] = q[k] /\ (i # 1 => z[i - 1] = q[k - 1])
    <3>1. i # 1 => z[i - 1] = q[m + (i - 1)]
      BY <1>1, <2>1
    <3>2. z[i] = q[k]
      BY <1>1
    <3> HIDE DEF k
    <3> QED
      BY <2>1, <3>1, <3>2
  <2> HIDE DEF k
  <2>3. /\ q[k].prev = IF k = 1 THEN p ELSE q[k - 1].hash
        /\ q[k].hash = Append(IF k = 1 THEN p ELSE q[k - 1].hash, q[k].entry)
    BY <1>2, <2>1
  <2>4. (IF k = 1 THEN p ELSE q[k - 1].hash) = IF i = 1 THEN b ELSE z[i - 1].hash
    BY <2>1, <2>2
  <2> QED
    BY <2>2, <2>3, <2>4
<1> QED
  BY <1>1, <1>3 DEF verifyAuditChainSegment, computeAuditHash, z

-----------------------------------------------------------------------------
(* Transactions that have read, or are rolled back.                        *)

\* The transaction of an actor that has none.
LEMMA IdleTransaction ==
    /\ IdleAct \in Transactions /\ IdleAct.pc = "idle" /\ IdleAct.prev = <<>> /\ IdleAct.ids = <<>>
    /\ <<>> \in Hashes
<1>1. <<>> \in Seq(Entries) /\ <<>> \in Seq(Nat)
  BY EmptySeq
<1>2. /\ IdleAct.pc = "idle" /\ IdleAct.prev = <<>> /\ IdleAct.ids = <<>>
      /\ IdleAct = [pc |-> "idle", prev |-> <<>>, items |-> <<>>, ids |-> <<>>, last |-> 0,
                    lastHash |-> <<>>]
  BY DEF IdleAct
<1> QED
  BY <1>1, <1>2 DEF Transactions, Hashes

\* The newest row.
LEMMA NewestIs ==
    ASSUME TypeOK, IdsRise
    PROVE  /\ NewestId \in Nat /\ NewestId < nextId /\ latestAuditHash \in Hashes
           /\ \A i \in 1..Len(rows) : rows[i].id <= NewestId
           /\ Len(rows) = 0 => NewestId = 0 /\ latestAuditHash = <<>>
           /\ Len(rows) # 0 => /\ Len(rows) \in 1..Len(rows) /\ NewestId = rows[Len(rows)].id
                               /\ latestAuditHash = rows[Len(rows)].hash
<1> DEFINE L == Len(rows)
<1>1. L \in Nat /\ (rows = <<>> <=> L = 0)
  BY RowFacts
<1>2. \A i \in 1..L : rows[i].id \in Nat /\ rows[i].hash \in Hashes
  BY RowFacts
<1>3. NewestId = (IF L = 0 THEN 0 ELSE rows[L].id) /\ latestAuditHash = (IF L = 0 THEN <<>> ELSE rows[L].hash)
  BY <1>1, Zenon DEF NewestId, latestAuditHash
<1>4. /\ \A i, j \in 1..L : i < j => rows[i].id < rows[j].id
      /\ \A i \in 1..L : rows[i].id < nextId
  BY DEF IdsRise
<1>5. nextId \in Nat \ {0}
  BY DEF TypeOK
<1>6. L # 0 => L \in 1..L
  BY <1>1
<1> HIDE DEF L
<1>7. \A i \in 1..L : rows[i].id <= NewestId
  <2> SUFFICES ASSUME NEW i \in 1..L PROVE rows[i].id <= rows[L].id
    BY <1>1, <1>3
  <2> QED
    BY <1>1, <1>2, <1>4, <1>6
<1>8. NewestId \in Nat /\ NewestId < nextId /\ latestAuditHash \in Hashes
  BY <1>2, <1>3, <1>4, <1>5, <1>6, IdleTransaction
<1> QED
  BY <1>3, <1>6, <1>7, <1>8 DEF L

\* A step that draws no id: some actors may be done with theirs.
LEMMA DrawnFewer ==
    ASSUME ChainInv, act' \in [Actors -> Transactions], driver' = driver,
           \A b \in Actors : act'[b].ids = <<>> \/ act'[b] = act[b],
           nextId' = nextId \/ \A b \in Actors : act'[b].ids = <<>>,
           \A b \in Actors : act'[b].ids # <<>> =>
               \A i \in 1..Len(act[b].ids), j \in 1..Len(rows') : rows'[j].id # act[b].ids[i],
           driver = "sqlite" => \A b \in Actors : act'[b].ids = <<>>
    PROVE  IdsDrawn' /\ DrawnLast'
<1>1. ASSUME NEW b \in Actors
      PROVE  /\ act'[b].ids \in Seq(Nat) /\ act'[b].items \in Seq(Entries)
             /\ Len(act'[b].items) \in Nat /\ Len(act'[b].ids) \in Nat
             /\ (act'[b].ids = <<>> <=> Len(act'[b].ids) = 0)
  <2>1. act'[b] \in Transactions
    OBVIOUS
  <2>2. act'[b].ids \in Seq(Nat) /\ act'[b].items \in Seq(Entries)
    BY <2>1 DEF Transactions
  <2> QED
    BY <2>2, EmptySeq, LenProperties
<1>2. ASSUME NEW b \in Actors, act'[b].pc # "insert" PROVE act'[b].ids = <<>>
  BY <1>2 DEF ChainInv, IdsDrawn
<1>3. ASSUME NEW b \in Actors PROVE Len(act'[b].ids) <= Len(act'[b].items)
  <2>1. CASE act'[b].ids = <<>>
    BY <1>1, <2>1
  <2>2. CASE act'[b].ids # <<>>
    <3>1. act'[b] = act[b]
      BY <2>2
    <3> QED
      BY <3>1 DEF ChainInv, IdsDrawn
  <2> QED
    BY <2>1, <2>2
<1>4. ASSUME NEW b \in Actors, NEW i \in 1..Len(act'[b].ids)
      PROVE  /\ 0 < act'[b].ids[i] /\ act'[b].ids[i] < nextId'
             /\ \A j \in 1..Len(act'[b].ids) : i < j => act'[b].ids[i] < act'[b].ids[j]
             /\ \A j \in 1..Len(rows') : rows'[j].id # act'[b].ids[i]
             /\ \A d \in Actors \ {b} : \A j \in 1..Len(act'[d].ids) : act'[d].ids[j] # act'[b].ids[i]
  <2>1. act'[b].ids # <<>>
    BY <1>1, <1>4
  <2>2. act'[b] = act[b] /\ nextId' = nextId
    BY <2>1
  <2>3. /\ 0 < act[b].ids[i] /\ act[b].ids[i] < nextId
        /\ \A j \in 1..Len(act[b].ids) : i < j => act[b].ids[i] < act[b].ids[j]
        /\ \A d \in Actors \ {b} : \A j \in 1..Len(act[d].ids) : act[d].ids[j] # act[b].ids[i]
    BY <1>4, <2>2 DEF ChainInv, IdsDrawn
  <2>4. ASSUME NEW d \in Actors \ {b}, NEW j \in 1..Len(act'[d].ids) PROVE act'[d].ids[j] # act'[b].ids[i]
    <3>1. act'[d].ids # <<>>
      BY <1>1, <2>4
    <3>2. act'[d] = act[d]
      BY <3>1
    <3> QED
      BY <2>2, <2>3, <2>4, <3>2
  <2>5. \A j \in 1..Len(rows') : rows'[j].id # act'[b].ids[i]
    BY <1>4, <2>1, <2>2
  <2> QED
    BY <2>2, <2>3, <2>4, <2>5
<1>5. IdsDrawn'
  BY <1>2, <1>3, <1>4, Zenon DEF IdsDrawn
<1>6. ASSUME driver = "sqlite", NEW b \in Actors, NEW i \in 1..Len(act'[b].ids) PROVE FALSE
  BY <1>1, <1>6
<1>7. DrawnLast'
  BY <1>6, Zenon DEF DrawnLast
<1> QED
  BY <1>5, <1>7

\* A step that changes one actor's transaction, and the next id, only.
LEMMA ActStep ==
    ASSUME ChainInv, NEW a \in Actors, NEW r \in Transactions,
           act' = [act EXCEPT ![a] = r], drawn' \in 0..MaxEntries,
           UNCHANGED <<driver, rows, checkpoint, ver>>,
           \/ nextId' = nextId
           \/ /\ nextId' \in Nat \ {0} /\ checkpoint.id < nextId'
              /\ \A i \in 1..Len(rows) : rows[i].id < nextId'
              /\ ver.pc = "scan" => ver.last < nextId',
           IdsDrawn', DrawnLast',
           r.pc = "insert" => r.items # <<>>,
           r.pc = "delete" => /\ r.last < NewestId
                              /\ \A i \in 1..Len(rows) : rows[i].id <= r.last => ~Recent(rows[i].entry),
           driver = "sqlite" =>
               /\ r.pc # "idle" => \A b \in Actors \ {a} : act[b].pc = "idle"
               /\ r.pc = "insert" => r.prev = latestAuditHash
               /\ r.pc = "delete" => \E n \in 1..Len(rows) :
                    rows[n].id = r.last /\ rows[n].hash = r.lastHash
    PROVE  ChainInv'
<1>0. act \in [Actors -> Transactions] /\ act'[a] = r /\ \A b \in Actors : b # a => act'[b] = act[b]
  BY DEF ChainInv, TypeOK
<1>1. TypeOK'
  <2>1. nextId' \in Nat \ {0}
    BY DEF ChainInv, TypeOK
  <2> QED
    BY <1>0, <2>1 DEF ChainInv, TypeOK
<1>2. IdsRise' /\ ChainIntact' /\ MismatchOnlyFromPrune' /\ VerifiedThrough'
  <2>1. checkpoint.id < nextId' /\ \A i \in 1..Len(rows) : rows[i].id < nextId'
    BY DEF ChainInv, IdsRise
  <2>2. IdsRise'
    BY <2>1 DEF ChainInv, IdsRise
  <2> QED
    BY <2>2 DEF ChainInv, ChainIntact, Chained, MismatchOnlyFromPrune, VerifiedThrough,
         verifyAuditChainSegment
<1>3. NewestId' = NewestId /\ latestAuditHash' = latestAuditHash
  BY DEF NewestId, latestAuditHash
<1>4. VerifiesOn'
  <2>1. ver.pc = "scan" => ver.last < nextId'
    BY DEF ChainInv, VerifiesOn
  <2> QED
    BY <1>3, <2>1 DEF ChainInv, VerifiesOn, AnchorAt
<1>5. WritesSome'
  BY <1>0, Zenon DEF ChainInv, WritesSome
<1>6. PrunesOld'
  <2> SUFFICES ASSUME NEW b \in Actors, act'[b].pc = "delete"
               PROVE  /\ act'[b].last < NewestId
                      /\ driver = "sqlite" => \A i \in 1..Len(rows) :
                           rows[i].id <= act'[b].last => ~Recent(rows[i].entry)
    BY <1>3, Zenon DEF PrunesOld, Recent
  <2>1. CASE b = a
    BY <1>0, <2>1, Zenon
  <2>2. CASE b # a
    BY <1>0, <2>2, Zenon DEF ChainInv, PrunesOld
  <2> QED
    BY <2>1, <2>2
<1>7. OneAtATime'
  <2> SUFFICES ASSUME driver = "sqlite" PROVE OneAtATime'
    BY DEF OneAtATime
  <2>1. \A b, d \in Actors : act'[b].pc # "idle" /\ act'[d].pc # "idle" => b = d
    <3>1. \A b, d \in Actors : act[b].pc # "idle" /\ act[d].pc # "idle" => b = d
      BY DEF ChainInv, OneAtATime
    <3> QED
      BY <1>0, <3>1, Zenon
  <2>2. ASSUME NEW b \in Actors
        PROVE  /\ act'[b].pc = "insert" => act'[b].prev = latestAuditHash
               /\ act'[b].pc = "delete" => \E n \in 1..Len(rows) :
                    rows[n].id = act'[b].last /\ rows[n].hash = act'[b].lastHash
    <3>1. CASE b = a
      BY <1>0, <3>1, Zenon
    <3>2. CASE b # a
      BY <1>0, <3>2, Zenon DEF ChainInv, OneAtATime
    <3> QED
      BY <3>1, <3>2
  <2> QED
    BY <1>3, <2>1, <2>2, Zenon DEF OneAtATime
<1> QED
  BY <1>1, <1>2, <1>4, <1>5, <1>6, <1>7 DEF ChainInv

\* A step that leaves an actor without ids; with SQLite the others have none.
LEMMA ActFresh ==
    ASSUME ChainInv, NEW a \in Actors, NEW r \in Transactions, r.ids = <<>>,
           act' = [act EXCEPT ![a] = r], UNCHANGED <<driver, rows>>,
           driver = "sqlite" => \A b \in Actors \ {a} : act[b].pc = "idle",
           nextId' = nextId \/ driver = "sqlite"
    PROVE  IdsDrawn' /\ DrawnLast'
<1>1. /\ act \in [Actors -> Transactions] /\ act' \in [Actors -> Transactions]
      /\ act'[a] = r /\ \A b \in Actors : b # a => act'[b] = act[b]
  BY DEF ChainInv, TypeOK
<1>2. \A b \in Actors : act'[b].ids = <<>> \/ act'[b] = act[b]
  BY <1>1
<1>3. \A b \in Actors : act[b].pc = "idle" => act[b].ids = <<>>
  BY DEF ChainInv, IdsDrawn
<1>4. driver = "sqlite" => \A b \in Actors : act'[b].ids = <<>>
  BY <1>1, <1>3
<1>5. \A b \in Actors : act'[b].ids # <<>> =>
        \A i \in 1..Len(act[b].ids), j \in 1..Len(rows') : rows'[j].id # act[b].ids[i]
  BY DEF ChainInv, IdsDrawn
<1>6. nextId' = nextId \/ \A b \in Actors : act'[b].ids = <<>>
  BY <1>4
<1> QED
  BY <1>1, <1>2, <1>4, <1>5, <1>6, DrawnFewer

\* A write that has read the latest hash (Create, CreateBatch).
LEMMA WriteBeginKeeps ==
    ASSUME ChainInv, NEW a \in Actors, NEW k \in 1..MaxInsert, NEW kinds \in [1..k -> Kinds],
           NEW f \in Fracs, WriteBegin(a, kinds, f)
    PROVE  ChainInv'
<1>0. MaxEntries \in Nat /\ MaxInsert \in Nat /\ k \in Nat /\ k >= 1 /\ f \in {0, 1}
  BY ChainAssumption
<1>1. kinds \in Seq(Kinds) /\ Len(kinds) = k
  BY <1>0, FunctionIsSeq
<1> DEFINE items == [i \in 1..Len(kinds) |-> [n |-> drawn + i, kind |-> kinds[i], frac |-> f]]
           r == [IdleAct EXCEPT !.pc = "insert", !.prev = latestAuditHash, !.items = items]
<1>2. drawn + k <= MaxEntries /\ drawn' = drawn + k /\ drawn \in 0..MaxEntries
  BY <1>1 DEF WriteBegin, ChainInv, TypeOK
<1>3. items \in Seq(Entries) /\ Len(items) = k
  <2>1. ASSUME NEW i \in 1..k PROVE [n |-> drawn + i, kind |-> kinds[i], frac |-> f] \in Entries
    <3>1. drawn + i \in 1..MaxEntries /\ kinds[i] \in Kinds
      BY <1>0, <1>2
    <3> QED
      BY <1>0, <3>1 DEF Entries
  <2>2. items \in [1..k -> Entries]
    BY <1>1, <2>1
  <2> HIDE DEF items
  <2> QED
    BY <1>0, <2>2, FunctionIsSeq
<1>4. items # <<>>
  BY <1>0, <1>3, EmptySeq
<1>5. act' = [act EXCEPT ![a] = r] /\ UNCHANGED <<driver, rows, nextId, checkpoint, ver>> /\ Free
  BY DEF WriteBegin
<1>6. latestAuditHash \in Hashes
  BY NewestIs DEF ChainInv
<1> HIDE DEF items
<1>7. r \in Transactions /\ r.pc = "insert" /\ r.items = items /\ r.prev = latestAuditHash /\ r.ids = <<>>
  BY <1>3, <1>6, IdleTransaction DEF Transactions, IdleAct
<1>8. driver = "sqlite" => \A b \in Actors : act[b].pc = "idle"
  BY <1>5 DEF Free
<1>9. drawn' \in 0..MaxEntries
  BY <1>0, <1>2
<1> HIDE DEF r
<1>10. IdsDrawn' /\ DrawnLast'
  BY <1>5, <1>7, <1>8, ActFresh
<1> QED
  BY <1>4, <1>5, <1>7, <1>8, <1>9, <1>10, ActStep

\* A transaction that is rolled back.
LEMMA RollbackKeeps == ASSUME ChainInv, NEW a \in Actors, Rollback(a) PROVE ChainInv'
<1>1. /\ act' = [act EXCEPT ![a] = IdleAct] /\ UNCHANGED <<driver, rows, checkpoint, drawn, ver>>
      /\ act[a].pc # "idle"
  BY DEF Rollback
<1>2. drawn' \in 0..MaxEntries
  BY <1>1 DEF ChainInv, TypeOK
<1>3. driver = "sqlite" => \A b \in Actors \ {a} : act[b].pc = "idle"
  BY <1>1 DEF ChainInv, OneAtATime
<1>4. nextId' = nextId \/ (driver = "sqlite" /\ act[a].ids # <<>> /\ nextId' = act[a].ids[1])
  BY DEF Rollback
<1>5. IdsDrawn' /\ DrawnLast'
  BY <1>1, <1>3, <1>4, IdleTransaction, ActFresh
<1>6. ASSUME nextId' # nextId
      PROVE  /\ nextId' \in Nat \ {0} /\ checkpoint.id < nextId'
             /\ \A i \in 1..Len(rows) : rows[i].id < nextId'
             /\ ver.pc = "scan" => ver.last < nextId'
  <2>1. act[a].ids \in Seq(Nat)
    BY DEF ChainInv, TypeOK, Transactions
  <2>2. 1 \in 1..Len(act[a].ids) /\ act[a].ids[1] \in Nat
    BY <1>4, <1>6, <2>1, EmptySeq, LenProperties, ElementOfSeq
  <2>3. 0 < act[a].ids[1]
    BY <2>2 DEF ChainInv, IdsDrawn
  <2> QED
    BY <1>4, <1>6, <2>2, <2>3 DEF ChainInv, DrawnLast
<1> QED
  BY <1>1, <1>2, <1>5, <1>6, IdleTransaction, ActStep

\* An INSERT that draws the id of its next row.
LEMMA WriteInsertKeeps == ASSUME ChainInv, NEW a \in Actors, WriteInsert(a) PROVE ChainInv'
<1> DEFINE old == act[a].ids
           new == Append(old, nextId)
           r == [act[a] EXCEPT !.ids = new]
<1>0. TypeOK /\ IdsRise /\ IdsDrawn /\ DrawnLast
  BY DEF ChainInv
<1>1. /\ act \in [Actors -> Transactions] /\ nextId \in Nat \ {0} /\ checkpoint.id \in Nat
      /\ ver.last \in Nat /\ drawn \in 0..MaxEntries
  BY <1>0 DEF TypeOK, Verifications
<1>2. /\ act[a].pc = "insert" /\ Len(old) < Len(act[a].items) /\ nextId' = nextId + 1
      /\ act' = [act EXCEPT ![a].ids = new] /\ UNCHANGED <<driver, rows, checkpoint, drawn, ver>>
  BY DEF WriteInsert
<1>3. old \in Seq(Nat) /\ act[a].items \in Seq(Entries) /\ act[a] \in Transactions
  BY <1>1 DEF Transactions
<1>4. /\ new \in Seq(Nat) /\ Len(new) = Len(old) + 1 /\ Len(old) \in Nat
      /\ \A i \in 1..Len(old) : new[i] = old[i] /\ old[i] \in Nat
      /\ new[Len(old) + 1] = nextId
  BY <1>1, <1>3, AppendProperties, LenProperties, ElementOfSeq
<1>5. act' = [act EXCEPT ![a] = r]
  BY <1>1, <1>2
<1> HIDE DEF new
<1>6. /\ r \in Transactions /\ r.pc = "insert" /\ r.ids = new /\ r.items = act[a].items
      /\ r.prev = act[a].prev
  BY <1>2, <1>3, <1>4 DEF Transactions
<1> HIDE DEF r
<1>7. act'[a] = r /\ \A b \in Actors : b # a => act'[b] = act[b]
  BY <1>1, <1>5
<1>8. Len(old) < Len(r.items) /\ Len(act[a].items) \in Nat
  BY <1>2, <1>3, <1>6, LenProperties
<1>9. /\ \A i \in 1..Len(rows) : rows[i].id \in Nat /\ rows[i].id < nextId
      /\ checkpoint.id < nextId
  BY <1>0, RowFacts DEF IdsRise
<1>10. ver.pc = "scan" => ver.last < nextId
  BY DEF ChainInv, VerifiesOn
<1> DEFINE n == Len(old)
<1>11. \A i \in 1..n : /\ 0 < old[i] /\ old[i] < nextId
                       /\ \A j \in 1..n : i < j => old[i] < old[j]
                       /\ \A j \in 1..Len(rows) : rows[j].id # old[i]
                       /\ \A b \in Actors \ {a} : \A j \in 1..Len(act[b].ids) : act[b].ids[j] # old[i]
  BY <1>0 DEF IdsDrawn
<1>12. \A b \in Actors : \A j \in 1..Len(act[b].ids) : act[b].ids[j] < nextId /\ act[b].ids[j] \in Nat
  <2> SUFFICES ASSUME NEW b \in Actors, NEW j \in 1..Len(act[b].ids)
               PROVE  act[b].ids[j] < nextId /\ act[b].ids[j] \in Nat
    OBVIOUS
  <2>1. act[b].ids \in Seq(Nat)
    BY <1>1 DEF Transactions
  <2> QED
    BY <1>0, <2>1, ElementOfSeq DEF IdsDrawn
<1>13. \A i \in 1..n + 1 : \/ i \in 1..n /\ new[i] = old[i] /\ old[i] \in Nat
                           \/ i = n + 1 /\ new[i] = nextId
  <2>1. n \in Nat /\ new[n + 1] = nextId /\ \A i \in 1..n : new[i] = old[i] /\ old[i] \in Nat
    BY <1>4
  <2> HIDE DEF n, old
  <2>2. \A i \in 1..n + 1 : i \in 1..n \/ i = n + 1
    BY <2>1
  <2> QED
    BY <2>1, <2>2, Zenon
<1> HIDE DEF old, n
<1>14. ASSUME NEW i \in 1..n + 1
       PROVE  /\ 0 < new[i] /\ new[i] < nextId + 1
              /\ \A j \in 1..n + 1 : i < j => new[i] < new[j]
              /\ \A j \in 1..Len(rows) : rows[j].id # new[i]
              /\ \A b \in Actors \ {a} : \A j \in 1..Len(act[b].ids) : act[b].ids[j] # new[i]
  <2>1. CASE i \in 1..n /\ new[i] = old[i] /\ old[i] \in Nat
    <3>1. 0 < new[i] /\ new[i] < nextId + 1
      BY <1>1, <1>11, <2>1
    <3>2. \A j \in 1..n + 1 : i < j => new[i] < new[j]
      BY <1>1, <1>11, <1>13, <2>1
    <3> QED
      BY <1>11, <2>1, <3>1, <3>2
  <2>2. CASE i = n + 1 /\ new[i] = nextId
    <3>1. \A j \in 1..n + 1 : ~(i < j)
      BY <1>4, <2>2 DEF n
    <3>2. \A j \in 1..Len(rows) : rows[j].id # nextId
      BY <1>1, <1>9
    <3>3. \A b \in Actors \ {a} : \A j \in 1..Len(act[b].ids) : act[b].ids[j] # nextId
      BY <1>1, <1>12
    <3> QED
      BY <1>1, <2>2, <3>1, <3>2, <3>3
  <2> QED
    BY <1>13, <2>1, <2>2
<1>15. Len(r.ids) = n + 1 /\ n \in Nat
  BY <1>4, <1>6 DEF n
<1>16. IdsDrawn'
  <2>1. ASSUME NEW b \in Actors, act'[b].pc # "insert" PROVE act'[b].ids = <<>>
    BY <1>0, <1>6, <1>7, <2>1 DEF IdsDrawn
  <2>2. ASSUME NEW b \in Actors PROVE Len(act'[b].ids) <= Len(act'[b].items)
    <3>1. CASE b = a
      BY <1>6, <1>7, <1>8, <1>15, <3>1 DEF n
    <3>2. CASE b # a
      BY <1>0, <1>7, <3>2 DEF IdsDrawn
    <3> QED
      BY <3>1, <3>2
  <2>3. ASSUME NEW b \in Actors, NEW i \in 1..Len(act'[b].ids)
        PROVE  /\ 0 < act'[b].ids[i] /\ act'[b].ids[i] < nextId'
               /\ \A j \in 1..Len(act'[b].ids) : i < j => act'[b].ids[i] < act'[b].ids[j]
               /\ \A j \in 1..Len(rows') : rows'[j].id # act'[b].ids[i]
               /\ \A d \in Actors \ {b} : \A j \in 1..Len(act'[d].ids) : act'[d].ids[j] # act'[b].ids[i]
    <3>1. CASE b = a
      <4>1. act'[b].ids = new /\ i \in 1..n + 1 /\ Len(act'[b].ids) = n + 1
        BY <1>6, <1>7, <1>15, <2>3, <3>1
      <4>2. \A d \in Actors \ {b} : act'[d] = act[d]
        BY <1>7, <3>1
      <4> QED
        BY <1>2, <1>14, <3>1, <4>1, <4>2
    <3>2. CASE b # a
      <4>1. act'[b] = act[b] /\ i \in 1..Len(act[b].ids)
        BY <1>7, <2>3, <3>2
      <4>2. /\ 0 < act[b].ids[i]
            /\ \A j \in 1..Len(act[b].ids) : i < j => act[b].ids[i] < act[b].ids[j]
            /\ \A j \in 1..Len(rows) : rows[j].id # act[b].ids[i]
            /\ \A d \in Actors \ {b} : \A j \in 1..Len(act[d].ids) : act[d].ids[j] # act[b].ids[i]
        BY <1>0, <4>1 DEF IdsDrawn
      <4>3. act[b].ids[i] < nextId + 1
        BY <1>1, <1>12, <4>1
      <4>4. ASSUME NEW d \in Actors \ {b}, NEW j \in 1..Len(act'[d].ids)
            PROVE  act'[d].ids[j] # act[b].ids[i]
        <5>1. CASE d = a
          <6>1. act'[d].ids = new /\ j \in 1..n + 1
            BY <1>6, <1>7, <1>15, <4>4, <5>1
          <6> QED
            BY <1>14, <3>2, <4>1, <6>1
        <5>2. CASE d # a
          BY <1>7, <4>2, <4>4, <5>2
        <5> QED
          BY <5>1, <5>2
      <4> QED
        BY <1>2, <4>1, <4>2, <4>3, <4>4
    <3> QED
      BY <3>1, <3>2
  <2> QED
    BY <2>1, <2>2, <2>3, Zenon DEF IdsDrawn
<1>17. ASSUME driver = "sqlite" PROVE \A b \in Actors \ {a} : act[b].pc = "idle"
  BY <1>2, <1>17 DEF ChainInv, OneAtATime
<1>18. DrawnLast'
  <2> SUFFICES ASSUME driver = "sqlite", NEW b \in Actors, NEW i \in 1..Len(act'[b].ids)
               PROVE  /\ \A j \in 1..Len(rows) : rows[j].id < act'[b].ids[i]
                      /\ checkpoint.id < act'[b].ids[i]
                      /\ ver.pc = "scan" => ver.last < act'[b].ids[i]
    BY <1>2, Zenon DEF DrawnLast
  <2>1. CASE b = a
    <3>1. act'[b].ids = new /\ i \in 1..n + 1
      BY <1>6, <1>7, <1>15, <2>1
    <3>2. CASE i \in 1..n /\ new[i] = old[i]
      BY <1>0, <2>1, <3>1, <3>2 DEF DrawnLast, old, n
    <3>3. CASE new[i] = nextId
      BY <1>9, <1>10, <3>1, <3>3
    <3> QED
      BY <1>13, <3>1, <3>2, <3>3
  <2>2. CASE b # a
    BY <1>0, <1>7, <2>2 DEF DrawnLast
  <2> QED
    BY <2>1, <2>2
<1>19. /\ nextId' \in Nat \ {0} /\ checkpoint.id < nextId'
       /\ \A i \in 1..Len(rows) : rows[i].id < nextId'
       /\ ver.pc = "scan" => ver.last < nextId'
  <2>1. /\ nextId + 1 \in Nat \ {0} /\ checkpoint.id < nextId + 1
        /\ \A i \in 1..Len(rows) : rows[i].id < nextId + 1
        /\ ver.pc = "scan" => ver.last < nextId + 1
    BY <1>1, <1>9, <1>10
  <2>2. nextId' = nextId + 1
    BY <1>2
  <2> QED
    BY <2>1, <2>2, Zenon
<1>20. r.items # <<>>
  BY <1>2, <1>6 DEF ChainInv, WritesSome
<1>21. driver = "sqlite" => r.prev = latestAuditHash
  BY <1>2, <1>6 DEF ChainInv, OneAtATime
<1>22. drawn' \in 0..MaxEntries
  BY <1>1, <1>2
<1> QED
  BY <1>2, <1>5, <1>6, <1>16, <1>17, <1>18, <1>19, <1>20, <1>21, <1>22, ActStep

-----------------------------------------------------------------------------
(* Batches: prunes and verifications.                                      *)

\* The batches that pruneBatch and VerifyChain read are slices of the table.
LEMMA AfterIs ==
    ASSUME TypeOK, IdsRise, NEW id \in Nat, NEW limit \in Nat \ {0}, NEW bound \in Nat,
           Through(id) <= Through(bound - 1)
    PROVE  \E to \in Nat :
             /\ Through(id) <= to /\ to <= Through(bound - 1)
             /\ After(id, limit, bound) = SubSeq(rows, Through(id) + 1, to)
             /\ Len(After(id, limit, bound)) = to - Through(id)
             /\ \A i \in 1..to - Through(id) : After(id, limit, bound)[i] = rows[Through(id) + i]
             /\ to - Through(id) < limit => to = Through(bound - 1)
<1> DEFINE m == Through(id)
           n == Through(bound - 1)
           L == Len(rows)
           to == IF n - m < limit THEN n ELSE m + limit
           z == SubSeq(rows, m + 1, to)
<1>1. L \in Nat /\ rows \in Seq(Row)
  BY RowFacts
<1>2. m \in 0..L /\ n \in 0..L /\ m <= n
  <2>1. bound - 1 \in Int
    OBVIOUS
  <2> QED
    BY <2>1, ThroughIs
<1>3. After(id, limit, bound) = z
  BY DEF After
<1> HIDE DEF m, n, L
<1>4. to \in Nat /\ m <= to /\ to <= n /\ (to - m < limit => to = n)
  BY <1>1, <1>2
<1> HIDE DEF to
<1>5. /\ m + 1 \in Nat /\ 1 <= m + 1 /\ m + 1 <= to + 1 /\ to <= L
      /\ to - (m + 1) + 1 = to - m
  BY <1>1, <1>2, <1>4
<1>6. Len(z) = to - (m + 1) + 1 /\ \A i \in 1..to - (m + 1) + 1 : z[i] = rows[m + 1 + i - 1]
  BY <1>1, <1>4, <1>5, Slice DEF L
<1>7. \A i \in Nat : m + 1 + i - 1 = m + i
  BY <1>2
<1>8. \A i \in 1..to - m : i \in Nat
  OBVIOUS
<1> HIDE DEF z
<1>9. Len(z) = to - m /\ \A i \in 1..to - m : z[i] = rows[m + i]
  BY <1>5, <1>6, <1>7, <1>8, Zenon
<1> QED
  BY <1>3, <1>4, <1>9 DEF m, n, z

\* A prune that has read its batch (pruneBatch).
LEMMA PruneReadKeeps == ASSUME ChainInv, NEW a \in Actors, PruneRead(a) PROVE ChainInv'
<1> DEFINE batch == PruneCandidates
           cut == Cut(batch)
           last == CHOOSE i \in cut : \A j \in cut : j <= i
           L == Len(rows)
<1>0. TypeOK /\ IdsRise
  BY DEF ChainInv
<1>1. L \in Nat /\ \A i \in 1..L : rows[i].id \in Nat /\ rows[i].hash \in Hashes
  BY <1>0, RowFacts
<1>2. /\ \A i, j \in 1..L : i < j => rows[i].id < rows[j].id
      /\ \A i \in 1..L : 0 < rows[i].id
  BY <1>0 DEF IdsRise
<1>3. NewestId \in Nat
  BY <1>0, NewestIs
<1>4. Through(0) = 0
  <2>1. /\ Through(0) \in 0..L
        /\ \A i \in 1..L : rows[i].id <= 0 <=> i <= Through(0)
    BY <1>0, ThroughIs
  <2>2. \A i \in 1..L : ~(rows[i].id <= 0)
    BY <1>1, <1>2
  <2> HIDE DEF L
  <2>3. Through(0) \in 1..L => FALSE
    BY <1>1, <2>1, <2>2
  <2> QED
    BY <1>1, <2>1, <2>3
<1>5. /\ Through(NewestId - 1) \in 0..L
      /\ \A i \in 1..L : rows[i].id <= NewestId - 1 <=> i <= Through(NewestId - 1)
  <2>1. NewestId - 1 \in Int
    BY <1>3
  <2> QED
    BY <1>0, <2>1, ThroughIs
<1>6. PICK to \in Nat : /\ to <= Through(NewestId - 1) /\ Len(batch) = to
                        /\ \A i \in 1..to : batch[i] = rows[i]
  <2>1. PruneBatch \in Nat \ {0} /\ 0 \in Nat
    BY ChainAssumption
  <2>2. Through(0) <= Through(NewestId - 1)
    BY <1>1, <1>4, <1>5
  <2>3. PICK to \in Nat : /\ to <= Through(NewestId - 1) /\ Len(batch) = to - Through(0)
                          /\ \A i \in 1..to - Through(0) : batch[i] = rows[Through(0) + i]
    BY <1>0, <1>3, <2>1, <2>2, AfterIs DEF PruneCandidates
  <2>4. to - 0 = to /\ \A i \in 1..to : 0 + i = i
    OBVIOUS
  <2>5. Len(batch) = to - 0 /\ \A i \in 1..to - 0 : batch[i] = rows[0 + i]
    BY <1>4, <2>3
  <2>6. Len(batch) = to /\ \A i \in 1..to : batch[i] = rows[i]
    BY <2>4, <2>5
  <2> QED
    BY <2>3, <2>6
<1>7. cut # {} /\ cut \subseteq 1..to
  BY <1>6 DEF PruneRead, Cut
<1> HIDE DEF batch, L
<1>8. last \in cut
  <2>1. \E i \in cut : \A j \in cut : j <= i
    <3> DEFINE T == {to - i : i \in cut}
    <3>1. T \in SUBSET Nat /\ T # {}
      BY <1>7
    <3> HIDE DEF cut
    <3>2. PICK m \in T : \A k \in T : m <= k
      BY <3>1, Least
    <3>3. PICK i \in cut : m = to - i
      BY <3>2
    <3>4. \A j \in cut : to - i <= to - j
      BY <3>2, <3>3
    <3>5. \A j \in cut : j <= i
      BY <1>7, <3>4
    <3> QED
      BY <3>5
  <2> HIDE DEF cut
  <2> QED
    BY <2>1
<1>9. /\ last \in 1..to /\ \A j \in 1..last : ~Recent(batch[j].entry)
  BY <1>7, <1>8 DEF Cut
<1> DEFINE r == [IdleAct EXCEPT !.pc = "delete", !.last = batch[last].id, !.lastHash = batch[last].hash]
<1>10. /\ act' = [act EXCEPT ![a] = r] /\ Free
       /\ UNCHANGED <<driver, rows, nextId, checkpoint, drawn, ver>>
  BY DEF PruneRead, batch
<1> HIDE DEF last, cut
<1>11. last \in 1..L /\ last \in Nat /\ batch[last] = rows[last] /\ rows[last].id <= NewestId - 1
  BY <1>1, <1>5, <1>6, <1>9
<1>12. /\ r \in Transactions /\ r.pc = "delete" /\ r.last = rows[last].id
       /\ r.lastHash = rows[last].hash /\ r.ids = <<>>
  <2>1. rows[last].id \in Nat /\ rows[last].hash \in Hashes
    BY <1>1, <1>11
  <2> QED
    BY <1>11, <2>1, IdleTransaction DEF Transactions, IdleAct
<1>13. r.last < NewestId
  BY <1>1, <1>3, <1>11, <1>12
<1>14. ASSUME NEW i \in 1..L, rows[i].id <= r.last PROVE ~Recent(rows[i].entry)
  <2>1. i <= last
    BY <1>1, <1>2, <1>11, <1>12, <1>14
  <2>2. i \in 1..last /\ i \in 1..to
    BY <1>9, <2>1
  <2> QED
    BY <1>6, <1>9, <2>2
<1>15. drawn' \in 0..MaxEntries
  BY <1>10 DEF ChainInv, TypeOK
<1>16. driver = "sqlite" => \A b \in Actors : act[b].pc = "idle"
  BY <1>10 DEF Free
<1> HIDE DEF r
<1>17. \E n \in 1..Len(rows) : rows[n].id = r.last /\ rows[n].hash = r.lastHash
  BY <1>11, <1>12 DEF L
<1>18. IdsDrawn' /\ DrawnLast'
  BY <1>10, <1>12, <1>16, ActFresh
<1> QED
  BY <1>10, <1>12, <1>13, <1>14, <1>15, <1>16, <1>17, <1>18, ActStep DEF L

\* A step of a verification.
LEMMA VerStep ==
    ASSUME ChainInv, ver' \in Verifications, UNCHANGED <<driver, rows, nextId, checkpoint, drawn, act>>,
           Free, VerifiesOn', MismatchOnlyFromPrune', VerifiedThrough'
    PROVE  ChainInv'
<1>1. TypeOK'
  BY DEF ChainInv, TypeOK
<1>2. NewestId' = NewestId /\ latestAuditHash' = latestAuditHash
  BY DEF NewestId, latestAuditHash
<1>3. IdsRise' /\ ChainIntact' /\ WritesSome'
  BY DEF ChainInv, IdsRise, ChainIntact, Chained, verifyAuditChainSegment, WritesSome
<1>4. PrunesOld'
  BY <1>2, Zenon DEF ChainInv, PrunesOld, Recent
<1>5. OneAtATime'
  BY <1>2, Zenon DEF ChainInv, OneAtATime
<1>6. IdsDrawn' /\ DrawnLast'
  <2>1. act' \in [Actors -> Transactions] /\ act' = act
    BY DEF ChainInv, TypeOK
  <2>2. driver = "sqlite" => \A b \in Actors : act[b].ids = <<>>
    BY DEF Free, ChainInv, IdsDrawn
  <2>3. \A b \in Actors : act'[b].ids # <<>> =>
          \A i \in 1..Len(act[b].ids), j \in 1..Len(rows') : rows'[j].id # act[b].ids[i]
    BY DEF ChainInv, IdsDrawn
  <2> QED
    BY <2>1, <2>2, <2>3, DrawnFewer
<1> QED
  BY <1>1, <1>3, <1>4, <1>5, <1>6 DEF ChainInv

\* A verification that starts at the checkpoint (VerifyChain).
LEMMA VerifyStartKeeps == ASSUME ChainInv, VerifyStart PROVE ChainInv'
<1>0. TypeOK /\ IdsRise
  BY DEF ChainInv
<1> DEFINE v == [pc |-> "scan", prev |-> checkpoint.hash, last |-> checkpoint.id,
                 newest |-> NewestId, pruned |-> FALSE]
<1>1. ver' = v /\ Free /\ UNCHANGED <<driver, rows, nextId, checkpoint, drawn, act>>
  BY DEF VerifyStart
<1>2. NewestId \in Nat /\ NewestId <= NewestId
  BY <1>0, NewestIs
<1>3. /\ checkpoint.id \in Nat /\ checkpoint.hash \in Hashes /\ checkpoint.id < nextId
      /\ Len(rows) \in Nat /\ \A i \in 1..Len(rows) : rows[i].id \in Nat
      /\ driver = "sqlite" => \A i \in 1..Len(rows) : checkpoint.id < rows[i].id
  BY <1>0, RowFacts DEF TypeOK, IdsRise
<1>4. v \in Verifications
  BY <1>2, <1>3 DEF Verifications
<1>5. /\ v.pc = "scan" /\ v.prev = checkpoint.hash /\ v.last = checkpoint.id
      /\ v.newest = NewestId
  OBVIOUS
<1> HIDE DEF v
<1>6. NewestId' = NewestId
  BY <1>1 DEF NewestId
<1>7. VerifiesOn'
  <2>1. /\ 0 \in 0..Len(rows)
        /\ driver = "sqlite" => \A i \in 1..Len(rows) : rows[i].id <= checkpoint.id <=> i <= 0
    BY <1>3
  <2>2. v.prev = (AnchorAt(0))'
    BY <1>1, <1>5 DEF AnchorAt
  <2> QED
    BY <1>1, <1>2, <1>3, <1>5, <1>6, <2>1, <2>2 DEF VerifiesOn
<1>8. MismatchOnlyFromPrune' /\ VerifiedThrough'
  BY <1>1, <1>5 DEF MismatchOnlyFromPrune, VerifiedThrough
<1> QED
  BY <1>1, <1>4, <1>7, <1>8, VerStep

\* A verification that reads its next batch (VerifyChain).
LEMMA VerifyScanKeeps == ASSUME ChainInv, VerifyScan PROVE ChainInv'
<1> DEFINE batch == After(ver.last, VerifyBatch, nextId)
           L == Len(rows)
           m == Through(ver.last)
<1>0. TypeOK /\ IdsRise
  BY DEF ChainInv
<1>1. /\ L \in Nat /\ rows \in Seq(Row)
      /\ \A i \in 1..L : rows[i].id \in Nat /\ rows[i].hash \in Hashes
  BY <1>0, RowFacts
<1>2. /\ \A i, j \in 1..L : i < j => rows[i].id < rows[j].id
      /\ \A i \in 1..L : rows[i].id < nextId
      /\ nextId \in Nat \ {0}
  BY <1>0 DEF IdsRise, TypeOK
<1>3. /\ ver \in Verifications /\ ver.prev \in Hashes /\ ver.last \in Nat /\ ver.newest \in Nat
      /\ ver.pc = "scan"
  BY DEF ChainInv, TypeOK, Verifications, VerifyScan
<1>4. /\ ver.newest <= NewestId /\ ver.last < nextId
      /\ driver = "sqlite" /\ ~ver.pruned => \E n \in 0..L :
            /\ ver.prev = AnchorAt(n)
            /\ \A i \in 1..L : rows[i].id <= ver.last <=> i <= n
  BY <1>3 DEF ChainInv, VerifiesOn
<1>5. /\ NewestId \in Nat /\ (L = 0 => NewestId = 0)
      /\ L # 0 => L \in 1..L /\ NewestId = rows[L].id
  BY <1>0, NewestIs
<1>6. m \in 0..L /\ \A i \in 1..L : rows[i].id <= ver.last <=> i <= m
  <2>1. ver.last \in Int
    BY <1>3
  <2> QED
    BY <1>0, <2>1, ThroughIs
<1>7. Through(nextId - 1) = L
  <2> DEFINE t == Through(nextId - 1)
  <2>1. nextId - 1 \in Int
    BY <1>2
  <2>2. t \in 0..L /\ \A i \in 1..L : rows[i].id <= nextId - 1 <=> i <= t
    BY <1>0, <2>1, ThroughIs
  <2> HIDE DEF t, L
  <2>3. \A i \in 1..L : rows[i].id <= nextId - 1
    BY <1>1, <1>2
  <2>4. L # 0 => L <= t
    BY <1>5, <2>2, <2>3
  <2>5. t = L
    BY <1>1, <2>2, <2>4
  <2> QED
    BY <2>5 DEF t, L
<1>8. PICK to \in Nat : /\ m <= to /\ to <= L /\ batch = SubSeq(rows, m + 1, to)
                        /\ Len(batch) = to - m /\ \A i \in 1..to - m : batch[i] = rows[m + i]
                        /\ to - m < VerifyBatch => to = L
  <2>1. VerifyBatch \in Nat \ {0} /\ nextId \in Nat
    BY <1>2, ChainAssumption
  <2>2. m <= Through(nextId - 1)
    BY <1>1, <1>6, <1>7
  <2>3. PICK to \in Nat : /\ m <= to /\ to <= Through(nextId - 1) /\ batch = SubSeq(rows, m + 1, to)
                          /\ Len(batch) = to - m /\ \A i \in 1..to - m : batch[i] = rows[m + i]
                          /\ to - m < VerifyBatch => to = Through(nextId - 1)
    <3> DEFINE id == ver.last
               bound == nextId
    <3>1. id \in Nat /\ bound \in Nat /\ Through(id) <= Through(bound - 1)
      BY <1>3, <2>1, <2>2
    <3> HIDE DEF id, bound
    <3>2. \E to \in Nat :
             /\ Through(id) <= to /\ to <= Through(bound - 1)
             /\ After(id, VerifyBatch, bound) = SubSeq(rows, Through(id) + 1, to)
             /\ Len(After(id, VerifyBatch, bound)) = to - Through(id)
             /\ \A i \in 1..to - Through(id) : After(id, VerifyBatch, bound)[i] = rows[Through(id) + i]
             /\ to - Through(id) < VerifyBatch => to = Through(bound - 1)
      BY <1>0, <2>1, <3>1, AfterIs
    <3> QED
      BY <3>2, Zenon DEF id, bound
  <2> QED
    BY <1>7, <2>3
<1>9. /\ UNCHANGED <<driver, rows, nextId, checkpoint, drawn, act>> /\ Free
      /\ ver' = IF batch = <<>> THEN [ver EXCEPT !.pc = "valid"]
                  ELSE IF ~verifyAuditChainSegment(ver.prev, batch)
                  THEN [ver EXCEPT !.pc = "invalid"]
                  ELSE [ver EXCEPT !.pc = IF LastBatch(batch) THEN "valid" ELSE "scan",
                                   !.prev = batch[Len(batch)].hash,
                                   !.last = batch[Len(batch)].id]
  BY DEF VerifyScan
<1>10. NewestId' = NewestId
  BY <1>9 DEF NewestId
<1>11. batch \in Seq(Row)
  <2>1. m + 1 \in Nat /\ 1 <= m + 1 /\ m + 1 <= to + 1
    BY <1>6, <1>8
  <2> QED
    BY <1>1, <1>8, <2>1, Slice
<1>12. VerifyBatch \in Nat \ {0}
  BY ChainAssumption
<1> HIDE DEF batch, L, m
<1>13. CASE batch = <<>>
  <2> DEFINE v == [ver EXCEPT !.pc = "valid"]
  <2>1. ver' = v
    BY <1>9, <1>13
  <2>2. v \in Verifications /\ v.pc = "valid" /\ v.last = ver.last /\ v.newest = ver.newest
    BY <1>3 DEF Verifications
  <2> HIDE DEF v
  <2>3. to - m = 0
    BY <1>8, <1>11, <1>13, EmptySeq
  <2>4. to = L /\ m = L
    BY <1>1, <1>6, <1>8, <1>12, <2>3
  <2>5. ver.newest <= ver.last
    <3>1. L # 0 => rows[L].id <= ver.last
      BY <1>5, <1>6, <1>1, <2>4
    <3> QED
      BY <1>1, <1>3, <1>4, <1>5, <3>1
  <2>6. VerifiesOn' /\ MismatchOnlyFromPrune'
    BY <2>1, <2>2 DEF VerifiesOn, MismatchOnlyFromPrune
  <2>7. VerifiedThrough'
    BY <1>3, <2>1, <2>2, <2>5 DEF VerifiedThrough
  <2> QED
    BY <1>9, <2>1, <2>2, <2>6, <2>7, VerStep
<1>14. CASE batch # <<>> /\ ~verifyAuditChainSegment(ver.prev, batch)
  <2> DEFINE v == [ver EXCEPT !.pc = "invalid"]
  <2>1. ver' = v
    BY <1>9, <1>14
  <2>2. v \in Verifications /\ v.pc = "invalid"
    BY <1>3 DEF Verifications
  <2>3. v.pruned = ver.pruned
    BY <1>3, Zenon DEF Verifications
  <2> HIDE DEF v
  <2>4. driver = "sqlite" => ver.pruned
    <3> SUFFICES ASSUME driver = "sqlite", ~ver.pruned PROVE FALSE
      OBVIOUS
    <3>1. PICK n \in 0..L : /\ ver.prev = AnchorAt(n)
                            /\ \A i \in 1..L : rows[i].id <= ver.last <=> i <= n
      BY <1>4
    <3>2. n = m
      <4>1. n < m => m \in 1..L
        BY <1>1, <1>6
      <4>2. m < n => n \in 1..L
        BY <1>1, <1>6
      <4> QED
        BY <1>1, <1>6, <3>1, <4>1, <4>2
    <3>3. verifyAuditChainSegment(checkpoint.hash, rows)
      BY DEF ChainInv, ChainIntact, Chained
    <3>4. m \in Nat /\ m <= to /\ to <= Len(rows)
      BY <1>1, <1>6, <1>8 DEF L
    <3>5. verifyAuditChainSegment(IF m = 0 THEN checkpoint.hash ELSE rows[m].hash, SubSeq(rows, m + 1, to))
      BY <1>1, <3>3, <3>4, SegmentSlice
    <3>6. verifyAuditChainSegment(AnchorAt(m), batch)
      BY <1>8, <3>5 DEF AnchorAt
    <3> QED
      BY <1>14, <3>1, <3>2, <3>6
  <2>5. VerifiesOn' /\ VerifiedThrough'
    BY <2>1, <2>2 DEF VerifiesOn, VerifiedThrough
  <2>6. MismatchOnlyFromPrune'
    BY <1>9, <2>1, <2>3, <2>4, Zenon DEF MismatchOnlyFromPrune
  <2> QED
    BY <1>9, <2>1, <2>2, <2>5, <2>6, VerStep
<1>15. CASE batch # <<>> /\ verifyAuditChainSegment(ver.prev, batch)
  <2> DEFINE pc == IF LastBatch(batch) THEN "valid" ELSE "scan"
             v == [ver EXCEPT !.pc = pc, !.prev = batch[Len(batch)].hash, !.last = batch[Len(batch)].id]
  <2>1. ver' = v
    BY <1>9, <1>15
  <2>2. Len(batch) # 0 /\ to \in 1..L /\ batch[Len(batch)] = rows[to] /\ Len(batch) = to - m
    <3>1. Len(batch) # 0 /\ Len(batch) = to - m
      BY <1>8, <1>11, <1>15, EmptySeq
    <3>2. to - m \in 1..to - m /\ m + (to - m) = to /\ to \in 1..L
      BY <1>1, <1>6, <1>8, <3>1
    <3>3. batch[to - m] = rows[m + (to - m)]
      BY <1>8, <3>2, Zenon
    <3> QED
      BY <3>1, <3>2, <3>3
  <2>3. rows[to].id \in Nat /\ rows[to].hash \in Hashes /\ rows[to].id < nextId
    BY <1>1, <1>2, <2>2
  <2>4. pc \in {"valid", "scan"} /\ (pc = "valid" => to = L)
    BY <1>8, <2>2 DEF LastBatch
  <2> HIDE DEF pc
  <2>5. /\ v \in Verifications /\ v.pc = pc /\ v.last = rows[to].id /\ v.prev = rows[to].hash
        /\ v.newest = ver.newest
    BY <1>3, <2>2, <2>3, <2>4 DEF Verifications
  <2> HIDE DEF v
  <2>6. VerifiesOn'
    <3>1. to \in 0..L /\ \A i \in 1..L : rows[i].id <= rows[to].id <=> i <= to
      BY <1>1, <1>2, <2>2
    <3>2. v.prev = AnchorAt(to)'
      <4>1. to # 0
        BY <2>2
      <4> QED
        BY <1>9, <2>5, <4>1 DEF AnchorAt
    <3>3. v.newest <= NewestId /\ v.last < nextId
      BY <1>4, <2>3, <2>5
    <3>4. \E n \in 0..L : /\ v.prev = AnchorAt(n)'
                          /\ \A i \in 1..L : rows[i].id <= v.last <=> i <= n
      BY <2>5, <3>1, <3>2
    <3> QED
      BY <1>9, <1>10, <2>1, <3>3, <3>4, Zenon DEF VerifiesOn, L
  <2>7. MismatchOnlyFromPrune'
    BY <2>1, <2>4, <2>5 DEF MismatchOnlyFromPrune
  <2>8. VerifiedThrough'
    <3>1. pc = "valid" => rows[to].id = NewestId
      BY <1>5, <1>1, <2>2, <2>4
    <3>2. v.pc = "valid" => v.last >= v.newest
      BY <1>3, <1>4, <1>5, <2>5, <3>1
    <3> QED
      BY <2>1, <3>2 DEF VerifiedThrough
  <2> QED
    BY <1>9, <2>1, <2>5, <2>6, <2>7, <2>8, VerStep
<1> QED
  BY <1>13, <1>14, <1>15

-----------------------------------------------------------------------------
(* Rows in the order of their ids.                                         *)

\* The members of a set of positions are numbered by their rank, in order.
LEMMA Ranks ==
    ASSUME NEW L \in Nat, NEW Q \in SUBSET (1..L)
    PROVE  LET R(q) == Cardinality({k \in Q : k <= q})
               N == Cardinality(Q)
           IN  /\ N \in Nat
               /\ \A q \in Q : R(q) \in 1..N
               /\ \A q, p \in Q : q < p => R(q) < R(p)
               /\ \A i \in 1..N : \E q \in Q : R(q) = i
<1> DEFINE U(q) == {k \in Q : k <= q}
           R(q) == Cardinality(U(q))
           N == Cardinality(Q)
<1>0. \A q \in Q : q \in Nat /\ q >= 1 /\ q <= L
  OBVIOUS
<1>1. IsFiniteSet(Q) /\ N \in Nat
  <2>1. IsFiniteSet(1..L)
    BY FS_Interval
  <2>2. IsFiniteSet(Q)
    BY <2>1, FS_Subset
  <2> QED
    BY <2>2, FS_CardinalityType
<1>2. ASSUME NEW q PROVE IsFiniteSet(U(q)) /\ R(q) \in Nat /\ R(q) <= N /\ U(q) \subseteq Q
  <2>1. U(q) \subseteq Q
    OBVIOUS
  <2> HIDE DEF U
  <2>2. IsFiniteSet(U(q)) /\ R(q) <= N
    BY <1>1, <2>1, FS_Subset
  <2>3. R(q) \in Nat
    BY <2>2, FS_CardinalityType
  <2> QED
    BY <2>1, <2>2, <2>3
<1>3. R(0) = 0
  <2>0. \A k \in Q : ~(k <= 0)
    BY <1>0
  <2>1. U(0) = {}
    BY <2>0, Zenon
  <2> QED
    BY <2>1, FS_EmptySet
<1>4. R(L) = N
  <2>1. U(L) = Q
    BY <1>0
  <2> QED
    BY <2>1
<1>5. ASSUME NEW m \in Nat, m # 0 PROVE R(m) = IF m \in Q THEN R(m - 1) + 1 ELSE R(m - 1)
  <2>1. CASE m \in Q
    <3>0. \A k \in Q : k <= m <=> k <= m - 1 \/ k = m
      BY <1>0
    <3>1. U(m) = U(m - 1) \cup {m}
      <4>1. U(m) \subseteq U(m - 1) \cup {m}
        BY <3>0, Zenon
      <4>2. U(m - 1) \cup {m} \subseteq U(m)
        BY <2>1, <3>0, Zenon
      <4> QED
        BY <4>1, <4>2, Zenon
    <3>2. m \notin U(m - 1)
      BY <1>5
    <3> HIDE DEF U
    <3>3. Cardinality(U(m - 1) \cup {m}) = Cardinality(U(m - 1)) + 1
      BY <1>2, <3>2, FS_AddElement
    <3> QED
      BY <2>1, <3>1, <3>3
  <2>2. CASE m \notin Q
    <3>0. \A k \in Q : k <= m <=> k <= m - 1
      BY <1>0, <2>2
    <3>1. U(m) = U(m - 1)
      BY <3>0, Zenon
    <3> QED
      BY <2>2, <3>1
  <2> QED
    BY <2>1, <2>2
<1>6. ASSUME NEW q \in Q, NEW p \in Q, q < p PROVE R(q) < R(p)
  <2>0. p <= p /\ ~(p <= q) /\ \A k \in Q : k <= q => k <= p
    BY <1>0, <1>6
  <2>1. U(q) \subseteq U(p) /\ p \in U(p) /\ p \notin U(q)
    BY <2>0, Zenon
  <2> HIDE DEF U
  <2>2. U(q) # U(p)
    BY <2>1
  <2>3. R(q) < R(p)
    <3>1. IsFiniteSet(U(p))
      BY <1>2
    <3>2. Cardinality(U(q)) <= Cardinality(U(p)) /\ (Cardinality(U(q)) = Cardinality(U(p)) => U(q) = U(p))
      BY <2>1, <3>1, FS_Subset
    <3> QED
      BY <1>2, <2>2, <3>2
  <2> QED
    BY <2>3
<1>7. ASSUME NEW q \in Q PROVE R(q) \in 1..N
  <2>1. q \in U(q)
    BY <1>0
  <2> HIDE DEF U
  <2>2. U(q) # {}
    BY <2>1
  <2>3. R(q) # 0
    BY <1>2, <2>2, FS_EmptySet
  <2> QED
    BY <1>1, <1>2, <2>3
<1> HIDE DEF U
<1>8. ASSUME NEW i \in 1..N PROVE \E q \in Q : R(q) = i
  <2> DEFINE T == {m \in Nat : i <= R(m)}
  <2>1. L \in T /\ T \in SUBSET Nat
    BY <1>1, <1>4
  <2>2. PICK m \in T : \A k \in T : m <= k
    BY <2>1, Least
  <2>3. m \in Nat /\ i <= R(m) /\ i \in Nat /\ i >= 1
    BY <1>1, <2>2
  <2>4. m # 0
    BY <1>3, <2>3
  <2>5. m - 1 \in Nat /\ ~(i <= R(m - 1))
    <3>1. m - 1 \in Nat /\ ~(m <= m - 1)
      BY <2>3, <2>4
    <3> QED
      BY <2>2, <3>1
  <2>6. R(m) \in Nat /\ R(m - 1) \in Nat
    BY <1>2
  <2>7. m \in Q /\ R(m) = i
    BY <1>5, <2>3, <2>4, <2>5, <2>6
  <2> QED
    BY <2>7
<1> QED
  BY <1>1, <1>6, <1>7, <1>8 DEF U

\* Rows with ids of their own, put in order: all of them, ids rising.
LEMMA ByIdIs ==
    ASSUME NEW B \in SUBSET Row, NEW K \in Nat, \A r \in B : r.id \in 1..K,
           \A r, t \in B : r.id = t.id => r = t
    PROVE  /\ ById(B) \in Seq(Row) /\ Len(ById(B)) \in Nat
           /\ \A i \in 1..Len(ById(B)) : ById(B)[i] \in B
           /\ \A i, j \in 1..Len(ById(B)) : i < j => ById(B)[i].id < ById(B)[j].id
           /\ \A r \in B : \E i \in 1..Len(ById(B)) : ById(B)[i] = r
<1> DEFINE Q == Ids(B)
           R(q) == Cardinality({k \in Q : k <= q})
           N == Cardinality(Q)
           At(i) == CHOOSE r \in B : R(r.id) = i
           z == ById(B)
<1>1. Q \in SUBSET (1..K) /\ (\A r \in B : r.id \in Q) /\ \A q \in Q : \E r \in B : r.id = q
  BY DEF Ids
<1>2. z = [i \in 1..N |-> At(i)]
  BY DEF ById
<1> HIDE DEF Q
<1>3. /\ N \in Nat
      /\ \A q \in Q : R(q) \in 1..N
      /\ \A q, p \in Q : q < p => R(q) < R(p)
      /\ \A i \in 1..N : \E q \in Q : R(q) = i
  BY <1>1, Ranks, Zenon
<1> HIDE DEF R, N
<1>4. \A i \in 1..N : At(i) \in B /\ R(At(i).id) = i
  <2> SUFFICES ASSUME NEW i \in 1..N PROVE At(i) \in B /\ R(At(i).id) = i
    OBVIOUS
  <2>1. \E r \in B : R(r.id) = i
    BY <1>1, <1>3, Zenon
  <2> QED
    BY <2>1, Zenon
<1> HIDE DEF At
<1>5. z \in [1..N -> Row] /\ \A i \in 1..N : z[i] = At(i)
  BY <1>2, <1>4
<1> HIDE DEF z
<1>6. z \in Seq(Row) /\ Len(z) = N
  BY <1>3, <1>5, FunctionIsSeq
<1>7. \A q, p \in Q : R(q) < R(p) => q < p
  <2> SUFFICES ASSUME NEW q \in Q, NEW p \in Q, R(q) < R(p) PROVE q < p
    OBVIOUS
  <2>1. q \in Nat /\ p \in Nat /\ R(q) \in Nat /\ R(p) \in Nat
    BY <1>1, <1>3
  <2>2. ~(p < q) /\ p # q
    BY <1>3, <2>1
  <2> QED
    BY <2>1, <2>2
<1>8. ASSUME NEW i \in 1..N, NEW j \in 1..N, i < j PROVE z[i].id < z[j].id
  BY <1>1, <1>4, <1>5, <1>7, <1>8
<1>9. ASSUME NEW r \in B PROVE \E i \in 1..N : z[i] = r
  <2> DEFINE i == R(r.id)
             t == At(i)
  <2>1. i \in 1..N /\ t \in B /\ R(t.id) = i /\ z[i] = t
    BY <1>1, <1>3, <1>4, <1>5
  <2>2. r.id \in Q /\ t.id \in Q /\ R(t.id) = R(r.id)
    BY <1>1, <2>1
  <2> HIDE DEF i, t
  <2>3. R(t.id) \in Nat /\ r.id \in Nat /\ t.id \in Nat
    <3>1. R(t.id) \in 1..N
      BY <1>3, <2>2, Zenon
    <3>2. R(t.id) \in Nat
      BY <1>3, <3>1
    <3>3. r.id \in 1..K /\ t.id \in 1..K
      BY <1>1, <2>2
    <3> QED
      BY <3>2, <3>3
  <2>4. ~(R(t.id) < R(r.id)) /\ ~(R(r.id) < R(t.id))
    BY <2>2, <2>3
  <2>5. ~(t.id < r.id) /\ ~(r.id < t.id)
    BY <1>3, <2>2, <2>4, Zenon
  <2>6. t.id = r.id
    BY <2>3, <2>5
  <2> QED
    BY <2>1, <2>6
<1> QED
  BY <1>3, <1>4, <1>5, <1>6, <1>8, <1>9 DEF z

\* The ids of these rows are numbers that rise.
Rising(q) == /\ \A i \in 1..Len(q) : q[i].id \in Nat
             /\ \A i, j \in 1..Len(q) : i < j => q[i].id < q[j].id

\* Of two sequences with the same rows and rising ids one goes on like the other.
LEMMA RisingAlike ==
    ASSUME NEW q \in Seq(Row), NEW z \in Seq(Row), Rising(q), Rising(z),
           \A i \in 1..Len(q) : \E j \in 1..Len(z) : z[j] = q[i],
           \A j \in 1..Len(z) : \E i \in 1..Len(q) : q[i] = z[j]
    PROVE  q = z
<1> DEFINE L == Len(q)
           M == Len(z)
           Both(i) == i \in 1..L /\ i \in 1..M /\ q[i] = z[i]
           T == {i \in Nat : i >= 1 /\ ~Both(i) /\ (i <= L \/ i <= M)}
<1>0. L \in Nat /\ M \in Nat
  BY LenProperties
<1>1. /\ \A i \in 1..L : q[i].id \in Nat
      /\ \A i, j \in 1..L : i < j => q[i].id < q[j].id
      /\ \A i \in 1..M : z[i].id \in Nat
      /\ \A i, j \in 1..M : i < j => z[i].id < z[j].id
  BY DEF Rising
<1>2. /\ \A i \in 1..L : \E j \in 1..M : z[j] = q[i]
      /\ \A j \in 1..M : \E i \in 1..L : q[i] = z[j]
  OBVIOUS
<1> HIDE DEF L, M
<1>3. ASSUME NEW x \in Nat, x >= 1, x <= L \/ x <= M PROVE Both(x)
  <2> SUFFICES ASSUME ~Both(x) PROVE FALSE
    OBVIOUS
  <2>1. T \in SUBSET Nat /\ T # {}
    BY <1>3
  <2>2. PICK m \in T : \A k \in T : m <= k
    BY <2>1, Least
  <2>3. m \in Nat /\ m >= 1 /\ ~Both(m) /\ (m <= L \/ m <= M)
    BY <2>2
  <2>4. \A i \in Nat : i >= 1 /\ i < m => Both(i)
    <3> SUFFICES ASSUME NEW i \in Nat, i >= 1, i < m PROVE Both(i)
      OBVIOUS
    <3>1. i \notin T
      BY <2>2, <2>3
    <3>2. i <= L \/ i <= M
      BY <1>0, <2>3
    <3> QED
      BY <3>1, <3>2
  <2>5. ASSUME m <= L PROVE m <= M /\ ~(q[m].id < z[m].id)
    <3>1. m \in 1..L
      BY <1>0, <2>3, <2>5
    <3>2. PICK j \in 1..M : z[j] = q[m]
      BY <1>2, <3>1
    <3>3. ~(j < m)
      <4> SUFFICES ASSUME j < m PROVE FALSE
        OBVIOUS
      <4>1. j \in 1..L /\ q[j] = z[j]
        BY <1>0, <2>4
      <4>2. q[j] = q[m] /\ q[j].id < q[m].id
        BY <1>1, <3>1, <3>2, <4>1, Zenon
      <4> QED
        BY <1>1, <3>1, <4>2
    <3>4. m \in 1..M
      BY <1>0, <2>3, <3>3
    <3>5. ~(q[m].id < z[m].id)
      BY <1>0, <1>1, <3>2, <3>3, <3>4
    <3> QED
      BY <1>0, <3>4, <3>5
  <2>6. ASSUME m <= M PROVE m <= L /\ ~(z[m].id < q[m].id)
    <3>1. m \in 1..M
      BY <1>0, <2>3, <2>6
    <3>2. PICK j \in 1..L : q[j] = z[m]
      BY <1>2, <3>1
    <3>3. ~(j < m)
      <4> SUFFICES ASSUME j < m PROVE FALSE
        OBVIOUS
      <4>1. j \in 1..M /\ q[j] = z[j]
        BY <1>0, <2>4
      <4>2. z[j] = z[m] /\ z[j].id < z[m].id
        BY <1>1, <3>1, <3>2, <4>1, Zenon
      <4> QED
        BY <1>1, <3>1, <4>2
    <3>4. m \in 1..L
      BY <1>0, <2>3, <3>3
    <3>5. ~(z[m].id < q[m].id)
      BY <1>0, <1>1, <3>2, <3>3, <3>4
    <3> QED
      BY <1>0, <3>4, <3>5
  <2>7. m \in 1..L /\ m \in 1..M /\ q[m].id = z[m].id
    <3>1. m \in 1..L /\ m \in 1..M
      BY <1>0, <2>3, <2>5, <2>6
    <3> QED
      BY <1>1, <2>5, <2>6, <3>1, <1>0
  <2>8. PICK j \in 1..M : z[j] = q[m]
    BY <1>2, <2>7
  <2>9. j = m
    BY <1>0, <1>1, <2>7, <2>8
  <2> QED
    BY <2>3, <2>7, <2>8, <2>9
<1> HIDE DEF Both
<1>4. \A i \in 1..L : Both(i)
  BY <1>0, <1>3
<1>5. \A i \in 1..M : Both(i)
  BY <1>0, <1>3
<1>6. L = M
  <2>1. L # 0 => L \in 1..L
    BY <1>0
  <2>2. M # 0 => M \in 1..M
    BY <1>0
  <2>3. (L # 0 => L \in 1..M) /\ (M # 0 => M \in 1..L)
    BY <1>4, <1>5, <2>1, <2>2 DEF Both
  <2> QED
    BY <1>0, <2>3
<1>7. \A i \in 1..L : q[i] = z[i]
  BY <1>4 DEF Both
<1> QED
  BY <1>6, <1>7, SeqEqual DEF L, M

-----------------------------------------------------------------------------
(* Steps that change the table: inserts, deletions, compactions.           *)

\* The actors after one of them is done: with SQLite no transaction is left.
LEMMA ActDone ==
    ASSUME ChainInv, NEW a \in Actors, act[a].pc # "idle", act' = [act EXCEPT ![a] = IdleAct]
    PROVE  /\ act' \in [Actors -> Transactions] /\ act'[a].pc = "idle"
           /\ \A b \in Actors : act'[b].pc # "idle" => act'[b] = act[b]
           /\ driver = "sqlite" => \A b \in Actors : act'[b].pc = "idle"
           /\ \A b \in Actors : act'[b].ids = <<>> \/ (b # a /\ act'[b] = act[b])
           /\ driver = "sqlite" => \A b \in Actors : act'[b].ids = <<>>
<1>1. act \in [Actors -> Transactions] /\ act'[a] = IdleAct /\ \A b \in Actors : b # a => act'[b] = act[b]
  BY DEF ChainInv, TypeOK
<1>2. act' \in [Actors -> Transactions] /\ IdleAct.pc = "idle" /\ IdleAct.ids = <<>>
  BY <1>1, IdleTransaction
<1>3. driver = "sqlite" => \A b \in Actors : act[b].pc # "idle" => b = a
  BY DEF ChainInv, OneAtATime
<1>4. \A b \in Actors : act[b].pc = "idle" => act[b].ids = <<>>
  BY DEF ChainInv, IdsDrawn
<1>5. driver = "sqlite" => \A b \in Actors : act'[b].ids = <<>>
  BY <1>1, <1>2, <1>3, <1>4, Zenon
<1> QED
  BY <1>1, <1>2, <1>3, <1>5, Zenon

\* A write that commits: its rows are in the table, in their place by id, and
\* with SQLite after all others (Create, CreateBatch).
LEMMA WriteCommitIs ==
    ASSUME ChainInv, NEW a \in Actors, WriteCommit(a)
    PROVE  \E c \in Seq(Row) :
             /\ Len(c) = Len(act[a].ids) /\ Len(c) # 0
             /\ \A i \in 1..Len(c) : c[i].id = act[a].ids[i]
             /\ rows' \in Seq(Row) /\ Rising(rows') /\ Len(rows) < Len(rows')
             /\ \A i \in 1..Len(rows') : \/ \E j \in 1..Len(rows) : rows'[i] = rows[j]
                                         \/ \E j \in 1..Len(c) : rows'[i] = c[j]
             /\ \A j \in 1..Len(rows) : \E i \in 1..Len(rows') : rows'[i] = rows[j]
             /\ driver = "sqlite" => /\ rows' = rows \o c
                                     /\ verifyAuditChainSegment(latestAuditHash, c)
<1> DEFINE p == act[a].prev
           e == act[a].items
           ids == act[a].ids
           c == ChainOn(p, e, ids)
           L == Len(rows)
           M == Len(e)
           B == {rows[i] : i \in 1..Len(rows)} \cup {c[i] : i \in 1..Len(c)}
<1>0. TypeOK /\ IdsRise /\ IdsDrawn /\ DrawnLast
  BY DEF ChainInv
<1>1. /\ act[a] \in Transactions /\ nextId \in Nat /\ act[a].pc = "insert" /\ e # <<>> /\ Len(ids) = M
      /\ rows' = ById(B)
  BY DEF ChainInv, TypeOK, WriteCommit, WritesSome
<1>2. /\ p \in Hashes /\ e \in Seq(Entries) /\ ids \in Seq(Nat) /\ M \in Nat /\ M # 0
      /\ Len(ids) = Len(e)
  <2>1. p \in Hashes /\ e \in Seq(Entries) /\ ids \in Seq(Nat)
    BY <1>1 DEF Transactions
  <2> HIDE DEF e
  <2> QED
    BY <1>1, <2>1, LenProperties, EmptySeq
<1>3. /\ L \in Nat /\ rows \in Seq(Row)
      /\ \A i \in 1..L : rows[i] \in Row /\ rows[i].id \in Nat /\ 0 < rows[i].id /\ rows[i].id < nextId
      /\ \A i, j \in 1..L : i < j => rows[i].id < rows[j].id
  BY <1>0, RowFacts DEF IdsRise
<1>4. driver = "sqlite" => p = latestAuditHash
  BY <1>1 DEF ChainInv, OneAtATime
<1>5. \A i \in 1..M : /\ ids[i] \in Nat /\ 0 < ids[i] /\ ids[i] < nextId
                      /\ \A j \in 1..M : i < j => ids[i] < ids[j]
                      /\ \A j \in 1..L : rows[j].id # ids[i]
                      /\ driver = "sqlite" => \A j \in 1..L : rows[j].id < ids[i]
  <2>1. \A i \in 1..Len(ids) : ids[i] \in Nat
    BY <1>2, ElementOfSeq
  <2>2. \A i \in 1..Len(ids) : /\ 0 < ids[i] /\ ids[i] < nextId
                               /\ \A j \in 1..Len(ids) : i < j => ids[i] < ids[j]
                               /\ \A j \in 1..L : rows[j].id # ids[i]
    BY <1>0 DEF IdsDrawn
  <2>3. driver = "sqlite" => \A i \in 1..Len(ids) : \A j \in 1..L : rows[j].id < ids[i]
    BY <1>0 DEF DrawnLast
  <2> HIDE DEF ids, e, L, M
  <2> QED
    BY <1>1, <2>1, <2>2, <2>3, Zenon
<1> HIDE DEF p, e, ids
<1>6. /\ c \in Seq(Row) /\ Len(c) = M
      /\ \A i \in 1..M :
                /\ c[i].id = ids[i]
                /\ c[i].entry = Stored(e[i])
                /\ c[i].hash = Append(c[i].prev, e[i])
                /\ i = 1 => c[i].prev = p
                /\ i > 1 => c[i].prev = c[i - 1].hash
  BY <1>2, ChainOnIs, Zenon
<1> HIDE DEF c, L, M
<1>7. \A i \in 1..M : c[i] \in Row
  BY <1>2, <1>6, ElementOfSeq
<1>8. /\ \A i \in 1..L : rows[i] \in B
      /\ \A i \in 1..M : c[i] \in B
      /\ \A r \in B : (\E i \in 1..L : r = rows[i]) \/ (\E i \in 1..M : r = c[i])
  BY <1>6 DEF L
<1> HIDE DEF B
<1>9. B \in SUBSET Row /\ \A r \in B : r.id \in 1..nextId
  <2> SUFFICES ASSUME NEW r \in B PROVE r \in Row /\ r.id \in 1..nextId
    OBVIOUS
  <2>1. CASE \E i \in 1..L : r = rows[i]
    BY <1>1, <1>3, <2>1
  <2>2. CASE \E i \in 1..M : r = c[i]
    BY <1>1, <1>5, <1>6, <1>7, <2>2
  <2> QED
    BY <1>8, <2>1, <2>2
<1>10. \A r, t \in B : r.id = t.id => r = t
  <2>1. \A i, j \in 1..L : rows[i].id = rows[j].id => i = j
    BY <1>3
  <2>2. \A i, j \in 1..M : c[i].id = c[j].id => i = j
    <3>1. \A i, j \in 1..M : ids[i] = ids[j] => i = j
      BY <1>2, <1>5
    <3> QED
      BY <1>6, <3>1
  <2>3. \A i \in 1..L, j \in 1..M : rows[i].id # c[j].id
    BY <1>5, <1>6
  <2> SUFFICES ASSUME NEW r \in B, NEW t \in B, r.id = t.id PROVE r = t
    OBVIOUS
  <2>4. CASE \E i \in 1..L : r = rows[i]
    <3>1. PICK i \in 1..L : r = rows[i]
      BY <2>4
    <3>2. PICK j \in 1..L : t = rows[j]
      <4>1. ASSUME NEW j \in 1..M, t = c[j] PROVE FALSE
        BY <2>3, <3>1, <4>1
      <4> QED
        BY <1>8, <4>1
    <3>3. rows[i].id = rows[j].id
      BY <3>1, <3>2
    <3> QED
      BY <2>1, <3>1, <3>2, <3>3
  <2>5. CASE \E i \in 1..M : r = c[i]
    <3>1. PICK i \in 1..M : r = c[i]
      BY <2>5
    <3>2. PICK j \in 1..M : t = c[j]
      <4>1. ASSUME NEW j \in 1..L, t = rows[j] PROVE FALSE
        BY <2>3, <3>1, <4>1
      <4> QED
        BY <1>8, <4>1
    <3>3. c[i].id = c[j].id
      BY <3>1, <3>2
    <3> QED
      BY <2>2, <3>1, <3>2, <3>3
  <2> QED
    BY <1>8, <2>4, <2>5
<1> DEFINE z == rows'
           N == Len(z)
<1>11. /\ z \in Seq(Row) /\ N \in Nat
       /\ \A i \in 1..N : z[i] \in B
       /\ \A i, j \in 1..N : i < j => z[i].id < z[j].id
       /\ \A r \in B : \E i \in 1..N : z[i] = r
  <2> DEFINE y == ById(B)
  <2>1. /\ y \in Seq(Row) /\ Len(y) \in Nat
        /\ \A i \in 1..Len(y) : y[i] \in B
        /\ \A i, j \in 1..Len(y) : i < j => y[i].id < y[j].id
        /\ \A r \in B : \E i \in 1..Len(y) : y[i] = r
    BY <1>1, <1>9, <1>10, ByIdIs
  <2>2. z = y
    BY <1>1
  <2> HIDE DEF y, z
  <2> QED
    BY <2>1, <2>2
<1> HIDE DEF z
<1>12. Rising(z)
  <2>1. \A i \in 1..N : z[i].id \in Nat
    BY <1>9, <1>11
  <2> QED
    BY <1>11, <2>1 DEF Rising
<1>13. \A i \in 1..N : (\E j \in 1..L : z[i] = rows[j]) \/ (\E j \in 1..M : z[i] = c[j])
  BY <1>8, <1>11, Zenon
<1>14. \A j \in 1..L : \E i \in 1..N : z[i] = rows[j]
  BY <1>8, <1>11, Zenon
<1>15. \A j \in 1..M : \E i \in 1..N : z[i] = c[j]
  BY <1>8, <1>11, Zenon
<1> HIDE DEF N
<1>16. L < N
  <2> DEFINE place == [j \in 1..L |-> CHOOSE i \in 1..N : z[i] = rows[j]]
  <2>1. 1 \in 1..M
    BY <1>2
  <2>2. PICK x \in 1..N : z[x] = c[1]
    BY <1>15, <2>1
  <2>3. \A j \in 1..L : place[j] \in 1..N /\ z[place[j]] = rows[j]
    BY <1>14
  <2> HIDE DEF place
  <2>4. \A j \in 1..L : place[j] # x
    BY <1>5, <1>6, <2>1, <2>2, <2>3
  <2>5. \A i, j \in 1..L : i # j => place[i] # place[j]
    BY <1>3, <2>3
  <2> DEFINE T == (1..N) \ {x}
  <2>6. place \in [1..L -> T]
    <3>1. place = [j \in 1..L |-> place[j]]
      BY DEF place
    <3>2. \A j \in 1..L : place[j] \in T
      BY <2>3, <2>4
    <3> QED
      BY <3>1, <3>2, Zenon
  <2>7. IsFiniteSet(1..L) /\ Cardinality(1..L) = L
    <3>1. IsFiniteSet(1..L) /\ Cardinality(1..L) = IF 1 > L THEN 0 ELSE L - 1 + 1
      BY <1>3, FS_Interval
    <3> QED
      BY <1>3, <3>1
  <2>8. IsFiniteSet(T) /\ Cardinality(T) = N - 1
    <3>1. IsFiniteSet(1..N) /\ Cardinality(1..N) = IF 1 > N THEN 0 ELSE N - 1 + 1
      BY <1>11, FS_Interval DEF N
    <3>2. Cardinality(1..N) = N /\ N \in Nat
      BY <1>11, <2>2, <3>1 DEF N
    <3>3. IsFiniteSet(T) /\ Cardinality(T) = IF x \in 1..N THEN Cardinality(1..N) - 1 ELSE Cardinality(1..N)
      BY <3>1, FS_RemoveElement
    <3> QED
      BY <2>2, <3>2, <3>3
  <2> HIDE DEF T
  <2>9. ~(Cardinality(T) < Cardinality(1..L))
    BY <2>5, <2>6, <2>7, <2>8, FS_PigeonHole
  <2>10. N \in Nat
    BY <1>11 DEF N
  <2> QED
    BY <1>3, <2>7, <2>8, <2>9, <2>10
<1>17. ASSUME driver = "sqlite" PROVE z = rows \o c
  <2> DEFINE q == rows \o c
  <2>1. /\ q \in Seq(Row) /\ Len(q) = L + M
        /\ \A i \in 1..L + M : q[i] = IF i <= L THEN rows[i] ELSE c[i - L]
    <3> DEFINE K == Len(c)
    <3>1. /\ q \in Seq(Row) /\ Len(q) = L + K
          /\ \A i \in 1..L + K : q[i] = IF i <= L THEN rows[i] ELSE c[i - L]
      BY <1>3, <1>6, ConcatProperties DEF L
    <3>2. K = M
      BY <1>6
    <3> HIDE DEF q, K
    <3> QED
      BY <3>1, <3>2, Zenon
  <2> HIDE DEF q
  <2>2. \A i \in 1..L + M : \/ i \in 1..L /\ q[i] = rows[i]
                            \/ /\ i - L \in 1..M /\ i - L \in Nat /\ ~(i <= L)
                               /\ q[i] = c[i - L] /\ q[i].id = ids[i - L]
    <3> SUFFICES ASSUME NEW i \in 1..L + M
                 PROVE  \/ i \in 1..L /\ q[i] = rows[i]
                        \/ /\ i - L \in 1..M /\ i - L \in Nat /\ ~(i <= L)
                           /\ q[i] = c[i - L] /\ q[i].id = ids[i - L]
      OBVIOUS
    <3>1. i <= L => i \in 1..L
      BY <1>3
    <3>2. ~(i <= L) => i - L \in 1..M /\ i - L \in Nat
      BY <1>2, <1>3
    <3> QED
      BY <1>6, <2>1, <3>1, <3>2
  <2>3. ASSUME NEW i \in 1..L + M PROVE q[i].id \in Nat
    BY <1>3, <1>5, <2>2
  <2>4. ASSUME NEW i \in 1..L + M, NEW j \in 1..L + M, i < j PROVE q[i].id < q[j].id
    <3>1. CASE i \in 1..L /\ q[i] = rows[i]
      <4>1. CASE j \in 1..L /\ q[j] = rows[j]
        BY <1>3, <2>4, <3>1, <4>1
      <4>2. CASE j - L \in 1..M /\ q[j].id = ids[j - L]
        BY <1>5, <1>17, <3>1, <4>2
      <4> QED
        BY <2>2, <4>1, <4>2
    <3>2. CASE i - L \in 1..M /\ i - L \in Nat /\ ~(i <= L) /\ q[i].id = ids[i - L]
      <4>1. ~(j \in 1..L)
        BY <1>3, <2>4, <3>2
      <4>2. j - L \in 1..M /\ q[j].id = ids[j - L] /\ i - L < j - L
        BY <1>3, <2>2, <2>4, <4>1
      <4> QED
        BY <1>5, <3>2, <4>2
    <3> QED
      BY <2>2, <3>1, <3>2
  <2>5. Rising(q)
    BY <2>1, <2>3, <2>4 DEF Rising
  <2>6. \A i \in 1..L + M : \E j \in 1..N : z[j] = q[i]
    BY <1>14, <1>15, <2>2
  <2>7. \A j \in 1..N : \E i \in 1..L + M : q[i] = z[j]
    <3>1. \A i \in 1..L : i \in 1..L + M /\ q[i] = rows[i]
      BY <1>2, <1>3, <2>1
    <3>2. \A i \in 1..M : i + L \in 1..L + M /\ q[i + L] = c[i]
      <4> SUFFICES ASSUME NEW i \in 1..M PROVE i + L \in 1..L + M /\ q[i + L] = c[i]
        OBVIOUS
      <4>1. i + L \in 1..L + M /\ ~(i + L <= L) /\ (i + L) - L = i
        BY <1>2, <1>3
      <4> QED
        BY <2>1, <4>1
    <3> QED
      BY <1>13, <3>1, <3>2
  <2>8. q = z
    BY <1>11, <1>12, <2>1, <2>5, <2>6, <2>7, RisingAlike DEF N
  <2> QED
    BY <2>8 DEF q
<1>18. \A i \in 1..M : Stored(e[i]) \in Entries /\ (driver = "sqlite" => Stored(e[i]) = e[i])
  <2>1. \A i \in 1..M : e[i] \in Entries
    BY <1>2, ElementOfSeq DEF M
  <2> QED
    BY <2>1, StoredIs
<1>19. driver = "sqlite" => verifyAuditChainSegment(latestAuditHash, c)
  <2> SUFFICES ASSUME driver = "sqlite", NEW i \in 1..M
               PROVE  /\ c[i].prev = IF i = 1 THEN latestAuditHash ELSE c[i - 1].hash
                      /\ c[i].hash = Append(IF i = 1 THEN latestAuditHash ELSE c[i - 1].hash, c[i].entry)
    BY <1>6, Zenon DEF verifyAuditChainSegment, computeAuditHash
  <2>1. i # 1 => i > 1
    BY <1>2
  <2>2. c[i].prev = IF i = 1 THEN latestAuditHash ELSE c[i - 1].hash
    BY <1>4, <1>6, <2>1, Zenon
  <2>3. c[i].entry = e[i]
    BY <1>6, <1>18, Zenon
  <2>4. c[i].hash = Append(c[i].prev, e[i])
    BY <1>6, Zenon
  <2> QED
    BY <2>2, <2>3, <2>4, Zenon
<1>20. /\ c \in Seq(Row) /\ Len(c) = Len(act[a].ids) /\ Len(c) # 0
       /\ \A i \in 1..Len(c) : c[i].id = act[a].ids[i]
  BY <1>1, <1>2, <1>6 DEF ids
<1>21. /\ rows' \in Seq(Row) /\ Rising(rows') /\ Len(rows) < Len(rows')
       /\ \A i \in 1..Len(rows') : \/ \E j \in 1..Len(rows) : rows'[i] = rows[j]
                                   \/ \E j \in 1..Len(c) : rows'[i] = c[j]
       /\ \A j \in 1..Len(rows) : \E i \in 1..Len(rows') : rows'[i] = rows[j]
  BY <1>6, <1>11, <1>12, <1>13, <1>14, <1>16, Zenon DEF L, N, z
<1> QED
  BY <1>17, <1>19, <1>20, <1>21, Zenon DEF z

\* The invariant survives it.
LEMMA WriteCommitKeeps == ASSUME ChainInv, NEW a \in Actors, WriteCommit(a) PROVE ChainInv'
<1> DEFINE L == Len(rows)
           r2 == rows'
           N == Len(r2)
<1>0. TypeOK /\ IdsRise /\ IdsDrawn /\ DrawnLast
  BY DEF ChainInv
<1>1. PICK c \in Seq(Row) :
             /\ Len(c) = Len(act[a].ids) /\ Len(c) # 0
             /\ \A i \in 1..Len(c) : c[i].id = act[a].ids[i]
             /\ rows' \in Seq(Row) /\ Rising(rows') /\ Len(rows) < Len(rows')
             /\ \A i \in 1..Len(rows') : \/ \E j \in 1..Len(rows) : rows'[i] = rows[j]
                                         \/ \E j \in 1..Len(c) : rows'[i] = c[j]
             /\ \A j \in 1..Len(rows) : \E i \in 1..Len(rows') : rows'[i] = rows[j]
             /\ driver = "sqlite" => /\ rows' = rows \o c
                                     /\ verifyAuditChainSegment(latestAuditHash, c)
  BY WriteCommitIs, Zenon
<1> DEFINE M == Len(c)
<1>2. /\ act' = [act EXCEPT ![a] = IdleAct] /\ act[a].pc = "insert" /\ act[a].pc # "idle"
      /\ UNCHANGED <<driver, nextId, checkpoint, drawn, ver>>
  BY DEF WriteCommit
<1>3. /\ \A i \in 1..L : 0 < rows[i].id /\ rows[i].id < nextId /\ rows[i].id \in Nat
      /\ driver = "sqlite" => \A i \in 1..L : checkpoint.id < rows[i].id
      /\ checkpoint.id < nextId /\ checkpoint.id \in Nat /\ nextId \in Nat /\ nextId # 0
      /\ rows = <<>> => checkpoint.hash = <<>>
      /\ L \in Nat /\ rows \in Seq(Row)
  BY <1>0, RowFacts DEF IdsRise, TypeOK
<1>4. /\ NewestId \in Nat /\ NewestId < nextId
      /\ L = 0 => latestAuditHash = <<>> /\ rows = <<>> /\ NewestId = 0
      /\ L # 0 => L \in 1..L /\ latestAuditHash = rows[L].hash /\ NewestId = rows[L].id
  BY <1>0, NewestIs, RowFacts
<1>5. /\ act' \in [Actors -> Transactions]
      /\ \A b \in Actors : act'[b].pc # "idle" => act'[b] = act[b]
      /\ driver = "sqlite" => \A b \in Actors : act'[b].pc = "idle"
      /\ \A b \in Actors : act'[b].ids = <<>> \/ (b # a /\ act'[b] = act[b])
      /\ driver = "sqlite" => \A b \in Actors : act'[b].ids = <<>>
  BY <1>2, ActDone
<1>6. \A i \in 1..M : /\ c[i].id = act[a].ids[i] /\ 0 < c[i].id /\ c[i].id < nextId /\ c[i].id \in Nat
                      /\ driver = "sqlite" => /\ checkpoint.id < c[i].id
                                              /\ ver.pc = "scan" => ver.last < c[i].id
  <2> SUFFICES ASSUME NEW i \in 1..M
               PROVE  /\ c[i].id = act[a].ids[i] /\ 0 < c[i].id /\ c[i].id < nextId /\ c[i].id \in Nat
                      /\ driver = "sqlite" => /\ checkpoint.id < c[i].id
                                              /\ ver.pc = "scan" => ver.last < c[i].id
    OBVIOUS
  <2>1. act[a].ids \in Seq(Nat) /\ i \in 1..Len(act[a].ids)
    BY <1>0, <1>1 DEF TypeOK, Transactions
  <2>2. c[i].id = act[a].ids[i] /\ act[a].ids[i] \in Nat
    BY <1>1, <2>1, ElementOfSeq
  <2> QED
    BY <1>0, <2>1, <2>2 DEF IdsDrawn, DrawnLast
<1>7. /\ r2 = rows' /\ r2 \in Seq(Row) /\ Rising(r2) /\ L < N /\ N \in Nat /\ M \in Nat /\ M # 0
      /\ \A i \in 1..N : (\E j \in 1..L : r2[i] = rows[j]) \/ (\E j \in 1..M : r2[i] = c[j])
      /\ \A j \in 1..L : \E i \in 1..N : r2[i] = rows[j]
      /\ driver = "sqlite" => r2 = rows \o c /\ verifyAuditChainSegment(latestAuditHash, c)
  BY <1>1, LenProperties
<1>8. \A i \in 1..N : r2[i].id \in Nat /\ \A j \in 1..N : i < j => r2[i].id < r2[j].id
  BY <1>7 DEF Rising
<1> HIDE DEF L, r2, N, M
<1>9. r2 # <<>> /\ N \in 1..N
  <2>1. N # 0
    BY <1>3, <1>7
  <2> QED
    BY <1>7, <2>1, EmptySeq DEF N
<1>10. \A i \in 1..N : /\ 0 < r2[i].id /\ r2[i].id < nextId
                       /\ driver = "sqlite" => checkpoint.id < r2[i].id
  BY <1>3, <1>6, <1>7
<1>11. TypeOK'
  BY <1>0, <1>2, <1>5, <1>7 DEF TypeOK
<1>12. IdsRise'
  BY <1>2, <1>3, <1>7, <1>8, <1>9, <1>10 DEF IdsRise, N
<1>13. NewestId' \in Nat /\ NewestId <= NewestId'
  <2>1. NewestId' = r2[N].id
    BY <1>7, <1>9 DEF NewestId, N
  <2>2. CASE L = 0
    BY <1>4, <1>8, <1>9, <2>1, <2>2
  <2>3. CASE L # 0
    <3>1. PICK i \in 1..N : r2[i] = rows[L]
      BY <1>4, <1>7, <2>3
    <3>2. r2[i].id <= r2[N].id
      <4>1. i = N \/ i < N
        BY <1>7
      <4> QED
        BY <1>8, <1>9, <4>1
    <3> QED
      BY <1>4, <1>8, <1>9, <2>1, <2>3, <3>1, <3>2
  <2> QED
    BY <2>2, <2>3
<1>14. IdsDrawn' /\ DrawnLast'
  <2>1. ASSUME NEW b \in Actors, act'[b].ids # <<>>, NEW i \in 1..Len(act[b].ids), NEW j \in 1..N
        PROVE  r2[j].id # act[b].ids[i]
    <3>1. b # a
      BY <1>5, <2>1
    <3>2. /\ \A k \in 1..L : rows[k].id # act[b].ids[i]
          /\ \A k \in 1..Len(act[a].ids) : act[a].ids[k] # act[b].ids[i]
      BY <1>0, <2>1, <3>1 DEF IdsDrawn, L
    <3>3. \A k \in 1..M : c[k].id # act[b].ids[i]
      BY <1>1, <1>6, <3>2 DEF M
    <3> QED
      BY <1>7, <2>1, <3>2, <3>3
  <2>2. \A b \in Actors : act'[b].ids # <<>> =>
          \A i \in 1..Len(act[b].ids), j \in 1..Len(rows') : rows'[j].id # act[b].ids[i]
    BY <1>7, <2>1 DEF N
  <2>3. \A b \in Actors : act'[b].ids = <<>> \/ act'[b] = act[b]
    BY <1>5
  <2> QED
    BY <1>2, <1>5, <2>2, <2>3, DrawnFewer
<1>15. WritesSome' /\ OneAtATime'
  BY <1>2, <1>5 DEF WritesSome, OneAtATime, ChainInv
<1>16. PrunesOld'
  <2> SUFFICES ASSUME NEW b \in Actors, act'[b].pc = "delete"
               PROVE  act'[b].last < NewestId' /\ driver # "sqlite"
    BY <1>2, Zenon DEF PrunesOld
  <2>1. act'[b] = act[b] /\ act[b].last \in Nat /\ driver # "sqlite"
    BY <1>0, <1>5 DEF TypeOK, Transactions
  <2>2. act[b].last < NewestId
    BY <2>1 DEF ChainInv, PrunesOld
  <2> DEFINE last == act[b].last
             n2 == NewestId'
  <2>3. last \in Nat /\ last < NewestId /\ n2 \in Nat /\ NewestId <= n2
    BY <1>13, <2>1, <2>2
  <2> HIDE DEF last, n2
  <2>4. last < n2
    BY <1>4, <2>3
  <2> QED
    BY <2>1, <2>4 DEF last, n2
<1>17. ver \in Verifications /\ ver.newest \in Nat /\ ver.last \in Nat
  BY <1>0 DEF TypeOK, Verifications
<1>18. ASSUME driver = "sqlite"
       PROVE  /\ N = L + M
              /\ \A i \in 1..L + M : r2[i] = IF i <= L THEN rows[i] ELSE c[i - L]
  <2> DEFINE z == rows \o c
  <2>1. /\ Len(z) = L + M
        /\ \A i \in 1..L + M : z[i] = IF i <= L THEN rows[i] ELSE c[i - L]
    BY <1>3, ConcatProperties DEF L, M
  <2>2. r2 = z
    BY <1>7, <1>18
  <2> HIDE DEF z
  <2> QED
    BY <2>1, <2>2 DEF N
<1>19. VerifiesOn'
  <2> SUFFICES ASSUME ver.pc = "scan" PROVE VerifiesOn'
    BY <1>2 DEF VerifiesOn
  <2>1. ver.newest <= NewestId /\ ver.last < nextId
    BY DEF ChainInv, VerifiesOn
  <2>2. ver.newest <= NewestId' /\ ver.last < nextId'
    <3> DEFINE n2 == NewestId'
    <3>1. n2 \in Nat /\ NewestId <= n2
      BY <1>13
    <3> HIDE DEF n2
    <3>2. ver.newest <= n2
      BY <1>4, <1>17, <2>1, <3>1
    <3> QED
      BY <1>2, <2>1, <3>2 DEF n2
  <2>3. ASSUME driver = "sqlite", ~ver.pruned
        PROVE  \E n \in 0..N :
                 /\ ver.prev = AnchorAt(n)'
                 /\ \A i \in 1..N : r2[i].id <= ver.last <=> i <= n
    <3>1. PICK n \in 0..L : /\ ver.prev = AnchorAt(n)
                            /\ \A i \in 1..L : rows[i].id <= ver.last <=> i <= n
      BY <2>3 DEF ChainInv, VerifiesOn, L
    <3>2. n \in 0..L + M /\ (n # 0 => n \in 1..L + M /\ n <= L) /\ n <= L
      BY <1>3, <1>7
    <3>3. AnchorAt(n)' = AnchorAt(n)
      BY <1>2, <1>7, <1>18, <2>3, <3>2 DEF AnchorAt
    <3>4. ASSUME NEW i \in 1..L + M PROVE r2[i].id <= ver.last <=> i <= n
      <4>1. CASE i <= L
        <5>1. i \in 1..L
          BY <1>3, <4>1
        <5> QED
          BY <1>18, <2>3, <3>1, <4>1, <5>1
      <4>2. CASE ~(i <= L)
        <5>1. i - L \in 1..M /\ ~(i <= n)
          BY <1>3, <1>7, <3>2, <4>2
        <5>2. r2[i] = c[i - L]
          BY <1>18, <2>3, <4>2
        <5>3. ~(c[i - L].id <= ver.last)
          BY <1>6, <1>17, <2>3, <5>1
        <5> QED
          BY <5>1, <5>2, <5>3
      <4> QED
        BY <4>1, <4>2
    <3> QED
      BY <1>18, <2>3, <3>1, <3>2, <3>3, <3>4
  <2> QED
    BY <1>2, <1>7, <2>2, <2>3, Zenon DEF VerifiesOn, N
<1>20. ChainIntact'
  <2> SUFFICES ASSUME driver = "sqlite" PROVE Chained'
    BY <1>2 DEF ChainIntact
  <2>1. verifyAuditChainSegment(checkpoint.hash, rows)
    BY DEF ChainInv, ChainIntact, Chained
  <2>2. latestAuditHash = IF Len(rows) = 0 THEN checkpoint.hash ELSE rows[Len(rows)].hash
    BY <1>3, <1>4 DEF L
  <2>3. verifyAuditChainSegment(checkpoint.hash, rows \o c)
    BY <1>3, <1>7, <2>1, <2>2, SegmentConcat
  <2>4. verifyAuditChainSegment(checkpoint.hash, rows)'
    BY <1>2, <1>7, <2>3 DEF verifyAuditChainSegment, computeAuditHash
  <2>5. \A i \in 1..N : r2[i].id > checkpoint.id
    BY <1>3, <1>8, <1>10
  <2> QED
    BY <1>2, <1>7, <2>4, <2>5, Zenon DEF Chained, N
<1>21. MismatchOnlyFromPrune' /\ VerifiedThrough'
  BY <1>2 DEF ChainInv, MismatchOnlyFromPrune, VerifiedThrough
<1> QED
  BY <1>11, <1>12, <1>14, <1>15, <1>16, <1>19, <1>20, <1>21 DEF ChainInv

\* What a prune leaves: the rows after the last one it read.
LEMMA PruneCommitIs ==
    ASSUME ChainInv, NEW a \in Actors, PruneCommit(a)
    PROVE  LET k == Through(act[a].last)
               L == Len(rows)
           IN  /\ L \in Nat /\ k \in Nat /\ k < L
               /\ \A i \in 1..L : rows[i].id <= act[a].last <=> i <= k
               /\ rows' = SubSeq(rows, k + 1, L)
               /\ rows' \in Seq(Row) /\ Len(rows') = L - k
               /\ \A i \in 1..L - k : rows'[i] = rows[k + i]
               /\ k = 0 => checkpoint' = checkpoint /\ ver' = ver
               /\ k # 0 => /\ checkpoint' = [some |-> TRUE, id |-> act[a].last, hash |-> act[a].lastHash,
                                             pruned |-> checkpoint.pruned + k]
                           /\ ver' = IF ver.pc = "scan" THEN [ver EXCEPT !.pruned = TRUE] ELSE ver
<1> DEFINE k == Through(act[a].last)
           L == Len(rows)
           removed == {i \in 1..Len(rows) : rows[i].id <= act[a].last}
<1>0. TypeOK /\ IdsRise
  BY DEF ChainInv
<1>1. L \in Nat /\ rows \in Seq(Row) /\ \A i \in 1..L : rows[i].id \in Nat
  BY <1>0, RowFacts
<1>2. act[a].last \in Nat /\ act[a].last < NewestId /\ act[a].pc = "delete"
  BY DEF ChainInv, TypeOK, Transactions, PrunesOld, PruneCommit
<1>3. k \in 0..L /\ \A i \in 1..L : rows[i].id <= act[a].last <=> i <= k
  <2>1. act[a].last \in Int
    BY <1>2
  <2> QED
    BY <1>0, <2>1, ThroughIs
<1>4. NewestId \in Nat /\ (L = 0 => NewestId = 0) /\ (L # 0 => L \in 1..L /\ NewestId = rows[L].id)
  BY <1>0, NewestIs
<1>5. rows' = SubSeq(rows, k + 1, L)
  BY DEF PruneCommit
<1>6. Cardinality(removed) = k
  BY DEF Through
<1>7. /\ checkpoint' = IF removed = {} THEN checkpoint
                ELSE [some |-> TRUE, id |-> act[a].last, hash |-> act[a].lastHash,
                      pruned |-> checkpoint.pruned + k]
      /\ ver' = IF ver.pc = "scan" /\ removed # {} THEN [ver EXCEPT !.pruned = TRUE] ELSE ver
  BY <1>6 DEF PruneCommit, PrunedTotal
<1> DEFINE last == act[a].last
<1>8. removed = {i \in 1..L : rows[i].id <= last}
  OBVIOUS
<1> HIDE DEF removed, k, L, last
<1>9. k \in Nat /\ k < L
  <2>1. L # 0
    BY <1>2, <1>4 DEF last
  <2>2. ~(rows[L].id <= last)
    BY <1>1, <1>2, <1>4, <2>1 DEF last
  <2> QED
    BY <1>1, <1>3, <1>4, <2>1, <2>2 DEF last
<1>10. removed = {} <=> k = 0
  <2>1. k # 0 => k \in removed
    <3>1. k # 0 => k \in 1..L /\ k <= k
      BY <1>1, <1>9
    <3> QED
      BY <1>3, <1>8, <3>1 DEF last
  <2>2. ASSUME k = 0, NEW i \in removed PROVE FALSE
    <3>1. i \in 1..L /\ i <= k
      BY <1>3, <1>8, <2>2 DEF last
    <3> QED
      BY <1>1, <2>2, <3>1
  <2> QED
    BY <2>1, <2>2
<1>11. rows' \in Seq(Row) /\ Len(rows') = L - k /\ \A i \in 1..L - k : rows'[i] = rows[k + i]
  <2> DEFINE z == SubSeq(rows, k + 1, L)
  <2>1. /\ k + 1 \in Nat /\ 1 <= k + 1 /\ k + 1 <= L + 1 /\ L <= L
        /\ L - (k + 1) + 1 = L - k /\ \A i \in 1..L - k : k + 1 + i - 1 = k + i
    BY <1>1, <1>9
  <2>2. /\ z \in Seq(Row) /\ Len(z) = L - (k + 1) + 1
        /\ \A i \in 1..L - (k + 1) + 1 : z[i] = rows[k + 1 + i - 1]
    BY <1>1, <2>1, Slice DEF L
  <2> HIDE DEF z
  <2>3. z \in Seq(Row) /\ Len(z) = L - k /\ \A i \in 1..L - k : z[i] = rows[k + i]
    BY <2>1, <2>2, Zenon
  <2> QED
    BY <1>5, <2>3, Zenon DEF z
<1>12. /\ k = 0 => checkpoint' = checkpoint /\ ver' = ver
       /\ k # 0 => /\ checkpoint' = [some |-> TRUE, id |-> act[a].last, hash |-> act[a].lastHash,
                                     pruned |-> checkpoint.pruned + k]
                   /\ ver' = IF ver.pc = "scan" THEN [ver EXCEPT !.pruned = TRUE] ELSE ver
  BY <1>7, <1>10, Zenon
<1> QED
  BY <1>1, <1>3, <1>5, <1>9, <1>11, <1>12, Zenon DEF k, L

\* The invariant survives a prune, its checkpoint included (pruneBatch).
LEMMA PruneCommitKeeps == ASSUME ChainInv, NEW a \in Actors, PruneCommit(a) PROVE ChainInv'
<1> DEFINE k == Through(act[a].last)
           L == Len(rows)
           last == act[a].last
           r2 == rows'
           cp == checkpoint'
<1>0. TypeOK /\ IdsRise
  BY DEF ChainInv
<1>1. /\ L \in Nat /\ k \in Nat /\ k < L
      /\ \A i \in 1..L : rows[i].id <= act[a].last <=> i <= k
      /\ rows' = SubSeq(rows, k + 1, L)
      /\ rows' \in Seq(Row) /\ Len(rows') = L - k
      /\ \A i \in 1..L - k : rows'[i] = rows[k + i]
      /\ k = 0 => checkpoint' = checkpoint /\ ver' = ver
      /\ k # 0 => /\ checkpoint' = [some |-> TRUE, id |-> act[a].last, hash |-> act[a].lastHash,
                                    pruned |-> checkpoint.pruned + k]
                  /\ ver' = IF ver.pc = "scan" THEN [ver EXCEPT !.pruned = TRUE] ELSE ver
  BY PruneCommitIs, Zenon
<1>2. /\ act' = [act EXCEPT ![a] = IdleAct] /\ act[a].pc = "delete" /\ act[a].pc # "idle"
      /\ UNCHANGED <<driver, nextId, drawn>>
  BY DEF PruneCommit
<1>3. /\ \A i, j \in 1..L : i < j => rows[i].id < rows[j].id
      /\ \A i \in 1..L : 0 < rows[i].id /\ rows[i].id < nextId /\ rows[i].id \in Nat
      /\ driver = "sqlite" => \A i \in 1..L : checkpoint.id < rows[i].id
      /\ checkpoint.id < nextId /\ checkpoint.id \in Nat /\ nextId \in Nat
  BY <1>0, RowFacts DEF IdsRise, TypeOK
<1>4. act[a] \in Transactions /\ last \in Nat /\ act[a].lastHash \in Hashes
  BY <1>0 DEF TypeOK, Transactions
<1>5. last < NewestId
  BY <1>2 DEF ChainInv, PrunesOld
<1>6. NewestId \in Nat /\ NewestId < nextId /\ (L # 0 => L \in 1..L /\ NewestId = rows[L].id)
  BY <1>0, NewestIs
<1>7. /\ act' \in [Actors -> Transactions]
      /\ \A b \in Actors : act'[b].pc # "idle" => act'[b] = act[b]
      /\ driver = "sqlite" => \A b \in Actors : act'[b].pc = "idle"
      /\ \A b \in Actors : act'[b].ids = <<>> \/ (b # a /\ act'[b] = act[b])
      /\ driver = "sqlite" => \A b \in Actors : act'[b].ids = <<>>
  BY <1>2, ActDone
<1>8. Len(r2) = L - k /\ r2 \in Seq(Row) /\ r2 # <<>> /\ r2 = rows'
  <2>1. L - k # 0
    BY <1>1
  <2> QED
    BY <1>1, <2>1, EmptySeq
<1>9. /\ cp = checkpoint' /\ (k = 0 => cp = checkpoint)
      /\ k # 0 => /\ cp.id = last /\ cp.hash = act[a].lastHash
                  /\ cp \in [some: BOOLEAN, id: Nat, hash: Hashes, pruned: Nat]
  <2>1. checkpoint.pruned + k \in Nat
    BY <1>0, <1>1 DEF TypeOK
  <2> DEFINE n == checkpoint.pruned + k
             h == act[a].lastHash
             d == [some |-> TRUE, id |-> last, hash |-> h, pruned |-> n]
  <2>2. k # 0 => cp = d
    BY <1>1, Zenon
  <2>3. k = 0 => cp = checkpoint
    BY <1>1, Zenon
  <2>4. n \in Nat /\ last \in Nat /\ h \in Hashes
    BY <1>4, <2>1
  <2> HIDE DEF n, last, h
  <2>5. d.id = last /\ d.hash = h /\ d \in [some: BOOLEAN, id: Nat, hash: Hashes, pruned: Nat]
    BY <2>4
  <2> HIDE DEF d, cp, k
  <2>6. k # 0 => /\ cp.id = last /\ cp.hash = h
                 /\ cp \in [some: BOOLEAN, id: Nat, hash: Hashes, pruned: Nat]
    BY <2>2, <2>5
  <2> QED
    BY <2>3, <2>6, Zenon DEF h, cp
<1>10. \A i \in 1..L : rows[i].id <= last <=> i <= k
  BY <1>1
<1> HIDE DEF k, L, last, r2, cp
<1>11. ASSUME NEW i \in 1..L - k
       PROVE  k + i \in 1..L /\ r2[i] = rows[k + i] /\ ~(k + i <= k) /\ i \in Nat /\ i >= 1
  BY <1>1 DEF r2
<1>12. /\ \A i, j \in 1..L - k : i < j => r2[i].id < r2[j].id
       /\ \A i \in 1..L - k : 0 < r2[i].id /\ r2[i].id < nextId /\ r2[i].id \in Nat
  <2>1. ASSUME NEW i \in 1..L - k, NEW j \in 1..L - k, i < j PROVE r2[i].id < r2[j].id
    <3>1. k + i < k + j
      BY <1>1, <2>1
    <3>2. k + i \in 1..L /\ k + j \in 1..L
      BY <1>11
    <3>3. rows[k + i].id < rows[k + j].id
      BY <1>3, <3>1, <3>2, Zenon
    <3> QED
      BY <1>11, <3>3
  <2>2. ASSUME NEW i \in 1..L - k PROVE 0 < r2[i].id /\ r2[i].id < nextId /\ r2[i].id \in Nat
    BY <1>3, <1>11
  <2> QED
    BY <2>1, <2>2
<1>13. driver = "sqlite" => \A i \in 1..L - k : cp.id < r2[i].id
  <2> SUFFICES ASSUME driver = "sqlite", NEW i \in 1..L - k PROVE cp.id < r2[i].id
    OBVIOUS
  <2>1. CASE k = 0
    BY <1>3, <1>9, <1>11, <2>1
  <2>2. CASE k # 0
    <3>1. ~(rows[k + i].id <= last)
      BY <1>10, <1>11
    <3>2. rows[k + i].id \in Nat
      BY <1>3, <1>11
    <3> QED
      BY <1>4, <1>9, <1>11, <2>2, <3>1, <3>2
  <2> QED
    BY <2>1, <2>2
<1>14. cp.id \in Nat /\ cp.id < nextId /\ cp \in [some: BOOLEAN, id: Nat, hash: Hashes, pruned: Nat]
  <2>1. CASE k = 0
    BY <1>0, <1>3, <1>9, <2>1 DEF TypeOK
  <2>2. CASE k # 0
    BY <1>3, <1>4, <1>5, <1>6, <1>9, <2>2
  <2> QED
    BY <2>1, <2>2
<1>15. ver \in Verifications
  BY <1>0 DEF TypeOK
<1>16. /\ ver' \in Verifications /\ ver'.pc = ver.pc /\ ver'.prev = ver.prev /\ ver'.last = ver.last
       /\ ver'.newest = ver.newest
  <2>1. CASE ver' = ver
    BY <1>15, <2>1
  <2>2. CASE ver' # ver
    <3>1. ver' = [ver EXCEPT !.pruned = TRUE]
      BY <1>1, <2>2, Zenon
    <3> QED
      BY <1>15, <3>1 DEF Verifications
  <2> QED
    BY <2>1, <2>2
<1>17. /\ ver.pruned => ver'.pruned
       /\ ver.pc = "scan" /\ k # 0 => ver'.pruned
  <2>1. [ver EXCEPT !.pruned = TRUE].pruned = TRUE
    BY <1>15, Zenon DEF Verifications
  <2> QED
    BY <1>1, <2>1, Zenon
<1>18. TypeOK'
  BY <1>0, <1>2, <1>7, <1>8, <1>9, <1>14, <1>16 DEF TypeOK
<1>19. IdsRise'
  <2>1. /\ \A i, j \in 1..Len(r2) : i < j => r2[i].id < r2[j].id
        /\ \A i \in 1..Len(r2) : 0 < r2[i].id /\ r2[i].id < nextId
        /\ \A i \in 1..Len(r2) : driver = "sqlite" => cp.id < r2[i].id
    BY <1>8, <1>12, <1>13
  <2> QED
    BY <1>2, <1>8, <1>9, <1>14, <2>1, Zenon DEF IdsRise
<1>20. NewestId' = NewestId
  <2>1. L - k \in 1..L - k /\ k + (L - k) = L /\ L # 0
    BY <1>1
  <2>2. r2[L - k] = rows[k + (L - k)]
    BY <1>11, <2>1, Zenon
  <2>3. NewestId' = r2[Len(r2)].id
    BY <1>8 DEF NewestId
  <2> QED
    BY <1>6, <1>8, <2>1, <2>2, <2>3
<1>21. WritesSome' /\ OneAtATime'
  BY <1>2, <1>7 DEF WritesSome, OneAtATime, ChainInv
<1>22. PrunesOld'
  <2> SUFFICES ASSUME NEW b \in Actors, act'[b].pc = "delete"
               PROVE  act'[b].last < NewestId /\ driver # "sqlite"
    BY <1>2, <1>20, Zenon DEF PrunesOld
  <2>1. act'[b] = act[b] /\ driver # "sqlite"
    BY <1>7
  <2>2. act[b].last < NewestId
    BY <2>1 DEF ChainInv, PrunesOld
  <2> QED
    BY <2>1, <2>2
<1>23. VerifiesOn'
  <2> SUFFICES ASSUME ver.pc = "scan" PROVE VerifiesOn'
    BY <1>16 DEF VerifiesOn
  <2>1. ver.newest <= NewestId /\ ver.last < nextId
    BY DEF ChainInv, VerifiesOn
  <2>3. ASSUME driver = "sqlite", ~ver'.pruned
        PROVE  \E n \in 0..L - k :
                 /\ ver.prev = AnchorAt(n)'
                 /\ \A i \in 1..L - k : r2[i].id <= ver.last <=> i <= n
    <3>0. k = 0 /\ ~ver.pruned
      BY <1>17, <2>3, Zenon
    <3>1. PICK n \in 0..L : /\ ver.prev = AnchorAt(n)
                            /\ \A i \in 1..L : rows[i].id <= ver.last <=> i <= n
      BY <2>3, <3>0 DEF ChainInv, VerifiesOn, L
    <3>2. L - k = L /\ (n # 0 => n \in 1..L) /\ \A i \in 1..L : k + i = i
      BY <1>1, <3>0
    <3>3. \A i \in 1..L : r2[i] = rows[i]
      BY <1>11, <3>2
    <3>4. AnchorAt(n)' = AnchorAt(n)
      BY <1>8, <1>9, <3>0, <3>2, <3>3 DEF AnchorAt
    <3> QED
      BY <3>1, <3>2, <3>3, <3>4
  <2> QED
    BY <1>2, <1>8, <1>16, <1>20, <2>1, <2>3, Zenon DEF VerifiesOn
<1>24. ChainIntact'
  <2> SUFFICES ASSUME driver = "sqlite" PROVE Chained'
    BY <1>2 DEF ChainIntact
  <2>1. verifyAuditChainSegment(checkpoint.hash, rows)
    BY DEF ChainInv, ChainIntact, Chained
  <2>2. k \in Nat /\ L \in Nat /\ k <= L /\ L <= Len(rows)
    BY <1>1 DEF L
  <2>3. verifyAuditChainSegment(IF k = 0 THEN checkpoint.hash ELSE rows[k].hash, SubSeq(rows, k + 1, L))
    BY <1>0, <2>1, <2>2, RowFacts, SegmentSlice
  <2>4. cp.hash = IF k = 0 THEN checkpoint.hash ELSE rows[k].hash
    <3>1. CASE k = 0
      BY <1>9, <3>1
    <3>2. CASE k # 0
      <4>1. PICK n \in 1..L : rows[n].id = last /\ rows[n].hash = act[a].lastHash
        BY <1>2 DEF ChainInv, OneAtATime, L, last
      <4>2. n <= k /\ k \in 1..L
        <5>1. rows[n].id <= last
          BY <1>4, <4>1
        <5> QED
          BY <1>1, <1>10, <3>2, <4>1, <5>1
      <4>3. rows[k].id <= last
        BY <1>10, <4>2, <1>1
      <4>4. n = k
        BY <1>3, <4>1, <4>2, <4>3
      <4> QED
        BY <1>9, <3>2, <4>1, <4>4
    <3> QED
      BY <3>1, <3>2
  <2>5. verifyAuditChainSegment(cp.hash, r2)
    BY <1>1, <1>8, <2>3, <2>4
  <2>6. verifyAuditChainSegment(checkpoint.hash, rows)'
    BY <1>8, <1>9, <2>5 DEF verifyAuditChainSegment, computeAuditHash
  <2>7. \A i \in 1..L - k : r2[i].id > cp.id
    BY <1>12, <1>13, <1>14
  <2> QED
    BY <1>8, <1>9, <2>6, <2>7, Zenon DEF Chained
<1>25. MismatchOnlyFromPrune' /\ VerifiedThrough'
  <2>1. MismatchOnlyFromPrune'
    BY <1>2, <1>16, <1>17, Zenon DEF ChainInv, MismatchOnlyFromPrune
  <2> QED
    BY <1>16, <2>1 DEF ChainInv, VerifiedThrough
<1>26. IdsDrawn' /\ DrawnLast'
  <2>1. ASSUME NEW b \in Actors, NEW i \in 1..Len(act[b].ids), NEW j \in 1..L - k
        PROVE  r2[j].id # act[b].ids[i]
    <3>1. \A m \in 1..L : rows[m].id # act[b].ids[i]
      BY <2>1 DEF ChainInv, IdsDrawn, L
    <3> QED
      BY <1>11, <2>1, <3>1
  <2>2. \A b \in Actors : act'[b].ids # <<>> =>
          \A i \in 1..Len(act[b].ids), j \in 1..Len(rows') : rows'[j].id # act[b].ids[i]
    BY <1>8, <2>1
  <2>3. \A b \in Actors : act'[b].ids = <<>> \/ act'[b] = act[b]
    BY <1>7
  <2> QED
    BY <1>2, <1>7, <2>2, <2>3, DrawnFewer
<1> QED
  BY <1>18, <1>19, <1>21, <1>22, <1>23, <1>24, <1>25, <1>26 DEF ChainInv

\* What a compaction leaves: the rows that are no noise, chained afresh.
LEMMA CompactIs ==
    ASSUME ChainInv, Compact
    PROVE  LET N == Cardinality(Quiet)
           IN  /\ N \in Nat /\ Quiet \subseteq 1..Len(rows)
               /\ rows' \in Seq(Row) /\ Len(rows') = N
               /\ \A q \in Quiet : /\ Rank(q) \in 1..N
                                   /\ rows'[Rank(q)].id = rows[q].id
                                   /\ rows'[Rank(q)].entry = rows[q].entry
               /\ \A q, p \in Quiet : q < p => Rank(q) < Rank(p)
               /\ \A i \in 1..N : \E q \in Quiet : Rank(q) = i
               /\ verifyAuditChainSegment(<<>>, rows')
<1> DEFINE N == Cardinality(Quiet)
           Pos(i) == CHOOSE q \in Quiet : Rank(q) = i
           kept == [i \in 1..N |-> rows[Pos(i)]]
           entries == [i \in DOMAIN kept |-> kept[i].entry]
           ids == [i \in DOMAIN kept |-> kept[i].id]
           c == ChainOn(<<>>, entries, ids)
           R(i) == [kept[i] EXCEPT !.prev = c[i].prev, !.hash = c[i].hash]
<1>0. /\ Len(rows) \in Nat /\ rows \in Seq(Row)
      /\ \A i \in 1..Len(rows) : rows[i] \in Row /\ rows[i].entry \in Entries /\ rows[i].id \in Nat
  BY RowFacts DEF ChainInv
<1>1. Quiet \subseteq 1..Len(rows)
  BY DEF Quiet
<1>2. /\ N \in Nat
      /\ \A q \in Quiet : Rank(q) \in 1..N
      /\ \A q, p \in Quiet : q < p => Rank(q) < Rank(p)
      /\ \A i \in 1..N : \E q \in Quiet : Rank(q) = i
  BY <1>0, <1>1, Ranks, Zenon DEF Rank
<1>3. rows' = [i \in DOMAIN kept |-> R(i)]
  BY DEF Compact
<1> HIDE DEF N
<1>4. \A i \in 1..N : Pos(i) \in Quiet /\ Rank(Pos(i)) = i
  BY <1>2
<1>5. \A q \in Quiet : Pos(Rank(q)) = q
  <2> SUFFICES ASSUME NEW q \in Quiet PROVE Pos(Rank(q)) = q
    OBVIOUS
  <2> DEFINE p == Pos(Rank(q))
  <2>1. p \in Quiet /\ Rank(p) = Rank(q) /\ Rank(q) \in 1..N
    BY <1>2, <1>4, Zenon
  <2> HIDE DEF p
  <2>2. ~(Rank(p) < Rank(q)) /\ ~(Rank(q) < Rank(p))
    BY <1>2, <2>1
  <2>3. ~(p < q) /\ ~(q < p) /\ p \in Nat /\ q \in Nat
    BY <1>0, <1>1, <1>2, <2>1, <2>2
  <2>4. p = q
    BY <2>3
  <2> QED
    BY <2>4 DEF p
<1> HIDE DEF Pos
<1>6. /\ DOMAIN kept = 1..N
      /\ \A i \in 1..N : /\ kept[i] = rows[Pos(i)] /\ kept[i] \in Row /\ kept[i].entry \in Entries
                         /\ kept[i].id \in Nat
  BY <1>0, <1>1, <1>4
<1> HIDE DEF kept
<1>7. /\ entries \in Seq(Entries) /\ Len(entries) = N /\ \A i \in 1..N : entries[i] = kept[i].entry
  <2>1. entries \in [1..N -> Entries] /\ \A i \in 1..N : entries[i] = kept[i].entry
    BY <1>6
  <2> HIDE DEF entries
  <2> QED
    BY <1>2, <2>1, FunctionIsSeq
<1> HIDE DEF entries
<1> DEFINE nil == <<>>
<1>8. nil \in Hashes
  BY IdleTransaction
<1> HIDE DEF nil
<1>9. /\ c \in Seq(Row) /\ Len(c) = N
      /\ \A i \in 1..N :
                /\ c[i].hash = Append(c[i].prev, entries[i])
                /\ i = 1 => c[i].prev = nil
                /\ i > 1 => c[i].prev = c[i - 1].hash
  <2> DEFINE d == ChainOn(nil, entries, ids)
             E == Len(entries)
  <2>1. nil \in Hashes /\ entries \in Seq(Entries) /\ ids \in Seq(Nat) /\ Len(ids) = Len(entries)
    <3>1. ids \in [1..N -> Nat]
      BY <1>6
    <3> HIDE DEF ids
    <3> QED
      BY <1>2, <1>7, <1>8, <3>1, FunctionIsSeq
  <2> HIDE DEF ids
  <2>2. /\ d \in Seq(Row) /\ Len(d) = E
        /\ \A i \in 1..E :
                /\ d[i].id = ids[i]
                /\ d[i].entry = Stored(entries[i])
                /\ d[i].hash = Append(d[i].prev, entries[i])
                /\ i = 1 => d[i].prev = nil
                /\ i > 1 => d[i].prev = d[i - 1].hash
    BY <2>1, ChainOnIs, Zenon
  <2>3. E = N /\ d = c
    BY <1>7 DEF nil
  <2> HIDE DEF d, E, c
  <2> QED
    BY <2>2, <2>3
<1> HIDE DEF c
<1>10. ASSUME NEW i \in 1..N
       PROVE  /\ R(i) \in Row /\ R(i).id = rows[Pos(i)].id /\ R(i).entry = rows[Pos(i)].entry
              /\ R(i).prev = c[i].prev /\ R(i).hash = c[i].hash
  <2>1. c[i] \in Row
    BY <1>2, <1>9, ElementOfSeq
  <2>2. c[i].prev \in Hashes /\ c[i].hash \in Hashes /\ kept[i] \in Row /\ kept[i] = rows[Pos(i)]
    BY <1>6, <2>1 DEF Row
  <2> QED
    BY <2>2 DEF Row
<1> HIDE DEF R
<1> DEFINE r2 == rows'
<1>11. r2 \in [1..N -> Row] /\ \A i \in 1..N : r2[i] = R(i)
  BY <1>3, <1>6, <1>10
<1> HIDE DEF r2
<1>12. r2 \in Seq(Row) /\ Len(r2) = N
  BY <1>2, <1>11, FunctionIsSeq
<1>13. ASSUME NEW q \in Quiet
       PROVE  Rank(q) \in 1..N /\ r2[Rank(q)].id = rows[q].id /\ r2[Rank(q)].entry = rows[q].entry
  <2>1. Rank(q) \in 1..N /\ Pos(Rank(q)) = q
    BY <1>2, <1>5
  <2> QED
    BY <1>10, <1>11, <2>1
<1>14. verifyAuditChainSegment(nil, r2)
  <2> SUFFICES ASSUME NEW i \in 1..N
               PROVE  /\ r2[i].prev = IF i = 1 THEN nil ELSE r2[i - 1].hash
                      /\ r2[i].hash = Append(IF i = 1 THEN nil ELSE r2[i - 1].hash, r2[i].entry)
    BY <1>12, Zenon DEF verifyAuditChainSegment, computeAuditHash
  <2>1. i # 1 => i > 1 /\ i - 1 \in 1..N
    BY <1>2
  <2>2. r2[i].prev = c[i].prev /\ r2[i].hash = c[i].hash /\ r2[i].entry = entries[i]
    BY <1>6, <1>7, <1>10, <1>11
  <2>3. i # 1 => r2[i - 1].hash = c[i - 1].hash
    BY <1>10, <1>11, <2>1
  <2>4. /\ c[i].hash = Append(c[i].prev, entries[i])
        /\ c[i].prev = IF i = 1 THEN nil ELSE c[i - 1].hash
    BY <1>9, <2>1
  <2> QED
    BY <2>2, <2>3, <2>4
<1> QED
  BY <1>1, <1>2, <1>12, <1>13, <1>14, Zenon DEF N, r2, nil

\* The invariant survives a compaction (Compact).
LEMMA CompactKeeps == ASSUME ChainInv, Compact PROVE ChainInv'
<1> DEFINE N == Cardinality(Quiet)
           L == Len(rows)
           r2 == rows'
<1>0. TypeOK /\ IdsRise
  BY DEF ChainInv
<1>1. /\ N \in Nat /\ Quiet \subseteq 1..L
      /\ r2 \in Seq(Row) /\ Len(r2) = N
      /\ \A q \in Quiet : /\ Rank(q) \in 1..N /\ r2[Rank(q)].id = rows[q].id
      /\ \A q, p \in Quiet : q < p => Rank(q) < Rank(p)
      /\ \A i \in 1..N : \E q \in Quiet : Rank(q) = i
      /\ verifyAuditChainSegment(<<>>, r2)
  BY CompactIs, Zenon
<1>2. /\ checkpoint' = NoCheckpoint /\ UNCHANGED <<driver, nextId, drawn, act, ver>>
      /\ ver.pc # "scan" /\ \A a \in Actors : act[a].pc = "idle"
  BY DEF Compact, deleteAuditCheckpoint
<1>3. /\ \A i, j \in 1..L : i < j => rows[i].id < rows[j].id
      /\ \A i \in 1..L : 0 < rows[i].id /\ rows[i].id < nextId /\ rows[i].id \in Nat
      /\ checkpoint.id \in Nat /\ nextId \in Nat /\ 0 < nextId /\ L \in Nat
  BY <1>0, RowFacts DEF IdsRise, TypeOK
<1>4. NoCheckpoint \in [some: BOOLEAN, id: Nat, hash: Hashes, pruned: Nat]
      /\ NoCheckpoint.id = 0 /\ NoCheckpoint.hash = <<>>
  BY IdleTransaction DEF NoCheckpoint
<1>5. r2 = rows'
  OBVIOUS
<1> HIDE DEF N, L, r2
<1>6. ASSUME NEW i \in 1..N PROVE 0 < r2[i].id /\ r2[i].id < nextId /\ r2[i].id \in Nat
  <2>1. PICK q \in Quiet : Rank(q) = i
    BY <1>1
  <2>2. q \in 1..L /\ r2[i].id = rows[q].id
    BY <1>1, <2>1
  <2> QED
    BY <1>3, <2>2
<1>7. ASSUME NEW i \in 1..N, NEW j \in 1..N, i < j PROVE r2[i].id < r2[j].id
  <2>1. PICK q \in Quiet : Rank(q) = i
    BY <1>1
  <2>2. PICK p \in Quiet : Rank(p) = j
    BY <1>1
  <2>3. q \in 1..L /\ p \in 1..L /\ r2[i].id = rows[q].id /\ r2[j].id = rows[p].id
    BY <1>1, <2>1, <2>2
  <2>4. ~(p < q)
    BY <1>1, <1>7, <2>1, <2>2
  <2>5. p # q
    BY <1>1, <1>7, <2>1, <2>2
  <2>6. q < p
    BY <1>3, <2>3, <2>4, <2>5
  <2> QED
    BY <1>3, <2>3, <2>6
<1>8. TypeOK'
  BY <1>0, <1>1, <1>2, <1>4, <1>5 DEF TypeOK
<1>9. IdsRise'
  <2>1. /\ \A i, j \in 1..Len(r2) : i < j => r2[i].id < r2[j].id
        /\ \A i \in 1..Len(r2) : 0 < r2[i].id /\ r2[i].id < nextId
    BY <1>1, <1>6, <1>7
  <2> QED
    BY <1>2, <1>3, <1>4, <1>5, <2>1 DEF IdsRise
<1>10. WritesSome' /\ PrunesOld' /\ OneAtATime' /\ VerifiesOn'
  BY <1>2 DEF WritesSome, PrunesOld, OneAtATime, VerifiesOn
<1>11. ChainIntact'
  <2>1. verifyAuditChainSegment(checkpoint.hash, rows)'
    BY <1>1, <1>2, <1>4, <1>5 DEF verifyAuditChainSegment, computeAuditHash
  <2>2. \A i \in 1..Len(r2) : r2[i].id > 0
    BY <1>1, <1>6
  <2> QED
    BY <1>2, <1>4, <1>5, <2>1, <2>2 DEF ChainIntact, Chained
<1>12. MismatchOnlyFromPrune' /\ VerifiedThrough'
  BY <1>2 DEF ChainInv, MismatchOnlyFromPrune, VerifiedThrough
<1>13. IdsDrawn' /\ DrawnLast'
  <2>1. act' \in [Actors -> Transactions] /\ act' = act
    BY <1>0, <1>2 DEF TypeOK
  <2>2. \A b \in Actors : act'[b].ids = <<>>
    BY <1>2 DEF ChainInv, IdsDrawn
  <2> QED
    BY <1>2, <2>1, <2>2, DrawnFewer
<1> QED
  BY <1>8, <1>9, <1>10, <1>11, <1>12, <1>13 DEF ChainInv

-----------------------------------------------------------------------------
(* The audit chain: what follows.                                          *)

\* It holds of the empty table.
LEMMA ChainInitially == ASSUME Init PROVE ChainInv
<1> USE DEF Init
<1>1. rows \in Seq(Row) /\ Len(rows) = 0 /\ rows = <<>>
  BY EmptySeq
<1>2. NoCheckpoint \in [some: BOOLEAN, id: Nat, hash: Hashes, pruned: Nat]
      /\ NoCheckpoint.id = 0 /\ NoCheckpoint.hash = <<>>
  BY IdleTransaction DEF NoCheckpoint
<1>3. IdleVer \in Verifications /\ IdleVer.pc = "idle"
  BY IdleTransaction DEF IdleVer, Verifications
<1>4. \A a \in Actors : act[a] = IdleAct /\ act[a].pc = "idle"
  BY IdleTransaction
<1>5. TypeOK
  BY <1>1, <1>2, <1>3, IdleTransaction, ChainAssumption DEF TypeOK
<1>6. \A i \in 1..Len(rows) : FALSE
  BY <1>1
<1>7. IdsRise /\ Chained
  BY <1>1, <1>2, <1>6 DEF IdsRise, Chained, verifyAuditChainSegment
<1>8. WritesSome /\ PrunesOld /\ OneAtATime /\ VerifiesOn
  BY <1>3, <1>4 DEF WritesSome, PrunesOld, OneAtATime, VerifiesOn
<1>9. \A a \in Actors : /\ act[a].ids = <<>> /\ act[a].items = <<>>
                        /\ Len(act[a].ids) = 0 /\ Len(act[a].items) = 0
  BY <1>4, EmptySeq DEF IdleAct
<1>10. IdsDrawn /\ DrawnLast
  BY <1>9 DEF IdsDrawn, DrawnLast
<1> QED
  BY <1>3, <1>5, <1>7, <1>8, <1>10 DEF ChainInv, ChainIntact, MismatchOnlyFromPrune, VerifiedThrough

\* Every step keeps the invariant.
LEMMA ChainStep == ASSUME ChainInv, [Next]_vars PROVE ChainInv'
<1>1. CASE UNCHANGED vars
  BY <1>1 DEF vars, ChainInv, TypeOK, IdsRise, IdsDrawn, DrawnLast, WritesSome, PrunesOld, OneAtATime, VerifiesOn, AnchorAt,
              NewestId, latestAuditHash, ChainIntact, Chained, verifyAuditChainSegment,
              MismatchOnlyFromPrune, VerifiedThrough
<1>2. CASE Next
  BY <1>2, WriteBeginKeeps, WriteInsertKeeps, WriteCommitKeeps, RollbackKeeps, PruneReadKeeps, PruneCommitKeeps,
     CompactKeeps, VerifyStartKeeps, VerifyScanKeeps DEF Next
<1> QED
  BY <1>1, <1>2

\* The invariant holds throughout.
LEMMA ChainInvariant == Spec => []ChainInv
BY ChainInitially, ChainStep, PTL DEF Spec

\* On SQLite the table verifies from its checkpoint at every moment, for any
\* number of writers, batch sizes and entries (CreateBatch, pruneBatch, Compact).
THEOREM ChainStaysIntact == Spec => []ChainIntact
<1>1. ChainInv => ChainIntact
  BY DEF ChainInv
<1> QED
  BY <1>1, ChainInvariant, PTL

\* A verification that fails on SQLite ran into a prune, and one that succeeds
\* has come as far as the row that was the newest at its start (VerifyChain).
THEOREM VerificationIsSound == Spec => []VerificationSound
<1>1. ChainInv => VerificationSound
  BY DEF ChainInv, VerificationSound
<1> QED
  BY <1>1, ChainInvariant, PTL

\* The table is changed by commits of writes and prunes and by compactions.
LEMMA TableChanges ==
    ASSUME [Next]_vars, rows' # rows
    PROVE  Compact \/ \E a \in Actors : WriteCommit(a) \/ PruneCommit(a)
<1>1. ~UNCHANGED vars
  BY DEF vars
<1>2. \A a \in Actors : ~WriteInsert(a) /\ ~Rollback(a)
  BY Zenon DEF WriteInsert, Rollback
<1>3. \A a \in Actors : ~PruneRead(a)
  BY Zenon DEF PruneRead
<1>4. ~VerifyStart /\ ~VerifyScan
  BY Zenon DEF VerifyStart, VerifyScan
<1>5. \A a \in Actors, k \in 1..MaxInsert : \A kinds \in [1..k -> Kinds], f \in Fracs : ~WriteBegin(a, kinds, f)
  BY Zenon DEF WriteBegin
<1> QED
  BY <1>1, <1>2, <1>3, <1>4, <1>5, Zenon DEF Next

\* The checkpoint counts exactly the rows that prunes remove, when several
\* hubs prune at once too (pruneBatch).
THEOREM PruningCounts == Spec => PrunedCounted
<1>1. ASSUME ChainInv, [Next]_vars, Len(rows') < Len(rows), checkpoint'.some
      PROVE  checkpoint'.pruned = checkpoint.pruned + Len(rows) - Len(rows')
  <2>0. Len(rows) \in Nat /\ ~(Len(rows) < Len(rows))
    BY <1>1, RowFacts DEF ChainInv
  <2>1. rows' # rows
    BY <1>1, <2>0
  <2>2. ASSUME NEW a \in Actors, WriteCommit(a) PROVE FALSE
    <3> DEFINE L == Len(rows)
               N == Len(rows')
    <3>1. rows' \in Seq(Row) /\ L < N
      BY <1>1, <2>2, WriteCommitIs, Zenon
    <3>2. N \in Nat /\ L \in Nat /\ N < L
      BY <1>1, <2>0, <3>1, LenProperties
    <3> HIDE DEF L, N
    <3> QED
      BY <3>1, <3>2
  <2>3. ASSUME Compact PROVE FALSE
    <3>1. checkpoint' = NoCheckpoint
      BY <2>3, Zenon DEF Compact, deleteAuditCheckpoint
    <3>2. NoCheckpoint.some = FALSE
      BY Zenon DEF NoCheckpoint
    <3> QED
      BY <1>1, <3>1, <3>2, Zenon
  <2>4. PICK a \in Actors : PruneCommit(a)
    BY <1>1, <2>1, <2>2, <2>3, TableChanges
  <2> DEFINE k == Through(act[a].last)
             L == Len(rows)
             n == checkpoint.pruned
  <2>5. /\ L \in Nat /\ k \in Nat /\ Len(rows') = L - k
        /\ k # 0 => checkpoint' = [some |-> TRUE, id |-> act[a].last, hash |-> act[a].lastHash,
                                   pruned |-> checkpoint.pruned + k]
    BY <1>1, <2>4, PruneCommitIs, Zenon
  <2>6. n \in Nat
    BY <1>1 DEF ChainInv, TypeOK
  <2>7. Len(rows') < L
    BY <1>1
  <2> DEFINE l2 == Len(rows')
  <2>8. k # 0 => checkpoint'.pruned = n + k
    BY <2>5
  <2>9. l2 < L /\ l2 = L - k
    BY <2>5, <2>7
  <2> HIDE DEF k, L, n, l2
  <2>10. checkpoint'.pruned = n + L - l2
    BY <2>5, <2>6, <2>8, <2>9
  <2> QED
    BY <2>10 DEF n, L, l2
<1> QED
  BY <1>1, ChainInvariant, PTL DEF Spec, PrunedCounted

\* The entries of a table, as the abstract log.
LEMMA LogOf ==
    ASSUME NEW q \in Seq(Row)
    PROVE  LET w == [i \in 1..Len(q) |-> q[i].entry]
           IN  w \in Seq(Entries) /\ Len(w) = Len(q) /\ \A i \in 1..Len(q) : w[i] = q[i].entry
<1> DEFINE w == [i \in 1..Len(q) |-> q[i].entry]
<1>1. Len(q) \in Nat /\ \A i \in 1..Len(q) : q[i] \in Row
  BY LenProperties, ElementOfSeq
<1>2. \A t \in Row : t.entry \in Entries
  BY DEF Row
<1>3. w \in [1..Len(q) -> Entries] /\ \A i \in 1..Len(q) : w[i] = q[i].entry
  BY <1>1, <1>2
<1> HIDE DEF w
<1>4. w \in Seq(Entries) /\ Len(w) = Len(q)
  BY <1>1, <1>3, FunctionIsSeq
<1> QED
  BY <1>3, <1>4 DEF w

\* The table implements the log of AuditLog, append-only with SQLite: writes
\* extend it, prunes take entries from its front, there past retention only,
\* and leave the newest, compaction drops the noise and keeps the order.
THEOREM ChainImplementsLog == Spec => ImplementsAuditLog
<1> DEFINE w == [i \in 1..Len(rows) |-> rows[i].entry]
           o == driver = "sqlite"
<1>1. ASSUME Init PROVE Log!Init
  <2>1. rows = <<>> /\ rows \in Seq(Row)
    BY <1>1, EmptySeq DEF Init
  <2>2. w \in Seq(Entries) /\ Len(w) = Len(rows) /\ Len(rows) = 0
    BY <2>1, LogOf, EmptySeq
  <2> HIDE DEF w
  <2>3. w = <<>>
    BY <2>2, EmptySeq
  <2> QED
    BY <2>3, Zenon DEF Log!Init, w
<1>2. ASSUME ChainInv, [Next]_vars
      PROVE  \/ Log!Extend \/ (\E n \in 1..Len(w) : Log!Retain(n)) \/ Log!Compact
             \/ UNCHANGED w
  <2> DEFINE L == Len(rows)
  <2>0. rows \in Seq(Row) /\ L \in Nat
    BY <1>2, RowFacts DEF ChainInv
  <2>1. w \in Seq(Entries) /\ Len(w) = L /\ \A i \in 1..L : w[i] = rows[i].entry
    BY <2>0, LogOf, Zenon
  <2> DEFINE w2 == w'
             r2 == rows'
  <2>2. ASSUME r2 \in Seq(Row)
        PROVE  w2 \in Seq(Entries) /\ Len(w2) = Len(r2) /\ \A i \in 1..Len(r2) : w2[i] = r2[i].entry
    BY <2>2, LogOf, Zenon
  <2>3. ASSUME NEW a \in Actors, WriteCommit(a) PROVE Log!Extend
    <3> DEFINE N == Len(r2)
    <3>1. PICK c \in Seq(Row) :
            /\ r2 \in Seq(Row) /\ Rising(r2) /\ L < N
            /\ \A j \in 1..L : \E i \in 1..N : r2[i] = rows[j]
            /\ driver = "sqlite" => r2 = rows \o c
      BY <1>2, <2>3, WriteCommitIs, Zenon
    <3>2. w2 \in Seq(Entries) /\ Len(w2) = N /\ \A i \in 1..N : w2[i] = r2[i].entry
      BY <2>2, <3>1
    <3>3. /\ \A i \in 1..N : r2[i].id \in Nat
          /\ \A i, j \in 1..N : i < j => r2[i].id < r2[j].id
          /\ N \in Nat
      BY <3>1, LenProperties DEF Rising
    <3>4. \A i, j \in 1..L : i < j => rows[i].id < rows[j].id
      BY <1>2 DEF ChainInv, IdsRise
    <3>5. driver = "sqlite" => \A i \in 1..L : i \in 1..N /\ r2[i] = rows[i]
      <4> SUFFICES ASSUME driver = "sqlite", NEW i \in 1..L PROVE i \in 1..N /\ r2[i] = rows[i]
        OBVIOUS
      <4> DEFINE z == rows \o c
                 M == Len(c)
      <4>1. M \in Nat /\ \A k \in 1..L + M : z[k] = IF k <= L THEN rows[k] ELSE c[k - L]
        BY <2>0, ConcatProperties, LenProperties
      <4>2. r2 = z
        BY <3>1
      <4> HIDE DEF z, M, L, N, r2
      <4>3. i \in 1..L + M /\ i <= L /\ i \in 1..N
        BY <2>0, <3>1, <3>3, <4>1
      <4> QED
        BY <4>1, <4>2, <4>3
    <3> HIDE DEF w, w2, r2, L, N
    <3> DEFINE place == [j \in 1..L |-> IF driver = "sqlite" THEN j ELSE CHOOSE i \in 1..N : r2[i] = rows[j]]
    <3>6. \A j \in 1..L : /\ place[j] \in 1..N /\ r2[place[j]] = rows[j]
                          /\ driver = "sqlite" => place[j] = j
      <4>1. CASE driver = "sqlite"
        BY <3>5, <4>1
      <4>2. CASE driver # "sqlite"
        BY <3>1, <4>2
      <4> QED
        BY <4>1, <4>2
    <3>7. place \in [1..L -> 1..N]
      BY <3>6
    <3> HIDE DEF place
    <3>8. \A i, j \in 1..L : i < j => place[i] < place[j]
      <4> SUFFICES ASSUME NEW i \in 1..L, NEW j \in 1..L, i < j PROVE place[i] < place[j]
        OBVIOUS
      <4>1. r2[place[i]].id < r2[place[j]].id
        BY <3>4, <3>6
      <4> DEFINE x == place[i]
                 y == place[j]
      <4>2. x \in 1..N /\ y \in 1..N /\ r2[x].id < r2[y].id
        BY <3>6, <4>1
      <4> HIDE DEF x, y
      <4>3. ~(y < x) /\ x # y
        BY <3>3, <4>2
      <4>4. x < y
        BY <3>3, <4>2, <4>3
      <4> QED
        BY <4>4 DEF x, y
    <3>9. \A i \in 1..L : w2[place[i]] = w[i]
      BY <2>1, <3>2, <3>6
    <3>10. \E pl \in [1..Len(w) -> 1..Len(w2)] :
             /\ \A i, j \in 1..Len(w) : i < j => pl[i] < pl[j]
             /\ \A i \in 1..Len(w) : w2[pl[i]] = w[i] /\ (o => pl[i] = i)
      BY <2>1, <3>2, <3>6, <3>7, <3>8, <3>9
    <3>11. Len(w2) > Len(w)
      BY <2>0, <2>1, <3>1, <3>2, <3>3
    <3> QED
      BY <3>2, <3>10, <3>11, Zenon DEF Log!Extend, w, w2
  <2>4. ASSUME NEW a \in Actors, PruneCommit(a) PROVE UNCHANGED w \/ \E n \in 1..Len(w) : Log!Retain(n)
    <3> DEFINE k == Through(act[a].last)
    <3>1. /\ k \in Nat /\ k < L
          /\ \A i \in 1..L : rows[i].id <= act[a].last <=> i <= k
          /\ r2 \in Seq(Row) /\ Len(r2) = L - k
          /\ \A i \in 1..L - k : r2[i] = rows[k + i]
      BY <1>2, <2>4, PruneCommitIs, Zenon
    <3>2. w2 \in Seq(Entries) /\ Len(w2) = L - k /\ \A i \in 1..L - k : w2[i] = r2[i].entry
      BY <2>2, <3>1
    <3>3. o => \A i \in 1..L : rows[i].id <= act[a].last => ~Recent(rows[i].entry)
      BY <1>2, <2>4 DEF ChainInv, PrunesOld, PruneCommit
    <3>4. \A i \in 1..k : i \in 1..L /\ i <= k
      BY <2>0, <3>1
    <3>5. o => \A i \in 1..k : ~Recent(rows[i].entry)
      BY <3>1, <3>3, <3>4, Zenon
    <3> HIDE DEF w, w2, r2, L, k
    <3>6. o => \A i \in 1..k : ~Recent(w[i])
      BY <2>1, <3>4, <3>5
    <3>7. w2 = SubSeq(w, k + 1, L)
      <4> DEFINE z == SubSeq(w, k + 1, L)
      <4>1. /\ k + 1 \in Nat /\ 1 <= k + 1 /\ k + 1 <= L + 1 /\ L <= Len(w)
            /\ L - (k + 1) + 1 = L - k
            /\ \A i \in 1..L - k : k + 1 + i - 1 = k + i /\ k + i \in 1..L
        BY <2>0, <2>1, <3>1
      <4>2. /\ z \in Seq(Entries) /\ Len(z) = L - (k + 1) + 1
            /\ \A i \in 1..L - (k + 1) + 1 : z[i] = w[k + 1 + i - 1]
        BY <2>0, <2>1, <4>1, Slice
      <4> HIDE DEF z
      <4>3. Len(z) = L - k /\ \A i \in 1..L - k : z[i] = w[k + i]
        BY <4>1, <4>2, Zenon
      <4>4. \A i \in 1..L - k : w2[i] = z[i]
        BY <2>1, <3>1, <3>2, <4>1, <4>3
      <4>5. w2 = z
        BY <3>2, <4>2, <4>3, <4>4, SeqEqual
      <4> QED
        BY <4>5 DEF z
    <3>8. CASE k = 0
      <4>1. L - k = L /\ \A i \in 1..L : k + i = i
        BY <2>0, <3>8
      <4>2. \A i \in 1..L : w2[i] = w[i]
        BY <2>1, <3>1, <3>2, <4>1
      <4>3. w2 = w
        BY <2>1, <3>2, <4>1, <4>2, SeqEqual
      <4> QED
        BY <4>3 DEF w2
    <3>9. CASE k # 0
      <4>1. k \in 1..Len(w) /\ k < Len(w) /\ w2 = SubSeq(w, k + 1, Len(w))
        BY <2>0, <2>1, <3>1, <3>7, <3>9
      <4>2. PICK n \in 1..Len(w) : /\ n < Len(w) /\ (o => \A i \in 1..n : ~Recent(w[i]))
                                   /\ w2 = SubSeq(w, n + 1, Len(w))
        BY <3>6, <4>1
      <4>3. Log!Retain(n)
        BY <4>2, Zenon DEF Log!Retain, w, w2
      <4> QED
        BY <4>3
    <3> QED
      BY <3>8, <3>9
  <2>5. ASSUME Compact PROVE Log!Compact
    <3> DEFINE N == Cardinality(Quiet)
    <3>1. /\ N \in Nat /\ Quiet \subseteq 1..L /\ r2 \in Seq(Row) /\ Len(r2) = N
          /\ \A q \in Quiet : Rank(q) \in 1..N /\ r2[Rank(q)].entry = rows[q].entry
      BY <1>2, <2>5, CompactIs, Zenon
    <3>2. w2 \in Seq(Entries) /\ Len(w2) = N /\ \A i \in 1..N : w2[i] = r2[i].entry
      BY <2>2, <3>1
    <3> HIDE DEF w2, r2, N, w, L
    <3>3. \A q \in Quiet : w2[Rank(q)] = w[q]
      BY <2>1, <3>1, <3>2
    <3>4. {i \in 1..Len(w) : ~auditRowIsAccessNoise(w[i])} = Quiet
      <4>1. \A i \in 1..L : w[i] = rows[i].entry
        BY <2>1
      <4> QED
        BY <2>1, <4>1 DEF Quiet, L
    <3>5. Log!Quiet = Quiet
      BY <3>4, Zenon DEF Log!Quiet, w
    <3>6. \A q \in Log!Quiet : w2[Cardinality({k \in Log!Quiet : k <= q})] = w[q]
      BY <3>3, <3>5, Zenon DEF Rank
    <3>7. w2 \in Seq(Entries) /\ Len(w2) = Cardinality(Log!Quiet)
      BY <3>2, <3>5 DEF N
    <3> QED
      BY <3>6, <3>7, Zenon DEF Log!Compact, w, w2, Log!Cardinality, Cardinality
  <2>6. CASE rows' = rows
    BY <2>6
  <2>7. CASE rows' # rows
    BY <1>2, <2>3, <2>4, <2>5, <2>7, TableChanges
  <2> QED
    BY <2>6, <2>7
<1>3. ASSUME [Next]_vars PROVE UNCHANGED o
  <2>1. CASE UNCHANGED vars
    BY <2>1 DEF vars
  <2>2. CASE Next
    BY <2>2, Zenon DEF Next, WriteBegin, WriteInsert, WriteCommit, Rollback, PruneRead, PruneCommit, Compact,
       VerifyStart, VerifyScan
  <2> QED
    BY <1>3, <2>1, <2>2
<1>4. ASSUME ChainInv, [Next]_vars PROVE [Log!Next]_<<w, o>>
  <2>1. UNCHANGED o
    BY <1>3, <1>4
  <2>2. CASE UNCHANGED w
    BY <2>1, <2>2
  <2>3. CASE Log!Extend \/ (\E n \in 1..Len(w) : Log!Retain(n)) \/ Log!Compact
    BY <2>1, <2>3, Zenon DEF Log!Next
  <2> QED
    BY <1>2, <1>4, <2>2, <2>3
<1> QED
  BY <1>1, <1>4, ChainInvariant, PTL DEF Spec, ImplementsAuditLog, Log!Spec
==============================================================================
