--------------------- MODULE ApplicationCatalogueProofs ---------------------
(***************************************************************************)
(* Names mean one application for good, and a restart keeps what they      *)
(* mean, for any number of workspaces, names, requests and changes.        *)
(***************************************************************************)
EXTENDS ApplicationCatalogue, FiniteSetTheorems, SequenceTheorems,
        WellFoundedInduction, TLAPS

(* The tables give a name at most one meaning: an alias is no identity,    *)
(* and belongs to one that exists. *)
TablesAgree ==
    \A y \in Names : owner[y] # None => service[y] = None /\ service[owner[y]] # None

(* Whatever was resolved is still what the tables say. *)
MeantIsStored ==
    \A x \in Names : \A d \in meant[x] :
        d \in Names /\ (owner[x] = d \/ (d = x /\ service[x] # None))

(* The rows have identities, unless the store has none at all. *)
RowsAreKnown ==
    \/ \A w \in Present(rows.order) : \A x \in rows.ids[w] : service[x] # None
    \/ \A y \in Names : service[y] = None /\ owner[y] = None

(* What the registry publishes is in the tables. *)
MemoryIsStored ==
    up => /\ rows.order = order
          /\ \A w \in Present(order) : rows.ids[w] = {b.id : b \in apps[w]}
          /\ \A w \in Present(order) : \A b \in apps[w] :
               /\ service[b.id] = b.service
               /\ \A y \in b.aliases : owner[y] = b.id

(* No workspace is there twice, and the sessions among them are the ones   *)
(* with a baseline.                                                        *)
Marked(o, S) ==
    /\ \A i, j \in DOMAIN o : o[i] = o[j] => i = j
    /\ \A w \in Environments : S[w] = None
    /\ \A s \in Sessions : s \in Present(o) => S[s] # None

SessionsAreMarked == Marked(order, session) /\ Marked(rows.order, rows.session)

(* RepositoryIsCurrent is inductive with SessionsAreMarked: the last       *)
(* writer of a transaction is an environment or a session of its own,      *)
(* since a pinned copy writes nothing that an earlier workspace has.       *)
IInv ==
    /\ TypeOK
    /\ TablesAgree
    /\ MeantIsStored
    /\ RowsAreKnown
    /\ MemoryIsStored
    /\ SessionsAreMarked
    /\ RepositoryIsCurrent
-----------------------------------------------------------------------------
LEMMA BindingFacts ==
    ASSUME NEW b \in Binding
    PROVE  /\ b.id \in Names /\ b.service \in Services /\ b.service # None
           /\ b.repository \in Repositories \cup {None}
           /\ b.aliases \in SUBSET Names
BY NamesAssumption DEF Binding

LEMMA ConfigFacts ==
    ASSUME NEW c \in Config
    PROVE  /\ c.id \in Names
           /\ c.service \in Services \cup {None}
           /\ c.repository \in Repositories \cup {None}
           /\ c.aliases \in SUBSET Names
BY DEF Config

LEMMA BlankType == ASSUME NEW x \in Names PROVE Blank(x) \in Binding
BY NamesAssumption DEF Blank, Binding

LEMMA FullType == ASSUME NEW b \in Binding PROVE Full(b) \in Config
BY BindingFacts DEF Full, Config

LEMMA OverlayType ==
    ASSUME NEW b \in Binding, NEW c \in Config
    PROVE  Overlay(b, c) \in Binding
<1> USE BindingFacts, ConfigFacts
<1> DEFINE s == IF c.service = None THEN b.service ELSE c.service
           r == IF c.repository = None THEN b.repository ELSE c.repository
           al == IF c.aliases = {} THEN b.aliases ELSE c.aliases
<1>1. s \in Services /\ r \in Repositories \cup {None} /\ al \in SUBSET Names
    OBVIOUS
<1>2. b.id \in Names
    OBVIOUS
<1>3. Overlay(b, c) = [id |-> b.id, service |-> s, repository |-> r, aliases |-> al]
    BY DEF Overlay
<1> HIDE DEF s, r, al
<1> QED BY <1>1, <1>2, <1>3 DEF Binding

LEMMA PreviousType ==
    ASSUME NEW A \in SUBSET Binding, NEW c \in Config
    PROVE  Previous(A, c) \in Binding
BY BlankType, ConfigFacts DEF Previous

LEMMA FromConfigsType ==
    ASSUME NEW A \in SUBSET Binding, NEW list \in SUBSET Config
    PROVE  FromConfigs(A, list) \in SUBSET Binding
BY PreviousType, OverlayType DEF FromConfigs

LEMMA ConfigsType ==
    ASSUME NEW A \in SUBSET Binding PROVE Configs(A) \in SUBSET Config
BY FullType DEF Configs

LEMMA MergedType ==
    ASSUME NEW b \in Binding, NEW old \in Binding, NEW next \in Binding,
           NEW pinned \in BOOLEAN
    PROVE  Merged(b, old, next, pinned) \in Binding
<1> DEFINE m ==
          [id         |-> b.id,
           service    |-> IF b.service = old.service THEN next.service ELSE b.service,
           repository |-> IF b.repository = old.repository THEN next.repository
                          ELSE b.repository,
           aliases    |-> IF b.aliases = old.aliases /\ ~pinned THEN next.aliases
                          ELSE b.aliases,
           exact      |-> TRUE]
<1>1. m \in Config
    BY BindingFacts DEF Config
<1> HIDE DEF m
<1> QED BY <1>1, OverlayType DEF Merged, m
-----------------------------------------------------------------------------
LEMMA BoundType ==
    ASSUME NEW o \in Seq(Workspaces), NEW A \in [Workspaces -> SUBSET Binding]
    PROVE  /\ Present(o) \subseteq Workspaces
           /\ Bound(o, A) \subseteq Binding
           /\ \A w \in Present(o) : \A b \in A[w] : b \in Bound(o, A)
<1>1. Present(o) \subseteq Workspaces
    BY DEF Present
<1> QED BY <1>1 DEF Bound

(* What an accepted transaction makes of the tables: its bindings are in   *)
(* them, and what was there before stays.                                  *)
LEMMA Stored ==
    ASSUME TypeOK, NEW B \in SUBSET Binding, Accepted(B),
           \A b \in B : b.id \notin b.aliases
    PROVE  /\ \A b \in B : ServiceAfter(B, b.id) = b.service
           /\ \A b \in B : \A y \in b.aliases :
                OwnerAfter(B, y) = b.id /\ ServiceAfter(B, y) = None
           /\ \A x \in Names : service[x] # None => ServiceAfter(B, x) = service[x]
           /\ \A x \in Names : owner[x] # None => /\ OwnerAfter(B, x) = owner[x]
                                                 /\ ServiceAfter(B, x) = service[x]
           /\ \A x \in Names : OwnerAfter(B, x) # owner[x] =>
                \E b \in B : x \in b.aliases
           /\ \A x \in Names : ServiceAfter(B, x) \in Services \cup {None}
           /\ \A x \in Names : OwnerAfter(B, x) \in Names \cup {None}
<1>t. \A b \in B : b.id \in Names /\ b.service \in Services /\ b.aliases \subseteq Names
    BY BindingFacts
<1>n. None \notin Services /\ None \notin Names
    BY NamesAssumption
<1>1. ASSUME NEW b \in B PROVE ServiceAfter(B, b.id) = b.service
    <2>1. service[b.id] \in {None, b.service}
        BY DEF Accepted
    <2>2. \A d \in B : d.id = b.id => d.service = b.service
        BY DEF Accepted
    <2>3. CASE service[b.id] = None
        <3>1. (CHOOSE d \in B : d.id = b.id).service = b.service
            BY <2>2
        <3> QED BY <2>3, <3>1 DEF ServiceAfter
    <2> QED BY <2>1, <2>3 DEF ServiceAfter
<1>2. ASSUME NEW b \in B, NEW y \in b.aliases
      PROVE  OwnerAfter(B, y) = b.id /\ ServiceAfter(B, y) = None
    <2>1. owner[y] \in {None, b.id} /\ service[y] = None
        BY DEF Accepted
    <2>2. \A d \in B : y \in d.aliases => d.id = b.id
        BY DEF Accepted, NamesOf
    <2>3. \A d \in B : d.id # y
        BY DEF Accepted, NamesOf
    <2>4. ServiceAfter(B, y) = None
        BY <2>1, <2>3 DEF ServiceAfter
    <2>5. (CHOOSE d \in B : y \in d.aliases).id = b.id
        BY <2>2
    <2>6. b.id # None
        BY <1>t, <1>n
    <2> QED BY <2>1, <2>4, <2>5, <2>6 DEF OwnerAfter
<1>3. ASSUME NEW x \in Names, owner[x] # None
      PROVE  OwnerAfter(B, x) = owner[x] /\ ServiceAfter(B, x) = service[x]
    <2>1. \A b \in B : b.id # x
        BY <1>3 DEF Accepted
    <2> QED BY <1>3, <2>1 DEF OwnerAfter, ServiceAfter
<1>4. \A x \in Names : service[x] # None => ServiceAfter(B, x) = service[x]
    BY DEF ServiceAfter
<1>5. \A x \in Names : OwnerAfter(B, x) # owner[x] => \E b \in B : x \in b.aliases
    BY DEF OwnerAfter
<1>6. ASSUME NEW x \in Names PROVE ServiceAfter(B, x) \in Services \cup {None}
    <2>1. service[x] \in Services \cup {None}
        BY DEF TypeOK
    <2>2. (\E b \in B : b.id = x) => (CHOOSE b \in B : b.id = x) \in B
        OBVIOUS
    <2> QED BY <1>t, <2>1, <2>2 DEF ServiceAfter
<1>7. ASSUME NEW x \in Names PROVE OwnerAfter(B, x) \in Names \cup {None}
    <2>1. owner[x] \in Names \cup {None}
        BY DEF TypeOK
    <2>2. (\E b \in B : x \in b.aliases) => (CHOOSE b \in B : x \in b.aliases) \in B
        OBVIOUS
    <2> QED BY <1>t, <2>1, <2>2 DEF OwnerAfter
<1> QED BY <1>1, <1>2, <1>3, <1>4, <1>5, <1>6, <1>7

LEMMA RepositoryType ==
    ASSUME TypeOK, NEW o \in Seq(Workspaces), NEW A \in [Workspaces -> SUBSET Binding],
           NEW S, NEW x \in Names
    PROVE  RepositoryAfter(o, A, S, x) \in Repositories \cup {None}
<1> DEFINE writers == {i \in DOMAIN o : Writes(o, A, S, i, x)}
           last == {b \in Bound(o, A) : b.id = x /\ \E i \in writers :
                      b \in A[o[i]] /\ \A j \in writers : j <= i}
<1>1. last \subseteq Binding
    BY BoundType
<1>2. last # {} => (CHOOSE b \in last : TRUE) \in last
    OBVIOUS
<1>3. last # {} => (CHOOSE b \in last : TRUE).repository \in Repositories \cup {None}
    <2> HIDE DEF last
    <2> QED BY <1>1, <1>2, BindingFacts
<1>4. repository[x] \in Repositories \cup {None}
    BY DEF TypeOK
<1>5. RepositoryAfter(o, A, S, x)
        = IF last = {} THEN repository[x] ELSE (CHOOSE b \in last : TRUE).repository
    BY DEF RepositoryAfter
<1> HIDE DEF last, writers
<1> QED BY <1>3, <1>4, <1>5
-----------------------------------------------------------------------------
(* Repositories. *)

(* Of finitely many workspaces one is the last. *)
LEMMA LastExists ==
    ASSUME NEW n \in Nat, NEW W, W \subseteq 1 .. n, W # {}
    PROVE  \E m \in W : \A j \in W : j <= m
<1> DEFINE Less == OpToRel(<, Nat)
           Left == {n - i : i \in W}
<1>1. IsWellFoundedOn(Less, Nat)
    BY NatLessThanWellFounded
<1>0. \A i \in W : i \in Nat /\ n - i \in Nat
    OBVIOUS
<1>2. Left \subseteq Nat /\ Left # {}
    BY <1>0
<1> HIDE DEF Less
<1>3. PICK x \in Left : \A y \in Left : <<y, x>> \notin Less
    <2> HIDE DEF Left
    <2> QED BY <1>1, <1>2, WFMin
<1>4. PICK m \in W : x = n - m
    OBVIOUS
<1>5. ASSUME NEW j \in W, ~ (j <= m)
      PROVE  FALSE
    <2>1. n - j < n - m
        BY <1>0, <1>5
    <2>3. n - j \in Nat /\ n - m \in Nat /\ n - j \in Left
        BY <1>0
    <2>2. <<n - j, x>> \in Less
        BY <1>4, <2>1, <2>3 DEF Less, OpToRel
    <2> QED BY <1>3, <2>2, <2>3
<1> QED BY <1>5

(* The last workspace that gives an identity a repository decides, in a    *)
(* workspace without two applications of one name.                         *)
LEMMA LastWriterDecides ==
    ASSUME NEW o, NEW A, NEW S, NEW x, NEW m \in DOMAIN o, Writes(o, A, S, m, x),
           \A j \in DOMAIN o : Writes(o, A, S, j, x) => j <= m,
           \A b, d \in A[o[m]] : b # d => NamesOf(b) \cap NamesOf(d) = {},
           DOMAIN o \subseteq Nat,
           NEW d \in A[o[m]], d.id = x
    PROVE  RepositoryAfter(o, A, S, x) = d.repository
<1> DEFINE writers == {i \in DOMAIN o : Writes(o, A, S, i, x)}
           last == {b \in Bound(o, A) : b.id = x /\ \E i \in writers :
                      b \in A[o[i]] /\ \A j \in writers : j <= i}
<1>1. \A b \in A[o[m]] : b.id = x => b = d
    BY DEF NamesOf
<1>2. m \in writers /\ \A j \in writers : j <= m
    OBVIOUS
<1>3. \A i \in writers : (\A j \in writers : j <= i) => i = m
    BY <1>2
<1>4. d \in Bound(o, A)
    BY DEF Bound, Present
<1>5. last = {d}
    <2> HIDE DEF writers
    <2> QED BY <1>1, <1>2, <1>3, <1>4
<1>6. RepositoryAfter(o, A, S, x)
        = IF last = {} THEN repository[x] ELSE (CHOOSE b \in last : TRUE).repository
    BY DEF RepositoryAfter
<1> HIDE DEF last
<1> QED BY <1>5, <1>6

(* After a transaction the repository of an identity that an environment   *)
(* gives one is current, whatever the sessions have pinned.                *)
LEMMA CommitIsCurrent ==
    ASSUME TypeOK, NEW o \in Seq(Workspaces), NEW A \in [Workspaces -> SUBSET Binding],
           NEW S, Marked(o, S), Commit(o, A, S)
    PROVE  RepositoryIsCurrent'
<1>1. /\ order' = o /\ apps' = A /\ session' = S
      /\ \A x \in Names : repository'[x] = RepositoryAfter(o, A, S, x)
      /\ \A w \in Present(o) : \A b, d \in A[w] : b # d => NamesOf(b) \cap NamesOf(d) = {}
    BY DEF Commit, Valid
<1>2. Len(o) \in Nat /\ DOMAIN o = 1 .. Len(o)
    OBVIOUS
<1>3. ASSUME NEW x \in Names, NEW w \in Environments, w \in Present(o),
             NEW b \in A[w], b.id = x, b.repository # None
      PROVE  \/ \E v \in Environments : v \in Present(o) /\ \E d \in A[v] :
                    d.id = x /\ d.repository # None
                    /\ d.repository = RepositoryAfter(o, A, S, x)
             \/ \E s \in Sessions : s \in Present(o) /\ \E d \in A[s] :
                    d.id = x /\ \A e \in S[s].baseline : e.id # x
    <2>1. PICK i \in DOMAIN o : o[i] = w
        BY <1>3 DEF Present
    <2>2. Writes(o, A, S, i, x)
        BY <1>3, <2>1 DEF Writes, Inherits, Marked
    <2> DEFINE writers == {j \in DOMAIN o : Writes(o, A, S, j, x)}
    <2>3. writers \subseteq 1 .. Len(o) /\ writers # {}
        BY <1>2, <2>2
    <2>4. PICK m \in writers : \A j \in writers : j <= m
        <3> HIDE DEF writers
        <3> QED BY <1>2, <2>3, LastExists
    <2>5. m \in DOMAIN o /\ Writes(o, A, S, m, x) /\ i <= m
          /\ \A j \in DOMAIN o : Writes(o, A, S, j, x) => j <= m
        BY <2>2, <2>4
    <2>6. o[m] \in Present(o)
        BY <2>5 DEF Present
    <2>7. PICK d \in A[o[m]] :
            /\ d.id = x /\ d.repository # None
            /\ Inherits(S, o[m], x) =>
                 /\ service[x] = None
                 /\ \A j \in 1 .. m - 1 : \A e \in A[o[j]] : e.id # x
        BY <2>5 DEF Writes
    <2>8. d.repository = RepositoryAfter(o, A, S, x)
        BY <1>1, <1>2, <2>5, <2>6, <2>7, LastWriterDecides
    <2>9. CASE o[m] \in Environments
        BY <2>6, <2>7, <2>8, <2>9
    <2>10. CASE o[m] \notin Environments
        <3>1. o[m] \in Sessions
            BY <2>5, <2>10 DEF Workspaces
        <3>2. S[o[m]] # None
            BY <2>6, <3>1 DEF Marked
        <3>3. i \in 1 .. m - 1
            BY <1>2, <2>1, <2>5, <2>10
        <3>4. ~ Inherits(S, o[m], x)
            BY <1>3, <2>1, <2>7, <3>3
        <3>5. \A e \in S[o[m]].baseline : e.id # x
            BY <3>2, <3>4 DEF Inherits
        <3> QED BY <2>6, <2>7, <3>1, <3>5
    <2> QED BY <2>9, <2>10
<1>4. ASSUME NEW x \in Names
      PROVE  LET given == {b.repository : b \in {d \in
                      UNION {A[w] : w \in Environments \cap Present(o)} : d.id = x}}
             IN  \/ given \subseteq {None}
                 \/ RepositoryAfter(o, A, S, x) \in given \ {None}
                 \/ \E s \in Sessions \cap Present(o) :
                      \E b \in A[s] : b.id = x /\ \A d \in S[s].baseline : d.id # x
    BY <1>3
<1> QED BY <1>1, <1>4 DEF RepositoryIsCurrent
-----------------------------------------------------------------------------
(* A transaction that is accepted preserves the invariant. *)
LEMMA CommitType ==
    ASSUME TypeOK, NEW o \in Seq(Workspaces), NEW A \in [Workspaces -> SUBSET Binding],
           NEW S \in [Workspaces -> Branch \cup {None}],
           Commit(o, A, S), up' \in BOOLEAN,
           held' \in [Requests -> Request \cup {None}]
    PROVE  TypeOK'
<1> DEFINE B == Bound(o, A)
<1>b. B \in SUBSET Binding /\ Present(o) \subseteq Workspaces
    BY BoundType
<1>v. \A b \in B : b.id \notin b.aliases
    BY DEF Commit, Bound, Valid
<1>a. Accepted(B)
    BY DEF Commit
<1>1. rows' \in Rows
    <2>1. [w \in Workspaces |-> {b.id : b \in A[w]}] \in [Workspaces -> SUBSET Names]
        BY BindingFacts
    <2>2. rows' = [order |-> o, session |-> S,
                   ids |-> [w \in Workspaces |-> {b.id : b \in A[w]}]]
        BY DEF Commit
    <2> QED BY <2>1, <2>2 DEF Rows
<1>2. service' \in [Names -> Services \cup {None}]
    <2>1. service' = [x \in Names |-> ServiceAfter(B, x)]
        BY DEF Commit
    <2>2. \A x \in Names : ServiceAfter(B, x) \in Services \cup {None}
        <3> HIDE DEF B
        <3> QED BY <1>b, <1>v, <1>a, Stored
    <2> QED BY <2>1, <2>2
<1>3. repository' \in [Names -> Repositories \cup {None}]
    <2>1. repository' = [x \in Names |-> RepositoryAfter(o, A, S, x)]
        BY DEF Commit
    <2> QED BY <2>1, RepositoryType
<1>4. owner' \in [Names -> Names \cup {None}]
    <2>1. owner' = [y \in Names |-> OwnerAfter(B, y)]
        BY DEF Commit
    <2>2. \A x \in Names : OwnerAfter(B, x) \in Names \cup {None}
        <3> HIDE DEF B
        <3> QED BY <1>b, <1>v, <1>a, Stored
    <2> QED BY <2>1, <2>2
<1>5. meant' \in [Names -> SUBSET Names]
    <2>1. \A x \in Names : Resolved(o, A, x) \subseteq Names
        BY <1>b, BindingFacts DEF Resolved, Matches
    <2>2. meant' = [x \in Names |-> meant[x] \cup Resolved(o, A, x)]
        BY DEF Commit
    <2> QED BY <2>1, <2>2 DEF TypeOK
<1>6. changes' \in 0 .. MaxChanges
    BY NamesAssumption DEF Commit, TypeOK
<1>7. order' \in Seq(Workspaces) /\ apps' \in [Workspaces -> SUBSET Binding]
      /\ session' \in [Workspaces -> Branch \cup {None}]
    BY DEF Commit
<1> QED BY <1>1, <1>2, <1>3, <1>4, <1>5, <1>6, <1>7 DEF TypeOK

LEMMA CommitKeeps ==
    ASSUME IInv, NEW o \in Seq(Workspaces), NEW A \in [Workspaces -> SUBSET Binding],
           NEW S \in [Workspaces -> Branch \cup {None}], Marked(o, S),
           Commit(o, A, S), up' = up,
           held' \in [Requests -> Request \cup {None}]
    PROVE  IInv'
<1> DEFINE B == Bound(o, A)
<1>t. TypeOK' /\ up' \in BOOLEAN
    BY CommitType DEF IInv, TypeOK
<1>b. B \in SUBSET Binding /\ Present(o) \subseteq Workspaces
      /\ \A w \in Present(o) : \A b \in A[w] : b \in B
    BY BoundType
<1>v. \A b \in B : b.id \notin b.aliases
    BY DEF Commit, Bound, Valid
<1>a. Accepted(B)
    BY DEF Commit
<1>n. None \notin Names /\ None \notin Services
    BY NamesAssumption
<1>f. \A b \in B : b.id \in Names /\ b.service # None /\ b.aliases \subseteq Names
    BY <1>b, BindingFacts
<1>d. /\ \A x \in Names : service'[x] = ServiceAfter(B, x)
      /\ \A x \in Names : owner'[x] = OwnerAfter(B, x)
      /\ \A x \in Names : meant'[x] = meant[x] \cup Resolved(o, A, x)
      /\ order' = o /\ apps' = A
      /\ rows' = [order |-> o, session |-> S,
                  ids |-> [w \in Workspaces |-> {b.id : b \in A[w]}]]
    BY DEF Commit
<1>s. /\ \A b \in B : service'[b.id] = b.service
      /\ \A b \in B : \A y \in b.aliases : owner'[y] = b.id /\ service'[y] = None
      /\ \A x \in Names : service[x] # None => service'[x] = service[x]
      /\ \A x \in Names : owner[x] # None => owner'[x] = owner[x] /\ service'[x] = service[x]
      /\ \A x \in Names : owner'[x] # owner[x] => \E b \in B : x \in b.aliases
    <2> HIDE DEF B
    <2>1. /\ \A b \in B : ServiceAfter(B, b.id) = b.service
          /\ \A b \in B : \A y \in b.aliases :
               OwnerAfter(B, y) = b.id /\ ServiceAfter(B, y) = None
          /\ \A x \in Names : service[x] # None => ServiceAfter(B, x) = service[x]
          /\ \A x \in Names : owner[x] # None => /\ OwnerAfter(B, x) = owner[x]
                                                /\ ServiceAfter(B, x) = service[x]
          /\ \A x \in Names : OwnerAfter(B, x) # owner[x] =>
               \E b \in B : x \in b.aliases
        BY <1>b, <1>v, <1>a, Stored DEF IInv
    <2>2. /\ \A x \in Names : service'[x] = ServiceAfter(B, x)
          /\ \A x \in Names : owner'[x] = OwnerAfter(B, x)
        BY <1>d
    <2>3. \A b \in B : service'[b.id] = b.service
        BY <2>1, <2>2, <1>f
    <2>4. \A b \in B : \A y \in b.aliases : owner'[y] = b.id /\ service'[y] = None
        BY <2>1, <2>2, <1>f
    <2> QED BY <2>1, <2>2, <2>3, <2>4
<1> HIDE DEF B
<1>1. TablesAgree'
    <2> SUFFICES ASSUME NEW y \in Names, owner'[y] # None
                 PROVE  service'[y] = None /\ service'[owner'[y]] # None
        BY DEF TablesAgree
    <2>1. CASE owner[y] # None
        <3>1. service[y] = None /\ service[owner[y]] # None /\ owner[y] \in Names
            BY <2>1 DEF IInv, TablesAgree, TypeOK
        <3> QED BY <2>1, <3>1, <1>s
    <2>2. CASE owner[y] = None
        <3>1. PICK b \in B : y \in b.aliases
            BY <2>2, <1>s
        <3> QED BY <3>1, <1>s, <1>f
    <2> QED BY <2>1, <2>2
<1>2. MeantIsStored'
    <2> SUFFICES ASSUME NEW x \in Names, NEW d \in meant'[x]
                 PROVE  d \in Names /\ (owner'[x] = d \/ (d = x /\ service'[x] # None))
        BY DEF MeantIsStored
    <2>1. CASE d \in meant[x]
        BY <2>1, <1>s, <1>n DEF IInv, MeantIsStored
    <2>2. CASE d \in Resolved(o, A, x)
        <3>1. PICK w \in Present(o) : \E b \in A[w] : x \in NamesOf(b) /\ d = b.id
            BY <2>2 DEF Resolved, Matches
        <3>2. PICK b \in B : x \in NamesOf(b) /\ d = b.id
            BY <3>1, <1>b
        <3> QED BY <3>2, <1>s, <1>f DEF NamesOf
    <2> QED BY <2>1, <2>2, <1>d
<1>3. RowsAreKnown'
    <2>1. \A w \in Present(o) : \A x \in {b.id : b \in A[w]} : service'[x] # None
        BY <1>b, <1>s, <1>f
    <2>2. rows'.order = o /\ \A w \in Present(o) : rows'.ids[w] = {b.id : b \in A[w]}
        BY <1>b, <1>d
    <2> QED BY <2>1, <2>2 DEF RowsAreKnown
<1>4. MemoryIsStored'
    <2>1. rows'.order = o /\ \A w \in Present(o) : rows'.ids[w] = {b.id : b \in A[w]}
        BY <1>b, <1>d
    <2>2. \A w \in Present(o) : \A b \in A[w] :
            service'[b.id] = b.service /\ \A y \in b.aliases : owner'[y] = b.id
        BY <1>b, <1>s
    <2> QED BY <2>1, <2>2, <1>d DEF MemoryIsStored
<1>5. SessionsAreMarked'
    <2>1. rows'.order = o /\ rows'.session = S /\ order' = o /\ session' = S
        BY DEF Commit
    <2> QED BY <2>1 DEF SessionsAreMarked, Marked, Present
<1>6. RepositoryIsCurrent'
    BY CommitIsCurrent DEF IInv
<1> QED BY <1>t, <1>1, <1>2, <1>3, <1>4, <1>5, <1>6 DEF IInv

(* What changes none of the names keeps it, too. *)
LEMMA QuietKeeps ==
    ASSUME IInv, TypeOK', UNCHANGED <<up, order, apps, session, tables, meant, changes>>
    PROVE  IInv'
<1>1. TablesAgree' /\ MeantIsStored' /\ RowsAreKnown' /\ MemoryIsStored'
    BY DEF IInv, TablesAgree, MeantIsStored, RowsAreKnown, MemoryIsStored, tables
<1>2. SessionsAreMarked'
    BY DEF IInv, SessionsAreMarked, tables
<1>3. RepositoryIsCurrent'
    BY DEF IInv, RepositoryIsCurrent, tables
<1> QED BY <1>1, <1>2, <1>3 DEF IInv
-----------------------------------------------------------------------------
LEMMA Initially == Init => IInv
<1> SUFFICES ASSUME Init PROVE IInv
    OBVIOUS
<1>1. PICK o \in {<<>>} \cup {<<e>> : e \in Environments}, X \in SUBSET Names :
        rows = [order |-> o, session |-> session,
                ids |-> [w \in Workspaces |-> IF w \in Present(o) THEN X ELSE {}]]
    BY DEF Init
<1>2. o \in Seq(Workspaces) /\ (Present(o) = {} \/ \E e \in Environments : Present(o) = {e})
    <2>1. CASE o = <<>>
        BY <2>1 DEF Present
    <2>2. CASE \E e \in Environments : o = <<e>>
        <3>1. PICK e \in Environments : o = <<e>>
            BY <2>2
        <3>2. Present(o) = {e}
            BY <3>1 DEF Present
        <3>3. o \in Seq(Workspaces)
            BY <3>1 DEF Workspaces
        <3> QED BY <3>2, <3>3
    <2> QED BY <2>1, <2>2
<1>3. Cardinality(Present(o)) \in {0, 1}
    BY <1>2, FS_EmptySet, FS_Singleton
<1>4. changes \in 0 .. MaxChanges
    BY <1>1, <1>3, NamesAssumption DEF Init
<1>5. session = [w \in Workspaces |-> None] /\ apps = [w \in Workspaces |-> {}]
    BY DEF Init
<1>6. rows \in Rows
    <2>1. [w \in Workspaces |-> IF w \in Present(o) THEN X ELSE {}]
            \in [Workspaces -> SUBSET Names]
        OBVIOUS
    <2>2. session \in [Workspaces -> Branch \cup {None}]
        BY <1>5
    <2> QED BY <1>1, <1>2, <2>1, <2>2 DEF Rows
<1>7. TypeOK
    <2>1. order \in Seq(Workspaces) /\ up \in BOOLEAN
        <3>1. order = <<>> /\ up = FALSE
            BY DEF Init
        <3>2. <<>> \in Seq(Workspaces)
            OBVIOUS
        <3> QED BY <3>1, <3>2
    <2>2. apps \in [Workspaces -> SUBSET Binding]
          /\ session \in [Workspaces -> Branch \cup {None}]
        BY <1>5
    <2>3. /\ service \in [Names -> Services \cup {None}]
          /\ repository \in [Names -> Repositories \cup {None}]
          /\ owner \in [Names -> Names \cup {None}]
          /\ held \in [Requests -> Request \cup {None}]
          /\ meant \in [Names -> SUBSET Names]
        BY DEF Init
    <2> QED BY <1>4, <1>6, <2>1, <2>2, <2>3 DEF TypeOK
<1>8. TablesAgree /\ MeantIsStored /\ RowsAreKnown /\ MemoryIsStored
    BY DEF Init, TablesAgree, MeantIsStored, RowsAreKnown, MemoryIsStored
<1>9. SessionsAreMarked
    <2>1. order = <<>> /\ rows.order = o /\ rows.session = session
        BY <1>1 DEF Init
    <2>2. \A w \in Workspaces : session[w] = None
        BY <1>5
    <2>3. Environments \subseteq Workspaces /\ Environments \cap Sessions = {}
        BY NamesAssumption DEF Workspaces
    <2>4. \A s \in Sessions : s \notin Present(o) /\ s \notin Present(order)
        BY <1>2, <2>1, <2>3 DEF Present
    <2>5. (\A i, j \in DOMAIN o : i = j) /\ \A i, j \in DOMAIN order : i = j
        BY <1>1, <2>1
    <2> QED BY <2>1, <2>2, <2>3, <2>4, <2>5 DEF SessionsAreMarked, Marked
<1>10. RepositoryIsCurrent
    BY DEF Init, RepositoryIsCurrent
<1> QED BY <1>7, <1>8, <1>9, <1>10 DEF IInv

LEMMA ReplaceKeeps ==
    ASSUME IInv, NEW w \in Workspaces, NEW list \in SUBSET Config, Replace(w, list),
           up' = up, held' \in [Requests -> Request \cup {None}]
    PROVE  IInv'
<1>1. [apps EXCEPT ![w] = FromConfigs(apps[w], list)] \in [Workspaces -> SUBSET Binding]
    BY FromConfigsType DEF IInv, TypeOK
<1>2. order \in Seq(Workspaces) /\ session \in [Workspaces -> Branch \cup {None}]
    BY DEF IInv, TypeOK
<1>3. Marked(order, session)
    BY DEF IInv, SessionsAreMarked
<1> QED BY <1>1, <1>2, <1>3, CommitKeeps DEF Replace

LEMMA ListsAreConfigs ==
    ASSUME NEW list \in Lists PROVE list \in SUBSET Config
BY NamesAssumption DEF Lists

(* A workspace that is new stays the only one of its name, and one that    *)
(* goes is gone.                                                           *)
LEMMA AppendedOnce ==
    ASSUME NEW o \in Seq(Workspaces), NEW w \in Workspaces, w \notin Present(o),
           \A i, j \in DOMAIN o : o[i] = o[j] => i = j
    PROVE  /\ \A i, j \in DOMAIN Append(o, w) : Append(o, w)[i] = Append(o, w)[j] => i = j
           /\ Present(Append(o, w)) = Present(o) \cup {w}
<1>1. /\ DOMAIN o = 1 .. Len(o) /\ DOMAIN Append(o, w) = 1 .. Len(o) + 1
      /\ Len(o) \in Nat
      /\ \A i \in DOMAIN o : Append(o, w)[i] = o[i]
      /\ Append(o, w)[Len(o) + 1] = w
    OBVIOUS
<1>2. \A i \in DOMAIN o : o[i] # w
    BY DEF Present
<1>3. \A i \in DOMAIN Append(o, w) : i \in DOMAIN o \/ i = Len(o) + 1
    BY <1>1
<1>4. \A i, j \in DOMAIN Append(o, w) : Append(o, w)[i] = Append(o, w)[j] => i = j
    BY <1>1, <1>2, <1>3
<1>5. DOMAIN o \subseteq DOMAIN Append(o, w) /\ Len(o) + 1 \in DOMAIN Append(o, w)
    BY <1>1
<1>6. Present(Append(o, w)) = Present(o) \cup {w}
    BY <1>1, <1>3, <1>5 DEF Present
<1> QED BY <1>4, <1>6

LEMMA RemovedOnce ==
    ASSUME NEW o \in Seq(Workspaces), NEW i \in DOMAIN o,
           \A j, k \in DOMAIN o : o[j] = o[k] => j = k
    PROVE  /\ \A j, k \in DOMAIN RemoveAt(o, i) :
                RemoveAt(o, i)[j] = RemoveAt(o, i)[k] => j = k
           /\ Present(RemoveAt(o, i)) \subseteq Present(o) \ {o[i]}
<1>1. i \in 1 .. Len(o) /\ Len(o) \in Nat /\ DOMAIN o = 1 .. Len(o)
    OBVIOUS
<1>2. RemoveAt(o, i) = SubSeq(o, 1, i - 1) \o SubSeq(o, i + 1, Len(o))
    BY DEF RemoveAt
<1>3. /\ DOMAIN RemoveAt(o, i) = 1 .. (Len(o) - 1)
      /\ \A j \in 1 .. (Len(o) - 1) :
           RemoveAt(o, i)[j] = IF j < i THEN o[j] ELSE o[j + 1]
    <2> DEFINE l == SubSeq(o, 1, i - 1)
               r == SubSeq(o, i + 1, Len(o))
    <2>1. /\ l \in Seq(Workspaces) /\ Len(l) = i - 1
          /\ \A j \in 1 .. (i - 1) : l[j] = o[j]
        BY <1>1, SubSeqProperties
    <2>2. /\ r \in Seq(Workspaces) /\ Len(r) = Len(o) - i
          /\ \A j \in 1 .. (Len(o) - i) : r[j] = o[j + i]
        BY <1>1, SubSeqProperties
    <2> HIDE DEF l, r
    <2>3. /\ l \o r \in Seq(Workspaces) /\ Len(l \o r) = Len(l) + Len(r)
          /\ \A j \in 1 .. (Len(l) + Len(r)) :
               (l \o r)[j] = IF j <= Len(l) THEN l[j] ELSE r[j - Len(l)]
        BY <2>1, <2>2, ConcatProperties
    <2>4. ASSUME NEW j \in 1 .. (Len(o) - 1)
          PROVE  (l \o r)[j] = IF j < i THEN o[j] ELSE o[j + 1]
        <3>1. j \in 1 .. (Len(l) + Len(r))
            BY <1>1, <2>1, <2>2
        <3>2. CASE j < i
            <4>1. j <= Len(l) /\ j \in 1 .. (i - 1)
                BY <1>1, <2>1, <3>2
            <4>2. (l \o r)[j] = l[j]
                BY <2>3, <3>1, <4>1
            <4> QED BY <2>1, <3>2, <4>1, <4>2
        <3>3. CASE ~ (j < i)
            <4>1. ~ (j <= Len(l)) /\ j - Len(l) \in 1 .. (Len(o) - i)
                BY <1>1, <2>1, <3>3
            <4>2. (l \o r)[j] = r[j - Len(l)]
                BY <2>3, <3>1, <4>1
            <4>3. r[j - Len(l)] = o[(j - Len(l)) + i] /\ (j - Len(l)) + i = j + 1
                BY <1>1, <2>1, <2>2, <4>1
            <4> QED BY <3>3, <4>2, <4>3
        <3> QED BY <3>2, <3>3
    <2>6. Len(l \o r) = Len(o) - 1
        BY <1>1, <2>1, <2>2, <2>3
    <2>5. RemoveAt(o, i) = l \o r
        BY <1>2 DEF l, r
    <2> QED BY <2>3, <2>4, <2>5, <2>6
<1> DEFINE At(j) == IF j < i THEN j ELSE j + 1
<1>4. \A j \in 1 .. (Len(o) - 1) : At(j) \in DOMAIN o /\ At(j) # i
    BY <1>1
<1>5. \A j \in 1 .. (Len(o) - 1) : RemoveAt(o, i)[j] = o[At(j)]
    BY <1>3
<1>6. \A j, k \in 1 .. (Len(o) - 1) : At(j) = At(k) => j = k
    BY <1>1
<1> HIDE DEF At
<1>7. \A j, k \in DOMAIN RemoveAt(o, i) : RemoveAt(o, i)[j] = RemoveAt(o, i)[k] => j = k
    BY <1>3, <1>4, <1>5, <1>6
<1>8. \A j \in DOMAIN RemoveAt(o, i) :
        RemoveAt(o, i)[j] \in Present(o) /\ RemoveAt(o, i)[j] # o[i]
    BY <1>3, <1>4, <1>5 DEF Present
<1> QED BY <1>7, <1>8 DEF Present

LEMMA CreateWorkspaceKeeps ==
    ASSUME IInv, NEW w \in Workspaces, NEW list \in Lists, CreateWorkspace(w, list)
    PROVE  IInv'
<1>1. [apps EXCEPT ![w] = FromConfigs({}, list)] \in [Workspaces -> SUBSET Binding]
    BY FromConfigsType, ListsAreConfigs DEF IInv, TypeOK
<1>2. Append(order, w) \in Seq(Workspaces)
      /\ session \in [Workspaces -> Branch \cup {None}]
    BY DEF IInv, TypeOK
<1>3. up' = up /\ held' \in [Requests -> Request \cup {None}]
    BY DEF CreateWorkspace, IInv, TypeOK
<1>4. w \notin Present(order) /\ w \notin Sessions
    BY NamesAssumption DEF CreateWorkspace
<1>5. Marked(Append(order, w), session)
    <2>1. Marked(order, session) /\ order \in Seq(Workspaces)
        BY DEF IInv, SessionsAreMarked, TypeOK
    <2>2. /\ \A i, j \in DOMAIN Append(order, w) :
               Append(order, w)[i] = Append(order, w)[j] => i = j
          /\ Present(Append(order, w)) = Present(order) \cup {w}
        BY <1>4, <2>1, AppendedOnce DEF Marked
    <2> QED BY <1>4, <2>1, <2>2 DEF Marked
<1> QED BY <1>1, <1>2, <1>3, <1>5, CommitKeeps DEF CreateWorkspace

LEMMA DeleteWorkspaceKeeps ==
    ASSUME IInv, NEW w \in Workspaces, DeleteWorkspace(w)
    PROVE  IInv'
<1>1. PICK i \in DOMAIN order :
        /\ order[i] = w
        /\ Commit(RemoveAt(order, i), [apps EXCEPT ![w] = {}], [session EXCEPT ![w] = None])
    BY DEF DeleteWorkspace
<1>2. [apps EXCEPT ![w] = {}] \in [Workspaces -> SUBSET Binding]
      /\ [session EXCEPT ![w] = None] \in [Workspaces -> Branch \cup {None}]
    BY DEF IInv, TypeOK
<1>3. RemoveAt(order, i) \in Seq(Workspaces)
    <2>0. order \in Seq(Workspaces)
        BY DEF IInv, TypeOK
    <2>1. SubSeq(order, 1, i - 1) \in Seq(Workspaces)
        BY <2>0, SubSeqProperties
    <2>2. SubSeq(order, i + 1, Len(order)) \in Seq(Workspaces)
        BY <2>0, SubSeqProperties
    <2> QED BY <2>1, <2>2, ConcatProperties DEF RemoveAt
<1>4. up' = up /\ held' \in [Requests -> Request \cup {None}]
    BY DEF DeleteWorkspace, IInv, TypeOK
<1>5. Marked(RemoveAt(order, i), [session EXCEPT ![w] = None])
    <2>1. /\ Marked(order, session) /\ order \in Seq(Workspaces)
          /\ session \in [Workspaces -> Branch \cup {None}]
        BY DEF IInv, SessionsAreMarked, TypeOK
    <2>2. /\ \A j, k \in DOMAIN RemoveAt(order, i) :
               RemoveAt(order, i)[j] = RemoveAt(order, i)[k] => j = k
          /\ Present(RemoveAt(order, i)) \subseteq Present(order) \ {w}
        BY <1>1, <2>1, RemovedOnce DEF Marked
    <2>3. Environments \subseteq Workspaces /\ Sessions \subseteq Workspaces
        BY DEF Workspaces
    <2> QED BY <2>1, <2>2, <2>3 DEF Marked
<1> QED BY <1>1, <1>2, <1>3, <1>4, <1>5, CommitKeeps

LEMMA RegisterAliasKeeps ==
    ASSUME IInv, NEW w \in Workspaces, NEW x \in Names, NEW y \in Names,
           RegisterAlias(w, x, y)
    PROVE  IInv'
<1>1. PICK b \in Matches(apps[w], x) :
        Commit(order,
               [v \in Workspaces |->
                  {IF d.id = b.id THEN [d EXCEPT !.aliases = @ \cup {y}] ELSE d
                    : d \in apps[v]}],
               session)
    BY DEF RegisterAlias
<1>2. \A d \in Binding : [d EXCEPT !.aliases = @ \cup {y}] \in Binding
    BY DEF Binding
<1>3. \A v \in Workspaces : apps[v] \subseteq Binding
    BY DEF IInv, TypeOK
<1>4. \A v \in Workspaces :
        {IF d.id = b.id THEN [d EXCEPT !.aliases = @ \cup {y}] ELSE d : d \in apps[v]}
          \in SUBSET Binding
    BY <1>2, <1>3
<1>5. order \in Seq(Workspaces) /\ session \in [Workspaces -> Branch \cup {None}]
    BY DEF IInv, TypeOK
<1>6. up' = up /\ held' \in [Requests -> Request \cup {None}]
    BY DEF RegisterAlias, IInv, TypeOK
<1>7. Marked(order, session)
    BY DEF IInv, SessionsAreMarked
<1> QED BY <1>1, <1>4, <1>5, <1>6, <1>7, CommitKeeps
-----------------------------------------------------------------------------
LEMMA BeginUpsertKeeps ==
    ASSUME IInv, NEW q \in Requests, NEW w \in Environments, NEW c \in Inputs,
           NEW byId \in BOOLEAN, BeginUpsert(q, w, c, byId)
    PROVE  IInv'
<1> DEFINE named == Named(apps[w], c, byId)
           others == {f \in Configs(apps[w]) : named.exact => f.id # named.id}
<1>1. apps[w] \in SUBSET Binding /\ w \in Workspaces
    BY DEF IInv, TypeOK, Workspaces
<1>2. named \in Config
    <2>1. CASE byId \/ Matches(apps[w], c.id) = {}
        BY <2>1, NamesAssumption DEF Named
    <2>2. CASE ~(byId \/ Matches(apps[w], c.id) = {})
        <3>1. (CHOOSE b \in Matches(apps[w], c.id) : TRUE) \in Matches(apps[w], c.id)
            BY <2>2
        <3>2. (CHOOSE b \in Matches(apps[w], c.id) : TRUE) \in Binding
            BY <1>1, <3>1 DEF Matches
        <3> QED BY <2>2, <3>2, FullType DEF Named
    <2> QED BY <2>1, <2>2
<1>3. others \cup {named} \in SUBSET Config
    BY <1>1, <1>2, ConfigsType
<1> HIDE DEF named, others
<1>4. held' = [held EXCEPT ![q] = [workspace |-> w, list |-> others \cup {named}]]
    BY DEF BeginUpsert, named, others
<1>5. [workspace |-> w, list |-> others \cup {named}] \in Request
    BY <1>1, <1>3 DEF Request
<1>6. held' \in [Requests -> Request \cup {None}]
    BY <1>4, <1>5 DEF IInv, TypeOK
<1>7. UNCHANGED <<up, order, apps, session, tables, meant, changes>>
    BY DEF BeginUpsert
<1>8. TypeOK'
    BY <1>6, <1>7 DEF IInv, TypeOK, tables
<1> QED BY <1>7, <1>8, QuietKeeps

LEMMA BeginDeleteKeeps ==
    ASSUME IInv, NEW q \in Requests, NEW w \in Environments, NEW x \in Names,
           BeginDelete(q, w, x)
    PROVE  IInv'
<1> DEFINE kept == Configs(apps[w] \ Matches(apps[w], x))
<1>1. apps[w] \in SUBSET Binding /\ w \in Workspaces
    BY DEF IInv, TypeOK, Workspaces
<1>2. kept \in SUBSET Config
    BY <1>1, ConfigsType
<1>3. held' = [held EXCEPT ![q] = [workspace |-> w, list |-> kept]]
    BY DEF BeginDelete
<1> HIDE DEF kept
<1>4. [workspace |-> w, list |-> kept] \in Request
    BY <1>1, <1>2 DEF Request
<1>5. held' \in [Requests -> Request \cup {None}]
    BY <1>3, <1>4 DEF IInv, TypeOK
<1>6. UNCHANGED <<up, order, apps, session, tables, meant, changes>>
    BY DEF BeginDelete
<1>7. TypeOK'
    BY <1>5, <1>6 DEF IInv, TypeOK, tables
<1> QED BY <1>6, <1>7, QuietKeeps

LEMMA FinishKeeps ==
    ASSUME IInv, NEW q \in Requests, Finish(q)
    PROVE  IInv'
<1>1. held' \in [Requests -> Request \cup {None}] /\ up' = up
    BY DEF Finish, IInv, TypeOK
<1>2. held[q] \in Request
    BY DEF Finish, IInv, TypeOK
<1>3. held[q].workspace \in Workspaces /\ held[q].list \in SUBSET Config
    BY <1>2 DEF Request
<1>4. CASE Replace(held[q].workspace, held[q].list)
    BY <1>1, <1>3, <1>4, ReplaceKeeps
<1>5. CASE UNCHANGED <<order, apps, session, tables, meant, changes>>
    <2>1. TypeOK'
        BY <1>1, <1>5 DEF IInv, TypeOK, tables
    <2> QED BY <1>1, <1>5, <2>1, QuietKeeps
<1> QED BY <1>4, <1>5 DEF Finish

LEMMA CreateRoutingSessionKeeps ==
    ASSUME IInv, NEW s \in Sessions, NEW e \in Environments, CreateRoutingSession(s, e)
    PROVE  IInv'
<1>1. s \in Workspaces /\ apps[e] \in SUBSET Binding
    BY DEF IInv, TypeOK, Workspaces
<1>2. [apps EXCEPT ![s] = FromConfigs({}, Configs(apps[e]))] \in [Workspaces -> SUBSET Binding]
    <2>1. FromConfigs({}, Configs(apps[e])) \in SUBSET Binding
        BY <1>1, ConfigsType, FromConfigsType
    <2> QED BY <2>1 DEF IInv, TypeOK
<1>3. [environment |-> e, baseline |-> apps[e]] \in Branch
    BY <1>1 DEF Branch
<1>4. [session EXCEPT ![s] = [environment |-> e, baseline |-> apps[e]]]
        \in [Workspaces -> Branch \cup {None}]
    BY <1>3 DEF IInv, TypeOK
<1>5. Append(order, s) \in Seq(Workspaces)
    BY <1>1 DEF IInv, TypeOK
<1>6. up' = up /\ held' \in [Requests -> Request \cup {None}]
    BY DEF CreateRoutingSession, IInv, TypeOK
<1>7. s \notin Present(order) /\ s \notin Environments
    BY NamesAssumption DEF CreateRoutingSession
<1>8. Marked(Append(order, s),
             [session EXCEPT ![s] = [environment |-> e, baseline |-> apps[e]]])
    <2>1. /\ Marked(order, session) /\ order \in Seq(Workspaces)
          /\ session \in [Workspaces -> Branch \cup {None}]
        BY DEF IInv, SessionsAreMarked, TypeOK
    <2>2. /\ \A i, j \in DOMAIN Append(order, s) :
               Append(order, s)[i] = Append(order, s)[j] => i = j
          /\ Present(Append(order, s)) = Present(order) \cup {s}
        BY <1>1, <1>7, <2>1, AppendedOnce DEF Marked
    <2>3. Environments \subseteq Workspaces /\ Sessions \subseteq Workspaces
        BY DEF Workspaces
    <2>4. [environment |-> e, baseline |-> apps[e]] # None
        BY <1>3, NamesAssumption
    <2> HIDE DEF Marked
    <2> QED BY <1>7, <2>1, <2>2, <2>3, <2>4 DEF Marked
<1> QED BY <1>2, <1>4, <1>5, <1>6, <1>8, CommitKeeps DEF CreateRoutingSession

LEMMA EditSessionKeeps ==
    ASSUME IInv, NEW s \in Sessions, NEW c \in Inputs, EditSession(s, c)
    PROVE  IInv'
<1> DEFINE known == Matches(apps[s], c.id)
           edited == IF known = {} THEN {Overlay(Blank(c.id), c)}
                     ELSE {Overlay(b, c) : b \in known}
           next == [apps EXCEPT ![s] = (@ \ known) \cup edited]
<1>1. apps[s] \in SUBSET Binding /\ c \in Config
    BY NamesAssumption DEF IInv, TypeOK, Workspaces
<1>2. edited \in SUBSET Binding
    BY <1>1, OverlayType, BlankType, ConfigFacts DEF Matches
<1>3. next \in [Workspaces -> SUBSET Binding]
    <2> HIDE DEF known, edited
    <2> QED BY <1>1, <1>2 DEF IInv, TypeOK
<1>4. Commit(order, next, session)
    BY DEF EditSession
<1>5. order \in Seq(Workspaces) /\ session \in [Workspaces -> Branch \cup {None}]
      /\ up' = up /\ held' \in [Requests -> Request \cup {None}]
    BY DEF EditSession, IInv, TypeOK
<1>6. Marked(order, session)
    BY DEF IInv, SessionsAreMarked
<1> HIDE DEF next
<1> QED BY <1>3, <1>4, <1>5, <1>6, CommitKeeps

LEMMA RemoveFromSessionKeeps ==
    ASSUME IInv, NEW s \in Sessions, NEW x \in Names, RemoveFromSession(s, x)
    PROVE  IInv'
<1>1. [apps EXCEPT ![s] = @ \ Matches(@, x)] \in [Workspaces -> SUBSET Binding]
    BY DEF IInv, TypeOK
<1>2. order \in Seq(Workspaces) /\ session \in [Workspaces -> Branch \cup {None}]
      /\ up' = up /\ held' \in [Requests -> Request \cup {None}]
    BY DEF RemoveFromSession, IInv, TypeOK
<1>3. Marked(order, session)
    BY DEF IInv, SessionsAreMarked
<1> QED BY <1>1, <1>2, <1>3, CommitKeeps DEF RemoveFromSession

LEMMA RefreshSessionKeeps ==
    ASSUME IInv, NEW s \in Sessions, NEW pinned \in SUBSET Names,
           RefreshSession(s, pinned)
    PROVE  IInv'
<1> DEFINE fresh == apps[session[s].environment]
           old == session[s].baseline
           In(A, x) == \E b \in A : b.id = x
           The(A, x) == CHOOSE b \in A : b.id = x
           kept == {b \in apps[s] : ~In(old, b.id)}
           merged == {Merged(b, The(old, b.id), The(fresh, b.id), b.id \in pinned)
                       : b \in {d \in apps[s] : In(old, d.id) /\ In(fresh, d.id)}}
           added == {b \in fresh : ~In(apps[s], b.id) /\ ~In(old, b.id)}
           next == [apps EXCEPT ![s] = kept \cup merged \cup added]
           branch == [session EXCEPT ![s].baseline = fresh]
<1>1. s \in Workspaces /\ session[s] \in Branch
    BY DEF RefreshSession, IInv, TypeOK, Workspaces
<1>2. session[s].environment \in Environments /\ old \in SUBSET Binding
    BY <1>1 DEF Branch
<1>3. apps[s] \in SUBSET Binding /\ fresh \in SUBSET Binding
    BY <1>1, <1>2 DEF IInv, TypeOK, Workspaces
<1>4. merged \in SUBSET Binding
    <2>1. \A A \in SUBSET Binding : \A x : In(A, x) => The(A, x) \in Binding
        OBVIOUS
    <2>2. ASSUME NEW b \in apps[s], In(old, b.id), In(fresh, b.id)
          PROVE  Merged(b, The(old, b.id), The(fresh, b.id), b.id \in pinned) \in Binding
        <3>1. The(old, b.id) \in Binding /\ The(fresh, b.id) \in Binding
            BY <1>2, <1>3, <2>1, <2>2
        <3>2. b \in Binding /\ (b.id \in pinned) \in BOOLEAN
            BY <1>3
        <3> HIDE DEF The
        <3> QED BY <3>1, <3>2, MergedType
    <2> HIDE DEF In, The, fresh, old
    <2> QED BY <2>2
<1>5. kept \in SUBSET Binding /\ added \in SUBSET Binding
    BY <1>3
<1>6. next \in [Workspaces -> SUBSET Binding]
    <2> HIDE DEF kept, merged, added
    <2> QED BY <1>4, <1>5 DEF IInv, TypeOK
<1>7. branch \in [Workspaces -> Branch \cup {None}] /\ Marked(order, branch)
    <2>1. [session[s] EXCEPT !.baseline = fresh] \in Branch
        <3> HIDE DEF fresh
        <3> QED BY <1>1, <1>3 DEF Branch
    <2>2. branch = [session EXCEPT ![s] = [session[s] EXCEPT !.baseline = fresh]]
        BY DEF IInv, TypeOK
    <2>3. Marked(order, session) /\ s \notin Environments /\ None \notin Branch
        BY NamesAssumption DEF IInv, SessionsAreMarked
    <2>4. session \in [Workspaces -> Branch \cup {None}]
          /\ Environments \subseteq Workspaces /\ Sessions \subseteq Workspaces
        BY DEF IInv, TypeOK, Workspaces
    <2> HIDE DEF branch, fresh
    <2>5. branch \in [Workspaces -> Branch \cup {None}]
        BY <2>1, <2>2, <2>4
    <2>6. \A v \in Workspaces : branch[v] =
            IF v = s THEN [session[s] EXCEPT !.baseline = fresh] ELSE session[v]
        BY <2>2, <2>4
    <2> QED BY <2>1, <2>3, <2>4, <2>5, <2>6 DEF Marked
<1>8. Commit(order, next, branch)
    BY DEF RefreshSession
<1>9. order \in Seq(Workspaces) /\ up' = up /\ held' \in [Requests -> Request \cup {None}]
    BY DEF RefreshSession, IInv, TypeOK
<1> HIDE DEF next, branch
<1> QED BY <1>6, <1>7, <1>8, <1>9, CommitKeeps
-----------------------------------------------------------------------------
LEMMA StopKeeps == IInv /\ Stop => IInv'
<1> SUFFICES ASSUME IInv, Stop PROVE IInv'
    OBVIOUS
<1>1. /\ up' = FALSE /\ UNCHANGED <<tables, meant, changes>>
      /\ order' = <<>>
      /\ apps' = [w \in Workspaces |-> {}]
      /\ session' = [w \in Workspaces |-> None]
      /\ held' = [q \in Requests |-> None]
    BY DEF Stop
<1>2. <<>> \in Seq(Workspaces)
    OBVIOUS
<1>3. TypeOK'
    BY <1>1, <1>2 DEF IInv, TypeOK, tables
<1>4. TablesAgree' /\ MeantIsStored' /\ RowsAreKnown' /\ MemoryIsStored'
    BY <1>1 DEF IInv, TablesAgree, MeantIsStored, RowsAreKnown, MemoryIsStored, tables
<1>5. SessionsAreMarked'
    <2>1. Marked(rows.order, rows.session)' /\ Marked(<<>>, [w \in Workspaces |-> None])
        BY <1>1 DEF IInv, SessionsAreMarked, Marked, Present, Workspaces, tables
    <2> QED BY <1>1, <2>1 DEF SessionsAreMarked, Marked
<1>6. RepositoryIsCurrent'
    BY <1>1 DEF RepositoryIsCurrent
<1> QED BY <1>3, <1>4, <1>5, <1>6 DEF IInv

(* Loading gives every row of the tables the identity the tables have for  *)
(* it, once that is backfilled.                                            *)
LEMMA LoadedFacts ==
    ASSUME IInv
    PROVE  /\ \A x \in Names : Backfilled(x) \in Services \cup {None}
           /\ \A x \in Names : service[x] # None => Backfilled(x) = service[x]
           /\ \A x \in Names : owner[x] # None => Backfilled(x) = None
           /\ \A w \in Present(rows.order) : \A x \in rows.ids[w] : Backfilled(x) # None
           /\ \A w \in Present(rows.order) : rows.ids[w] \subseteq Names
<1>1. rows.order \in Seq(Workspaces) /\ rows.ids \in [Workspaces -> SUBSET Names]
    BY DEF IInv, TypeOK, Rows
<1>2. Present(rows.order) \subseteq Workspaces
    BY <1>1, BoundType DEF Present
<1>n. None \notin Names /\ Names \subseteq Services
    BY NamesAssumption
<1>3. \A w \in Present(rows.order) : rows.ids[w] \subseteq Names
    BY <1>1, <1>2
<1>4. \A x \in Names : service[x] \in Services \cup {None}
    BY DEF IInv, TypeOK
<1>5. \A x \in Names : Backfilled(x) \in Services \cup {None}
    BY <1>4, <1>n DEF Backfilled
<1>6. ASSUME NEW x \in Names, owner[x] # None PROVE Backfilled(x) = None
    <2>1. service[x] = None
        BY <1>6 DEF IInv, TablesAgree
    <2>2. \A w \in Present(rows.order) : x \notin rows.ids[w]
        BY <1>6, <2>1 DEF IInv, RowsAreKnown
    <2> QED BY <2>1, <2>2 DEF Backfilled
<1>7. \A w \in Present(rows.order) : \A x \in rows.ids[w] : Backfilled(x) # None
    BY <1>3, <1>n DEF Backfilled
<1> QED BY <1>3, <1>5, <1>6, <1>7 DEF Backfilled

LEMMA StartKeeps == IInv /\ Start => IInv'
<1> SUFFICES ASSUME IInv, Start PROVE IInv'
    OBVIOUS
<1>s. /\ up' = TRUE /\ UNCHANGED <<rows, repository, owner, held, changes>>
      /\ service' = [x \in Names |-> Backfilled(x)]
      /\ order' = rows.order /\ apps' = LoadedApps /\ session' = rows.session
      /\ meant' = [x \in Names |-> meant[x] \cup Resolved(rows.order, LoadedApps, x)]
    BY DEF Start
<1>r. /\ rows.order \in Seq(Workspaces)
      /\ rows.ids \in [Workspaces -> SUBSET Names]
      /\ rows.session \in [Workspaces -> Branch \cup {None}]
    BY DEF IInv, TypeOK, Rows
<1>w. Present(rows.order) \subseteq Workspaces
    BY <1>r DEF Present
<1>n. None \notin Names /\ None \notin Services
    BY NamesAssumption
<1>v. \A x \in Names : service'[x] = Backfilled(x)
    BY <1>s
<1>i. /\ \A w \in Present(rows.order) : {b.id : b \in LoadedApps[w]} = rows.ids[w]
      /\ \A w \in Workspaces : \A b \in LoadedApps[w] :
           w \in Present(rows.order) /\ b.id \in rows.ids[w] /\ b = Loaded(b.id)
    <2>1. \A x : Loaded(x).id = x
        BY DEF Loaded
    <2>2. \A w \in Workspaces : LoadedApps[w] =
            IF w \in Present(rows.order) THEN {Loaded(x) : x \in rows.ids[w]} ELSE {}
        BY DEF LoadedApps
    <2>3. ASSUME NEW w \in Workspaces, NEW b \in LoadedApps[w]
          PROVE  w \in Present(rows.order) /\ b.id \in rows.ids[w] /\ b = Loaded(b.id)
        <3>1. w \in Present(rows.order)
            BY <2>2
        <3>2. PICK x \in rows.ids[w] : b = Loaded(x)
            BY <2>2, <3>1
        <3> QED BY <2>1, <3>1, <3>2
    <2>4. ASSUME NEW w \in Present(rows.order)
          PROVE  {b.id : b \in LoadedApps[w]} = rows.ids[w]
        <3>1. LoadedApps[w] = {Loaded(x) : x \in rows.ids[w]}
            BY <1>w, <2>2
        <3>2. \A x \in rows.ids[w] : x \in {b.id : b \in LoadedApps[w]}
            BY <2>1, <3>1
        <3>3. \A x \in {b.id : b \in LoadedApps[w]} : x \in rows.ids[w]
            BY <2>1, <3>1
        <3> QED BY <3>2, <3>3
    <2> QED BY <2>3, <2>4
<1>a. \A x : /\ Loaded(x).service = Backfilled(x)
             /\ Loaded(x).aliases = {y \in Names : owner[y] = x}
    BY DEF Loaded
<1>1. TypeOK'
    <2>1. service' \in [Names -> Services \cup {None}]
        BY <1>s, LoadedFacts
    <2>2. LoadedApps \in [Workspaces -> SUBSET Binding]
        <3>1. ASSUME NEW x \in Names, Backfilled(x) # None PROVE Loaded(x) \in Binding
            <4>1. Backfilled(x) \in Services
                BY <3>1, LoadedFacts
            <4>2. repository[x] \in Repositories \cup {None}
                BY DEF IInv, TypeOK
            <4> QED BY <4>1, <4>2 DEF Loaded, Binding
        <3>2. \A w \in Present(rows.order) : \A x \in rows.ids[w] : Loaded(x) \in Binding
            BY <3>1, LoadedFacts
        <3> QED BY <3>2 DEF LoadedApps
    <2>3. meant' \in [Names -> SUBSET Names]
        <3>1. \A x \in Names : Resolved(rows.order, LoadedApps, x) \subseteq Names
            BY <1>w, <2>2, BindingFacts DEF Resolved, Matches
        <3> QED BY <1>s, <3>1 DEF IInv, TypeOK
    <2>4. order' \in Seq(Workspaces) /\ apps' \in [Workspaces -> SUBSET Binding]
          /\ session' \in [Workspaces -> Branch \cup {None}]
        BY <1>s, <1>r, <2>2
    <2> QED BY <1>s, <2>1, <2>3, <2>4 DEF IInv, TypeOK
<1>2. TablesAgree'
    <2> SUFFICES ASSUME NEW y \in Names, owner[y] # None
                 PROVE  service'[y] = None /\ service'[owner[y]] # None
        BY <1>s DEF TablesAgree
    <2>1. owner[y] \in Names /\ service[owner[y]] # None
        BY DEF IInv, TypeOK, TablesAgree
    <2> QED BY <2>1, <1>v, LoadedFacts
<1>3. MeantIsStored'
    <2> SUFFICES ASSUME NEW x \in Names, NEW d \in meant'[x]
                 PROVE  d \in Names /\ (owner[x] = d \/ (d = x /\ service'[x] # None))
        BY <1>s DEF MeantIsStored
    <2>1. CASE d \in meant[x]
        BY <2>1, <1>v, LoadedFacts DEF IInv, MeantIsStored
    <2>2. CASE d \in Resolved(rows.order, LoadedApps, x)
        <3>1. PICK w \in Present(rows.order) : \E b \in LoadedApps[w] :
                     x \in NamesOf(b) /\ d = b.id
            BY <2>2 DEF Resolved, Matches
        <3>2. PICK b \in LoadedApps[w] : x \in NamesOf(b) /\ d = b.id
            BY <3>1
        <3>3. d \in rows.ids[w] /\ b = Loaded(d)
            BY <1>w, <1>i, <3>2
        <3>4. x = d \/ owner[x] = d
            BY <1>a, <3>2, <3>3 DEF NamesOf
        <3>5. d \in Names /\ service'[d] # None
            BY <1>v, <3>3, LoadedFacts
        <3> QED BY <3>4, <3>5
    <2> QED BY <2>1, <2>2, <1>s
<1>4. RowsAreKnown'
    <2>1. \A w \in Present(rows.order) : \A x \in rows.ids[w] : service'[x] # None
        BY <1>v, LoadedFacts
    <2> QED BY <2>1, <1>s DEF RowsAreKnown
<1>5. MemoryIsStored'
    <2>1. ASSUME NEW w \in Present(rows.order), NEW b \in LoadedApps[w]
          PROVE  service'[b.id] = b.service /\ \A y \in b.aliases : owner'[y] = b.id
        <3>1. b.id \in Names /\ b = Loaded(b.id)
            BY <1>w, <1>i, LoadedFacts
        <3>2. b.service = Backfilled(b.id) /\ b.aliases = {y \in Names : owner[y] = b.id}
            BY <3>1, <1>a
        <3> QED BY <3>1, <3>2, <1>v, <1>s
    <2> QED BY <2>1, <1>s, <1>i DEF MemoryIsStored
<1>6. SessionsAreMarked'
    BY <1>s DEF IInv, SessionsAreMarked, Marked, Present
<1>7. RepositoryIsCurrent'
    <2>1. ASSUME NEW w \in Environments, NEW b \in LoadedApps[w]
          PROVE  b.repository = repository[b.id]
        <3>1. w \in Workspaces
            BY DEF Workspaces
        <3>2. b = Loaded(b.id)
            BY <1>i, <3>1
        <3> QED BY <3>2 DEF Loaded
    <2> QED BY <1>s, <2>1 DEF RepositoryIsCurrent
<1> QED BY <1>1, <1>2, <1>3, <1>4, <1>5, <1>6, <1>7 DEF IInv
-----------------------------------------------------------------------------
LEMMA StepKeeps == IInv /\ [Next]_vars => IInv'
<1> SUFFICES ASSUME IInv, [Next]_vars PROVE IInv'
    OBVIOUS
<1>1. ASSUME NEW w \in Workspaces, Change(w) PROVE IInv'
    <2>1. ASSUME NEW list \in Lists, CreateWorkspace(w, list) PROVE IInv'
        BY <2>1, CreateWorkspaceKeeps
    <2>2. ASSUME NEW list \in Lists, UpdateWorkspace(w, list) PROVE IInv'
        <3>1. up' = up /\ held' \in [Requests -> Request \cup {None}]
            BY <2>2 DEF UpdateWorkspace, IInv, TypeOK
        <3> QED BY <2>2, <3>1, ListsAreConfigs, ReplaceKeeps DEF UpdateWorkspace
    <2>3. ASSUME DeleteWorkspace(w) PROVE IInv'
        BY <2>3, DeleteWorkspaceKeeps
    <2>4. ASSUME NEW x \in Names, NEW y \in Names, RegisterAlias(w, x, y) PROVE IInv'
        BY <2>4, RegisterAliasKeeps
    <2> QED BY <1>1, <2>1, <2>2, <2>3, <2>4 DEF Change
<1>2. ASSUME NEW q \in Requests, Register(q) PROVE IInv'
    BY <1>2, BeginUpsertKeeps, BeginDeleteKeeps, FinishKeeps DEF Register
<1>3. ASSUME NEW s \in Sessions, SessionChange(s) PROVE IInv'
    BY <1>3, CreateRoutingSessionKeeps, EditSessionKeeps, RemoveFromSessionKeeps,
       RefreshSessionKeeps DEF SessionChange
<1>4. ASSUME UNCHANGED vars PROVE IInv'
    <2>1. TypeOK'
        BY <1>4 DEF IInv, TypeOK, vars, tables
    <2> QED BY <1>4, <2>1, QuietKeeps DEF vars
<1> QED BY <1>1, <1>2, <1>3, <1>4, StopKeeps, StartKeeps DEF Next

(* The invariant: what the tables hold is unambiguous, and covers whatever *)
(* the registry publishes and whatever was ever resolved. *)
THEOREM Invariant == Spec => []IInv
<1> QED BY Initially, StepKeeps, PTL DEF Spec

(* Every variable has its type, always. *)
THEOREM TypeCorrect == Spec => []TypeOK
<1>1. IInv => TypeOK
    BY DEF IInv
<1> QED BY <1>1, Invariant, PTL

(* A name never means two applications, for all workspaces, all times and  *)
(* all restarts together: collisions are rejected. *)
THEOREM MeaningKept == Spec => []ReferencesKeepMeaning
<1>1. IInv => ReferencesKeepMeaning
    <2> SUFFICES ASSUME IInv, NEW x \in Names, NEW a \in meant[x], NEW b \in meant[x]
                 PROVE  a = b
        BY DEF ReferencesKeepMeaning
    <2>1. /\ a \in Names /\ (owner[x] = a \/ (a = x /\ service[x] # None))
          /\ b \in Names /\ (owner[x] = b \/ (b = x /\ service[x] # None))
        BY DEF IInv, MeantIsStored
    <2>2. owner[x] # None => service[x] = None
        BY DEF IInv, TablesAgree
    <2> QED BY <2>1, <2>2, NamesAssumption
<1> QED BY <1>1, Invariant, PTL

(* A restart, at any moment, loads workspaces that pass validation, in     *)
(* which every reference means what it meant before. *)
THEOREM RestartSafe == Spec => []RestartKeepsReferences
<1>1. ASSUME IInv, NEW w \in Present(rows.order) PROVE Valid(LoadedApps[w])
    <2>1. LoadedApps[w] = {Loaded(x) : x \in rows.ids[w]}
        <3>1. w \in Workspaces
            BY <1>1 DEF Present, IInv, TypeOK, Rows
        <3> QED BY <3>1 DEF LoadedApps
    <2>2. \A x : /\ Loaded(x).id = x
                 /\ Loaded(x).aliases = {y \in Names : owner[y] = x}
                 /\ NamesOf(Loaded(x)) = {x} \cup {y \in Names : owner[y] = x}
        BY DEF Loaded, NamesOf
    <2>3. \A x \in rows.ids[w] : x \in Names /\ owner[x] = None
        BY <1>1, LoadedFacts
    <2>4. \A x \in rows.ids[w] : x \notin {y \in Names : owner[y] = x}
        BY <2>3, NamesAssumption
    <2>5. ASSUME NEW x \in rows.ids[w], NEW z \in rows.ids[w], x # z
          PROVE  NamesOf(Loaded(x)) \cap NamesOf(Loaded(z)) = {}
        BY <2>2, <2>3, <2>5, NamesAssumption
    <2>6. \A b \in LoadedApps[w] : b.id \notin b.aliases
        BY <2>1, <2>2, <2>4
    <2>7. ASSUME NEW b \in LoadedApps[w], NEW d \in LoadedApps[w], b # d
          PROVE  NamesOf(b) \cap NamesOf(d) = {}
        <3>1. PICK x \in rows.ids[w] : b = Loaded(x)
            BY <2>1
        <3>2. PICK z \in rows.ids[w] : d = Loaded(z)
            BY <2>1
        <3> QED BY <2>5, <2>7, <3>1, <3>2
    <2> QED BY <2>6, <2>7 DEF Valid
<1>2. ASSUME IInv, up, NEW w \in Present(order), NEW x \in Names,
             NEW b \in Matches(apps[w], x)
      PROVE  {d.id : d \in Matches(LoadedApps[w], x)} = {b.id}
    <2>1. /\ rows.order = order /\ rows.ids[w] = {d.id : d \in apps[w]}
          /\ service[b.id] = b.service /\ \A y \in b.aliases : owner[y] = b.id
          /\ b \in apps[w]
        BY <1>2 DEF IInv, MemoryIsStored, Matches
    <2>2. w \in Workspaces
        BY <1>2 DEF Present, IInv, TypeOK
    <2>3. LoadedApps[w] = {Loaded(z) : z \in rows.ids[w]}
        BY <1>2, <2>1, <2>2 DEF LoadedApps
    <2>4. \A z : /\ Loaded(z).id = z
                 /\ x \in NamesOf(Loaded(z)) <=> x = z \/ owner[x] = z
        BY DEF Loaded, NamesOf
    <2>5. b.id \in rows.ids[w]
        BY <2>1
    <2>6. \A z \in rows.ids[w] : z \in Names /\ owner[z] = None
        BY <1>2, <2>1, LoadedFacts
    <2>7. x = b.id \/ owner[x] = b.id
        BY <1>2, <2>1 DEF Matches, NamesOf
    <2>8. \A z \in rows.ids[w] : (x = z \/ owner[x] = z) => z = b.id
        BY <2>5, <2>6, <2>7, NamesAssumption
    <2>9. \A d \in Matches(LoadedApps[w], x) : d.id = b.id
        <3> SUFFICES ASSUME NEW d \in Matches(LoadedApps[w], x) PROVE d.id = b.id
            OBVIOUS
        <3>1. PICK z \in rows.ids[w] : d = Loaded(z)
            BY <2>3 DEF Matches
        <3>2. x \in NamesOf(d)
            BY DEF Matches
        <3> QED BY <2>4, <2>8, <3>1, <3>2
    <2>10. Loaded(b.id) \in Matches(LoadedApps[w], x) /\ Loaded(b.id).id = b.id
        BY <2>3, <2>4, <2>5, <2>7 DEF Matches
    <2> QED BY <2>9, <2>10
<1>3. IInv => RestartKeepsReferences
    BY <1>1, <1>2 DEF RestartKeepsReferences
<1> QED BY <1>3, Invariant, PTL

(* Whatever the sessions have pinned and in whatever order the workspaces  *)
(* are written: the repository of an identity is one that an environment   *)
(* gives it, where an environment gives it one and no session has          *)
(* registered the identity itself.                                         *)
THEOREM RepositoriesCurrent == Spec => []RepositoryIsCurrent
<1>1. IInv => RepositoryIsCurrent
    BY DEF IInv
<1> QED BY <1>1, Invariant, PTL
=============================================================================
