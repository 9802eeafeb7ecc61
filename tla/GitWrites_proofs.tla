-------------------------- MODULE GitWrites_proofs --------------------------
(* Theorems of GitWrites, for any number of clusters, addons, requests and   *)
(* failed calls: the properties that its run checks.                         *)
EXTENDS GitWrites, TLAPS

-----------------------------------------------------------------------------
(* Paths, files and entries *)

Contents(p) == [Key(p) -> Entry(p) \cup {NoEntry}]   \* a file that is there

\* The entry of a file that may be missing.
In(f, k) == IF f = NoFile THEN NoEntry ELSE f[k]

LEMMA Paths ==
    /\ Registry \in Path /\ Catalog \in Path /\ Cluster \subseteq Path
    /\ Registry # Catalog
    /\ \A c \in Cluster : c # Registry /\ c # Catalog /\ Key(c) = Addon
    /\ Key(Registry) = Cluster /\ Key(Catalog) = Addon
BY GitConstants DEF Path, Registry, Catalog, Key

LEMMA Entries ==
    /\ Entry(Registry) = {{"listed"}}
    /\ Entry(Catalog) = {{"added"}, {"edited"}}
    /\ \A c \in Cluster : Entry(c) = SUBSET {"on", "pin"}
<1>1. {{}, {"on"}, {"pin"}, {"on", "pin"}} = SUBSET {"on", "pin"}
  <2>1. ASSUME NEW x \in SUBSET {"on", "pin"} PROVE x \in {{}, {"on"}, {"pin"}, {"on", "pin"}}
    <3>1. CASE "on" \in x /\ "pin" \in x
      BY <3>1
    <3>2. CASE "on" \in x /\ "pin" \notin x
      BY <3>2
    <3>3. CASE "on" \notin x /\ "pin" \in x
      BY <3>3
    <3>4. CASE "on" \notin x /\ "pin" \notin x
      BY <3>4
    <3> QED BY <3>1, <3>2, <3>3, <3>4
  <2> QED BY <2>1
<1>2. \A c \in Cluster : c # Registry /\ c # Catalog
  BY Paths
<1>3. \A c \in Cluster : Entry(c) = {{}, {"on"}, {"pin"}, {"on", "pin"}}
  BY <1>2 DEF Entry
<1>4. Registry # Catalog
  BY Paths
<1> QED BY <1>1, <1>3, <1>4 DEF Entry

LEMMA Markers ==
    ASSUME NEW p \in Path
    PROVE  /\ NoEntry \notin Entry(p) /\ NoFile \notin Contents(p) /\ Keep \notin File(p)
           /\ File(p) = {NoFile} \cup Contents(p)
BY GitConstants DEF Contents, File

LEMMA RepoParts ==
    ASSUME NEW m \in Repo
    PROVE  /\ m = [p \in Path |-> m[p]]
           /\ \A p \in Path : m[p] \in File(p) /\ m[p] # Keep /\ (m[p] # NoFile => m[p] \in Contents(p))
BY Markers DEF Repo

LEMMA PlanParts ==
    ASSUME NEW w \in Plan
    PROVE  /\ w = [p \in Path |-> w[p]]
           /\ \A p \in Path : w[p] = Keep \/ w[p] \in File(p)
BY DEF Plan

\* A file with one entry changed, and a plan with one file more.
Put(f, k, e)  == [f EXCEPT ![k] = e]
Plus(w, p, f) == [w EXCEPT ![p] = f]

LEMMA OneMore ==
    ASSUME NEW w \in Plan, NEW p \in Path, NEW f \in File(p)
    PROVE  /\ Plus(w, p, f) \in Plan
           /\ Plus(w, p, f)[p] = f
           /\ \A q \in Path : q # p => Plus(w, p, f)[q] = w[q]
<1>1. w = [q \in Path |-> w[q]]
  BY PlanParts
<1>2. Plus(w, p, f) = [q \in Path |-> IF q = p THEN f ELSE w[q]]
  BY <1>1 DEF Plus
<1>3. [q \in Path |-> IF q = p THEN f ELSE w[q]] \in Plan
  <2>1. \A q \in Path : (IF q = p THEN f ELSE w[q]) = Keep \/ (IF q = p THEN f ELSE w[q]) \in File(q)
    BY PlanParts
  <2> QED BY <2>1 DEF Plan, Files
<1> QED BY <1>2, <1>3

LEMMA NoPlanParts == NoPlan \in Plan /\ \A p \in Path : NoPlan[p] = Keep
BY DEF NoPlan, Plan

LEMMA JustOne ==
    ASSUME NEW p \in Path, NEW f \in File(p)
    PROVE  /\ Plus(NoPlan, p, f) \in Plan
           /\ Plus(NoPlan, p, f)[p] = f
           /\ \A q \in Path : q # p => Plus(NoPlan, p, f)[q] = Keep
BY NoPlanParts, OneMore

LEMMA OneEntry ==
    ASSUME NEW p \in Path, NEW f \in Contents(p), NEW k \in Key(p), NEW e \in Entry(p) \cup {NoEntry}
    PROVE  /\ Put(f, k, e) \in Contents(p) /\ Put(f, k, e) \in File(p) /\ Put(f, k, e) # NoFile
           /\ In(Put(f, k, e), k) = e
           /\ \A j \in Key(p) : j # k => In(Put(f, k, e), j) = f[j]
<1>1. Put(f, k, e) \in Contents(p)
  BY DEF Contents, Put
<1>2. Put(f, k, e) # NoFile /\ Put(f, k, e) \in File(p)
  BY <1>1, Markers
<1>3. Put(f, k, e)[k] = e /\ \A j \in Key(p) : j # k => Put(f, k, e)[j] = f[j]
  BY DEF Contents, Put
<1> QED BY <1>1, <1>2, <1>3 DEF In

\* What an edit starts from holds what the file holds.
LEMMA CurrentIs ==
    ASSUME main \in Repo, NEW p \in Path
    PROVE  Current(p) \in Contents(p) /\ \A k \in Key(p) : Current(p)[k] = In(main[p], k)
BY RepoParts DEF Current, Contents, In

LEMMA HasIs ==
    ASSUME NEW p, NEW k
    PROVE  /\ Has(p, k) <=> In(main[p], k) # NoEntry
           /\ Has(p, k) => main[p] # NoFile
BY DEF Has, In

LEMMA SwitchIs ==
    ASSUME main \in Repo, NEW c \in Cluster, NEW a \in Addon, NEW with \in SUBSET {"on", "pin"}
    PROVE  /\ Switch(c, a, with) \in File(c) /\ Switch(c, a, with) # NoFile
           /\ \A b \in Addon : b # a => In(Switch(c, a, with), b) = In(main[c], b)
           /\ "on" \in In(Switch(c, a, with), a) <=> "on" \in with
<1> DEFINE f == Current(c)
           e == with \cup (IF f[a] = NoEntry THEN {} ELSE f[a] \cap {"pin"})
<1>1. c \in Path /\ Key(c) = Addon /\ f \in Contents(c)
  BY Paths, CurrentIs
<1>2. f[a] \in Entry(c) \cup {NoEntry}
  BY <1>1 DEF Contents
<1>3. e \in SUBSET {"on", "pin"} /\ ("on" \in e <=> "on" \in with)
  OBVIOUS
<1>4. e \in Entry(c)
  BY <1>3, Entries
<1>5. Switch(c, a, with) = Put(f, a, e)
  BY DEF Switch, Put
<1> HIDE DEF f, e
<1>6. /\ Put(f, a, e) \in File(c) /\ Put(f, a, e) # NoFile
      /\ In(Put(f, a, e), a) = e
      /\ \A b \in Addon : b # a => In(Put(f, a, e), b) = f[b]
  BY <1>1, <1>4, OneEntry
<1>8. \A b \in Addon : f[b] = In(main[c], b)
  BY <1>1, CurrentIs DEF f
<1> QED BY <1>3, <1>5, <1>6, <1>8

-----------------------------------------------------------------------------
(* What a plan w means for a repository m: the contents it writes differ     *)
(* from those of m only in what its operation is about; and on top of a      *)
(* sound repository they make a sound one.                                   *)

Narrow(o, w, m) ==
    \A p \in Path : w[p] # Keep => \A k \in Key(p) : In(w[p], k) # In(m[p], k) => Concerns(o, p, k)

Over(w, m) == [p \in Path |-> IF w[p] = Keep THEN m[p] ELSE w[p]]
Safe(w, m) == Sound(m) => Sound(Over(w, m))

IsOn(f, a) == f # NoFile /\ f[a] # NoEntry /\ "on" \in f[a]
OnlyIn(w, P) == \A p \in Path \ P : w[p] = Keep

\* Operations that read again after this are only half done.
Half(o, w) ==
    /\ o.kind = "remove" => OnlyIn(w, {Registry})
    /\ o.kind \in {"addEnable", "delete"} => OnlyIn(w, {Catalog}) /\ w[Catalog] # Keep
    /\ o.kind = "addEnable" => In(w[Catalog], o.addon) # NoEntry

Approved(a, m) == In(m[Catalog], a) # NoEntry

LEMMA IsOnIn ==
    ASSUME NEW f, NEW a
    PROVE  IsOn(f, a) <=> In(f, a) # NoEntry /\ "on" \in In(f, a)
BY DEF IsOn, In

\* It is enough that nothing is switched on that is not approved, and that
\* what is on stays approved.
LEMMA SafeWhen ==
    ASSUME NEW m, NEW w,
           \A c \in Cluster, b \in Addon :
               IsOn(Over(w, m)[c], b) => IsOn(m[c], b) \/ Approved(b, Over(w, m)),
           \A b \in Addon, c \in Cluster : Approved(b, m) /\ IsOn(Over(w, m)[c], b) => Approved(b, Over(w, m))
    PROVE  Safe(w, m)
BY DEF Safe, Sound, IsOn, Approved, EntryAt, In

\* A plan that writes assignment files only.
LEMMA SafeOnClusters ==
    ASSUME NEW m, NEW w \in Plan, OnlyIn(w, Cluster),
           \A c \in Cluster, b \in Addon : w[c] # Keep /\ IsOn(w[c], b) => IsOn(m[c], b) \/ Approved(b, m)
    PROVE  Safe(w, m)
<1>1. Over(w, m)[Catalog] = m[Catalog]
  BY Paths DEF OnlyIn, Over
<1>2. \A c \in Cluster : Over(w, m)[c] = IF w[c] = Keep THEN m[c] ELSE w[c]
  BY Paths DEF Over
<1>3. \A b : Approved(b, Over(w, m)) <=> Approved(b, m)
  BY <1>1 DEF Approved
<1> QED BY <1>2, <1>3, SafeWhen

\* A plan that writes the registry and the catalog only, and takes no addon
\* out of the catalog that is switched on.
LEMMA SafeOnCatalog ==
    ASSUME NEW m, NEW w \in Plan, OnlyIn(w, {Registry, Catalog}),
           \A b \in Addon, c \in Cluster :
               w[Catalog] # Keep /\ Approved(b, m) /\ IsOn(m[c], b) => In(w[Catalog], b) # NoEntry
    PROVE  Safe(w, m)
<1>1. \A c \in Cluster : Over(w, m)[c] = m[c]
  BY Paths DEF OnlyIn, Over
<1>2. Over(w, m)[Catalog] = IF w[Catalog] = Keep THEN m[Catalog] ELSE w[Catalog]
  BY Paths DEF Over
<1>3. \A b \in Addon, c \in Cluster : Approved(b, m) /\ IsOn(m[c], b) => Approved(b, Over(w, m))
  BY <1>2 DEF Approved
<1> QED BY <1>1, <1>3, SafeWhen

-----------------------------------------------------------------------------
(* What each operation plans *)

\* One assignment file, in which the addon of the operation changes.
LEMMA PlansSwitch ==
    ASSUME main \in Repo, NEW c \in Cluster, NEW a \in Addon, NEW f \in File(c),
           \A b \in Addon : b # a => In(f, b) = In(main[c], b),
           "on" \in In(f, a) /\ In(f, a) # NoEntry => IsOn(main[c], a) \/ Approved(a, main)
    PROVE  LET w == Plus(NoPlan, c, f) IN w \in Plan /\ Safe(w, main)
<1> DEFINE w == Plus(NoPlan, c, f)
<1>1. c \in Path /\ Key(c) = Addon
  BY Paths
<1>2. w \in Plan /\ w[c] = f /\ \A q \in Path : q # c => w[q] = Keep
  BY <1>1, JustOne
<1> HIDE DEF w
<1>3. OnlyIn(w, Cluster)
  BY <1>2 DEF OnlyIn
<1>4. ASSUME NEW d \in Cluster, NEW b \in Addon, w[d] # Keep, IsOn(w[d], b)
      PROVE  IsOn(main[d], b) \/ Approved(b, main)
  <2>1. d = c /\ IsOn(f, b)
    BY <1>2, <1>4, Paths
  <2>2. CASE b = a
    BY <2>1, <2>2, IsOnIn
  <2>3. CASE b # a
    BY <2>1, <2>3, IsOnIn
  <2> QED BY <2>2, <2>3
<1>5. Safe(w, main)
  BY <1>2, <1>3, <1>4, SafeOnClusters
<1> QED BY <1>2, <1>5 DEF w

LEMMA Kind ==
    ASSUME NEW o \in Asked
    PROVE  /\ o.kind \in Kinds /\ o.addon \in Addon /\ o.clusters \subseteq Cluster
           /\ o.kind \notin {"upgrade", "add", "edit", "delete"} => The(o) \in o.clusters /\ The(o) \in Cluster
BY GitConstants DEF Op, The

\* A plan of one file is narrow when the file is.
LEMMA NarrowOne ==
    ASSUME NEW o, NEW p \in Path, NEW f \in File(p), NEW m,
           \A k \in Key(p) : In(f, k) # In(m[p], k) => Concerns(o, p, k)
    PROVE  Narrow(o, Plus(NoPlan, p, f), m)
BY JustOne DEF Narrow

\* Registering and removing change one entry of the registry.
LEMMA RegistryPlans ==
    ASSUME main \in Repo, NEW o \in Asked, o.kind \in {"register", "remove", "forget"}
    PROVE  LET w == Rewrite(o) IN
           w \in Plan /\ Narrow(o, w, main) /\ OnlyIn(w, {Registry})
<1> DEFINE c == The(o)
           Edited(f, e) == Plus(NoPlan, Registry, Put(f, c, e))
<1>1. c \in o.clusters /\ c \in Key(Registry) /\ Registry \in Path
  BY Kind, Paths
<1>2. ASSUME NEW f \in Contents(Registry), NEW e \in {{"listed"}, NoEntry},
             \A k \in Key(Registry) : f[k] = In(main[Registry], k)
      PROVE  Edited(f, e) \in Plan /\ Narrow(o, Edited(f, e), main) /\ OnlyIn(Edited(f, e), {Registry})
  <2> DEFINE g == Put(f, c, e)
  <2>1. e \in Entry(Registry) \cup {NoEntry}
    BY Entries
  <2>2. g \in File(Registry) /\ \A k \in Key(Registry) : k # c => In(g, k) = f[k]
    BY <1>1, <2>1, OneEntry
  <2> HIDE DEF g
  <2>3. \A k \in Key(Registry) : In(g, k) # In(main[Registry], k) => Concerns(o, Registry, k)
    BY <1>1, <1>2, <2>2 DEF Concerns
  <2>4. Narrow(o, Plus(NoPlan, Registry, g), main)
    BY <1>1, <2>2, <2>3, NarrowOne
  <2>5. Plus(NoPlan, Registry, g) \in Plan /\ OnlyIn(Plus(NoPlan, Registry, g), {Registry})
    BY <1>1, <2>2, JustOne DEF OnlyIn
  <2> QED BY <2>4, <2>5 DEF g
<1>3. Current(Registry) \in Contents(Registry) /\ \A k \in Key(Registry) : Current(Registry)[k] = In(main[Registry], k)
  BY <1>1, CurrentIs
<1>4. CASE o.kind = "register"
  <2>1. Rewrite(o) = Edited(Current(Registry), {"listed"})
    BY <1>4 DEF Rewrite, RegisterCluster, Put, Plus
  <2> HIDE DEF Edited
  <2> QED BY <1>2, <1>3, <2>1
<1>5. CASE o.kind \in {"remove", "forget"} /\ Has(Registry, c)
  <2>1. Rewrite(o) = Edited(main[Registry], NoEntry)
    BY <1>5 DEF Rewrite, RemoveClusterEntry, Put, Plus
  <2>2. main[Registry] \in Contents(Registry) /\ \A k \in Key(Registry) : main[Registry][k] = In(main[Registry], k)
    BY <1>1, <1>5, RepoParts DEF Has, In
  <2> HIDE DEF Edited
  <2> QED BY <1>2, <2>1, <2>2
<1>6. CASE o.kind \in {"remove", "forget"} /\ ~Has(Registry, c)
  <2>1. Rewrite(o) = NoPlan
    BY <1>6 DEF Rewrite, RemoveClusterEntry
  <2> QED BY <2>1, NoPlanParts DEF Narrow, OnlyIn
<1> QED BY <1>4, <1>5, <1>6

\* Adding, editing and deleting change one entry of the catalog.
LEMMA CatalogPlans ==
    ASSUME main \in Repo, NEW o \in Asked, o.kind \in {"add", "addEnable", "edit", "delete"}, Accepts(o)
    PROVE  LET w == Rewrite(o) IN
           /\ w \in Plan /\ Narrow(o, w, main) /\ OnlyIn(w, {Catalog}) /\ w[Catalog] # Keep
           /\ o.kind # "delete" => In(w[Catalog], o.addon) # NoEntry
<1> DEFINE a == o.addon
           Edited(f, e) == Plus(NoPlan, Catalog, Put(f, a, e))
<1>1. a \in Key(Catalog) /\ Catalog \in Path
  BY Kind, Paths
<1>2. ASSUME NEW f \in Contents(Catalog), NEW e \in {{"added"}, {"edited"}, NoEntry},
             \A k \in Key(Catalog) : f[k] = In(main[Catalog], k)
      PROVE  /\ Edited(f, e) \in Plan /\ Narrow(o, Edited(f, e), main) /\ OnlyIn(Edited(f, e), {Catalog})
             /\ Edited(f, e)[Catalog] # Keep /\ In(Edited(f, e)[Catalog], a) = e
  <2> DEFINE g == Put(f, a, e)
  <2>1. e \in Entry(Catalog) \cup {NoEntry}
    BY Entries
  <2>2. g \in File(Catalog) /\ In(g, a) = e /\ \A k \in Key(Catalog) : k # a => In(g, k) = f[k]
    BY <1>1, <2>1, OneEntry
  <2> HIDE DEF g
  <2>3. \A k \in Key(Catalog) : In(g, k) # In(main[Catalog], k) => Concerns(o, Catalog, k)
    BY <1>1, <1>2, <2>2 DEF Concerns
  <2>4. Narrow(o, Plus(NoPlan, Catalog, g), main)
    BY <1>1, <2>2, <2>3, NarrowOne
  <2>5. /\ Plus(NoPlan, Catalog, g) \in Plan /\ OnlyIn(Plus(NoPlan, Catalog, g), {Catalog})
        /\ Plus(NoPlan, Catalog, g)[Catalog] = g
    BY <1>1, <2>2, JustOne DEF OnlyIn
  <2>6. g # Keep
    BY <1>1, <2>2, Markers
  <2> QED BY <2>2, <2>4, <2>5, <2>6 DEF g
<1>3. Current(Catalog) \in Contents(Catalog) /\ \A k \in Key(Catalog) : Current(Catalog)[k] = In(main[Catalog], k)
  BY <1>1, CurrentIs
<1>4. {"added"} # NoEntry /\ {"edited"} # NoEntry
  BY <1>1, Markers, Entries
<1>5. CASE o.kind \in {"add", "addEnable"}
  <2>1. Rewrite(o) = Edited(Current(Catalog), {"added"})
    BY <1>5 DEF Rewrite, AddToCatalog, Put, Plus
  <2> HIDE DEF Edited
  <2> QED BY <1>2, <1>3, <1>4, <2>1
<1>6. CASE o.kind \in {"edit", "delete"}
  <2>1. Has(Catalog, a)
    BY <1>6 DEF Accepts
  <2>2. main[Catalog] \in Contents(Catalog) /\ \A k \in Key(Catalog) : main[Catalog][k] = In(main[Catalog], k)
    BY <1>1, <2>1, RepoParts DEF Has, In
  <2>3. /\ o.kind = "edit" => Rewrite(o) = Edited(main[Catalog], {"edited"})
        /\ o.kind = "delete" => Rewrite(o) = Edited(main[Catalog], NoEntry)
    BY <1>6 DEF Rewrite, EditCatalogEntry, DeleteFromCatalog, Put, Plus
  <2> HIDE DEF Edited
  <2> QED BY <1>2, <1>4, <1>6, <2>2, <2>3
<1> QED BY <1>5, <1>6

\* The operations on the addon of one cluster.
ClusterKinds == {"enable", "switchOff", "disable", "drop"}

LEMMA ClusterPlans ==
    ASSUME main \in Repo, NEW o \in Asked, o.kind \in ClusterKinds, Accepts(o)
    PROVE  LET w == Rewrite(o) IN
           /\ w \in Plan /\ Narrow(o, w, main)
           /\ o.kind # "enable" \/ Approved(o.addon, main) => Safe(w, main)
<1> DEFINE c == The(o)
           a == o.addon
<1>1. c \in o.clusters /\ c \in Cluster /\ a \in Addon /\ c \in Path /\ Key(c) = Addon
  BY Kind, Paths DEF ClusterKinds
<1>2. ASSUME NEW f \in File(c), \A b \in Addon : b # a => In(f, b) = In(main[c], b)
      PROVE  Plus(NoPlan, c, f) \in Plan /\ Narrow(o, Plus(NoPlan, c, f), main)
  <2>1. \A k \in Key(c) : In(f, k) # In(main[c], k) => Concerns(o, c, k)
    BY <1>1, <1>2 DEF Concerns, ClusterKinds
  <2> QED BY <1>1, <2>1, NarrowOne, JustOne
<1>3. CASE o.kind = "drop"
  <2> DEFINE f == Put(main[c], a, NoEntry)
  <2>1. Has(c, a)
    BY <1>3 DEF Accepts
  <2>2. main[c] \in Contents(c)
    BY <1>1, <2>1, RepoParts DEF Has
  <2>3. f \in File(c) /\ In(f, a) = NoEntry /\ \A b \in Addon : b # a => In(f, b) = main[c][b]
    BY <1>1, <2>2, OneEntry
  <2>4. main[c] # NoFile
    BY <2>1 DEF Has
  <2>5. Rewrite(o) = Plus(NoPlan, c, f)
    BY <1>3 DEF Rewrite, DisableAddonV4, Put, Plus
  <2> HIDE DEF f
  <2>6. \A b \in Addon : b # a => In(f, b) = In(main[c], b)
    BY <2>3, <2>4 DEF In
  <2>7. Safe(Plus(NoPlan, c, f), main)
    BY <1>1, <2>3, <2>6, PlansSwitch
  <2> QED BY <1>2, <2>3, <2>5, <2>6, <2>7
<1>4. ASSUME NEW with \in SUBSET {"on", "pin"}, Rewrite(o) = Plus(NoPlan, c, Switch(c, a, with)),
             "on" \notin with \/ o.kind = "enable"
      PROVE  /\ Rewrite(o) \in Plan /\ Narrow(o, Rewrite(o), main)
             /\ o.kind # "enable" \/ Approved(a, main) => Safe(Rewrite(o), main)
  <2> DEFINE f == Switch(c, a, with)
  <2>1. /\ f \in File(c) /\ \A b \in Addon : b # a => In(f, b) = In(main[c], b)
        /\ "on" \in In(f, a) <=> "on" \in with
    BY <1>1, SwitchIs
  <2> HIDE DEF f
  <2>2. Rewrite(o) = Plus(NoPlan, c, f)
    BY <1>4 DEF f
  <2>3. o.kind # "enable" \/ Approved(a, main) => Safe(Plus(NoPlan, c, f), main)
    BY <1>1, <1>4, <2>1, PlansSwitch
  <2> QED BY <1>2, <2>1, <2>2, <2>3
<1>5. CASE o.kind = "enable"
  <2>1. Rewrite(o) = Plus(NoPlan, c, Switch(c, a, {"on"}))
    BY <1>5 DEF Rewrite, EnableAddonV4, Plus
  <2> QED BY <1>4, <1>5, <2>1
<1>6. CASE o.kind \in {"switchOff", "disable"}
  <2>1. Rewrite(o) = Plus(NoPlan, c, Switch(c, a, {}))
    BY <1>6 DEF Rewrite, updateClusterAddonsV4, DisableAddonV4, Plus
  <2> QED BY <1>4, <1>6, <2>1
<1> QED BY <1>3, <1>5, <1>6 DEF ClusterKinds

\* An upgrade rewrites the files of its clusters, on all of which the addon is on.
LEMMA UpgradePlans ==
    ASSUME main \in Repo, NEW o \in Asked, o.kind = "upgrade", Accepts(o)
    PROVE  LET w == Rewrite(o) IN w \in Plan /\ Narrow(o, w, main) /\ Safe(w, main)
<1> DEFINE a == o.addon
           both == {"on", "pin"}
           w == [d \in Path |-> IF d \in o.clusters THEN Switch(d, a, both) ELSE Keep]
<1>1. Rewrite(o) = w
  BY DEF Rewrite, UpgradeAddonClustersV4
<1>2. o.clusters \subseteq Cluster /\ a \in Addon /\ o.clusters \subseteq Path
  BY Kind, Paths
<1>3. \A d \in o.clusters : /\ Switch(d, a, both) \in File(d)
                            /\ \A b \in Addon : b # a => In(Switch(d, a, both), b) = In(main[d], b)
  BY <1>2, SwitchIs
<1>4. \A d \in Path : w[d] = IF d \in o.clusters THEN Switch(d, a, both) ELSE Keep
  OBVIOUS
<1>5. w \in Plan
  <2>1. \A d \in Path : w[d] = Keep \/ w[d] \in File(d)
    BY <1>3, <1>4
  <2>2. \A d \in Path : w[d] \in {Keep} \cup Files
    BY <2>1 DEF Files
  <2> QED BY <2>1, <2>2 DEF Plan
<1> HIDE DEF w
<1>6. Narrow(o, w, main)
  <2> SUFFICES ASSUME NEW d \in Path, w[d] # Keep, NEW k \in Key(d), In(w[d], k) # In(main[d], k)
               PROVE  Concerns(o, d, k)
    BY DEF Narrow
  <2>1. d \in o.clusters /\ Key(d) = Addon
    BY <1>2, <1>4, Paths
  <2>2. k = a
    BY <1>3, <1>4, <2>1
  <2> QED BY <2>1, <2>2 DEF Concerns
<1>7. OnlyIn(w, Cluster)
  BY <1>2, <1>4 DEF OnlyIn
<1>8. ASSUME NEW d \in Cluster, NEW b \in Addon, w[d] # Keep, IsOn(w[d], b)
      PROVE  IsOn(main[d], b) \/ Approved(b, main)
  <2>1. d \in o.clusters /\ w[d] = Switch(d, a, both)
    BY <1>4, <1>8, Paths
  <2>2. CASE b = a
    BY <2>1, <2>2 DEF Accepts, On, Has, IsOn
  <2>3. CASE b # a
    BY <1>3, <1>8, <2>1, <2>3, IsOnIn
  <2> QED BY <2>2, <2>3
<1>9. Safe(w, main)
  BY <1>5, <1>7, <1>8, SafeOnClusters
<1> QED BY <1>1, <1>5, <1>6, <1>9

\* What the read leaves to write, for all twelve operations.
LEMMA RewriteIs ==
    ASSUME main \in Repo, NEW o \in Asked, Accepts(o)
    PROVE  LET w == Rewrite(o) IN
           /\ w \in Plan /\ Narrow(o, w, main)
           /\ o.kind \in Surveys => Half(o, w)
           /\ o.kind \notin Surveys /\ (o.kind \in Gated => Approved(o.addon, main)) => Safe(w, main)
<1> DEFINE w == Rewrite(o)
<1>1. o.kind \in Kinds
  BY Kind
<1>2. CASE o.kind \in {"register", "remove", "forget"}
  <2>1. w \in Plan /\ Narrow(o, w, main) /\ OnlyIn(w, {Registry})
    BY <1>2, RegistryPlans
  <2> HIDE DEF w
  <2>2. Safe(w, main)
    BY <2>1, Paths, SafeOnCatalog DEF OnlyIn
  <2>3. o.kind = "remove" => Half(o, w)
    BY <2>1 DEF Half
  <2> QED BY <1>2, <2>1, <2>2, <2>3 DEF w, Surveys
<1>3. CASE o.kind \in {"add", "addEnable", "edit", "delete"}
  <2>1. /\ w \in Plan /\ Narrow(o, w, main) /\ OnlyIn(w, {Catalog}) /\ w[Catalog] # Keep
        /\ o.kind # "delete" => In(w[Catalog], o.addon) # NoEntry
    BY <1>3, CatalogPlans
  <2> HIDE DEF w
  <2>2. o.kind \in Surveys => Half(o, w)
    BY <1>3, <2>1 DEF Half, Surveys
  <2>3. ASSUME o.kind \in {"add", "edit"} PROVE Safe(w, main)
    <3>1. \A b \in Addon : b # o.addon => In(w[Catalog], b) = In(main[Catalog], b)
      BY <2>1, <2>3, Paths DEF Narrow, Concerns
    <3>2. \A b \in Addon : Approved(b, main) => In(w[Catalog], b) # NoEntry
      BY <2>1, <2>3, <3>1 DEF Approved
    <3> QED BY <2>1, <3>2, SafeOnCatalog DEF OnlyIn
  <2> QED BY <1>3, <2>1, <2>2, <2>3 DEF w, Surveys
<1>4. CASE o.kind \in ClusterKinds
  BY <1>4, ClusterPlans DEF ClusterKinds, Surveys, Gated
<1>5. CASE o.kind = "upgrade"
  BY <1>5, UpgradePlans DEF Surveys
<1> QED BY <1>1, <1>2, <1>3, <1>4, <1>5 DEF Kinds, ClusterKinds

\* What the second round of reads leaves, when it finds the addon of a catalog
\* entry that is to be deleted switched on nowhere.
LEMMA ExtendIs ==
    ASSUME main \in Repo, NEW o \in Asked, NEW w \in Plan, o.kind \in Surveys,
           Narrow(o, w, main), Half(o, w),
           o.kind = "delete" => ~EnabledSomewhere(o.addon)
    PROVE  LET x == Extend(w, o) IN x \in Plan /\ Narrow(o, x, main) /\ Safe(x, main)
<1> DEFINE c == The(o)
           a == o.addon
<1>1. a \in Addon /\ (o.kind # "delete" => c \in o.clusters /\ c \in Cluster /\ c \in Path /\ Key(c) = Addon)
  BY Kind, Paths DEF Surveys
<1>2. CASE o.kind = "remove" /\ main[c] = NoFile
  <2>1. Extend(w, o) = w
    BY <1>2 DEF Extend
  <2>2. Safe(w, main)
    BY <1>2, Paths, SafeOnCatalog DEF Half, OnlyIn
  <2> QED BY <2>1, <2>2
<1>3. CASE o.kind = "remove" /\ main[c] # NoFile
  <2> DEFINE x == Plus(w, c, NoFile)
  <2>1. Extend(w, o) = x
    BY <1>3 DEF Extend, Plus
  <2>2. NoFile \in File(c)
    BY <1>1, <1>3, Markers
  <2>3. x \in Plan /\ x[c] = NoFile /\ \A q \in Path : q # c => x[q] = w[q]
    BY <1>1, <1>3, <2>2, OneMore
  <2> HIDE DEF x
  <2>4. Narrow(o, x, main)
    BY <1>1, <1>3, <2>3 DEF Narrow, Concerns
  <2>5. Over(x, main)[Catalog] = main[Catalog]
    BY <1>1, <1>3, <2>3, Paths DEF Half, OnlyIn, Over
  <2>6. \A d \in Cluster : Over(x, main)[d] = main[d] \/ Over(x, main)[d] = NoFile
    BY <1>1, <1>3, <2>3, Paths DEF Half, OnlyIn, Over
  <2>7. \A d \in Cluster, b \in Addon : IsOn(Over(x, main)[d], b) => IsOn(main[d], b)
    BY <2>6 DEF IsOn
  <2>8. Safe(x, main)
    BY <2>5, <2>7, SafeWhen DEF Approved
  <2> QED BY <2>1, <2>3, <2>4, <2>8
<1>4. CASE o.kind = "addEnable"
  <2> DEFINE f == Switch(c, a, {"on"})
             x == Plus(w, c, f)
  <2>1. Extend(w, o) = x
    BY <1>4 DEF Extend, Plus
  <2>2. f \in File(c) /\ \A b \in Addon : b # a => In(f, b) = In(main[c], b)
    BY <1>1, <1>4, SwitchIs
  <2> HIDE DEF f
  <2>3. x \in Plan /\ x[c] = f /\ \A q \in Path : q # c => x[q] = w[q]
    BY <1>1, <1>4, <2>2, OneMore
  <2> HIDE DEF x
  <2>4. OnlyIn(w, {Catalog}) /\ w[Catalog] # Keep /\ In(w[Catalog], a) # NoEntry
    BY <1>4 DEF Half
  <2>5. Narrow(o, x, main)
    <3> SUFFICES ASSUME NEW q \in Path, x[q] # Keep, NEW k \in Key(q), In(x[q], k) # In(main[q], k)
                 PROVE  Concerns(o, q, k)
      BY DEF Narrow
    <3>1. CASE q = c
      BY <1>1, <1>4, <2>2, <2>3, <3>1 DEF Concerns
    <3>2. CASE q # c
      BY <2>3, <3>2 DEF Narrow
    <3> QED BY <3>1, <3>2
  <2>6. \A b \in Addon : b # a => In(w[Catalog], b) = In(main[Catalog], b)
    BY <1>4, <2>4, Paths DEF Narrow, Concerns
  <2>7. Over(x, main)[Catalog] = w[Catalog]
    BY <1>1, <1>4, <2>3, <2>4, Paths DEF Over
  <2>8. \A d \in Cluster : Over(x, main)[d] = IF d = c THEN f ELSE main[d]
    <3>1. f # Keep
      BY <1>1, <1>4, <2>2, Markers
    <3> QED BY <2>3, <2>4, <3>1, Paths DEF OnlyIn, Over
  <2>9. ASSUME NEW d \in Cluster, NEW b \in Addon, IsOn(Over(x, main)[d], b)
        PROVE  IsOn(main[d], b) \/ Approved(b, Over(x, main))
    <3>1. CASE b = a
      BY <2>4, <2>7, <3>1 DEF Approved
    <3>2. CASE b # a
      BY <2>2, <2>8, <2>9, <3>2, IsOnIn
    <3> QED BY <3>1, <3>2
  <2>10. \A b \in Addon : Approved(b, main) => Approved(b, Over(x, main))
    BY <2>4, <2>6, <2>7 DEF Approved
  <2>11. Safe(x, main)
    BY <2>9, <2>10, SafeWhen
  <2> QED BY <2>1, <2>3, <2>5, <2>11
<1>5. CASE o.kind = "delete"
  <2>1. Extend(w, o) = w
    BY <1>5 DEF Extend
  <2>2. OnlyIn(w, {Catalog}) /\ w[Catalog] # Keep
    BY <1>5 DEF Half
  <2>3. \A b \in Addon : b # a => In(w[Catalog], b) = In(main[Catalog], b)
    BY <1>5, <2>2, Paths DEF Narrow, Concerns
  <2>4. \A d \in Cluster : ~IsOn(main[d], a)
    BY <1>5 DEF EnabledSomewhere, On, Has, IsOn
  <2>5. \A b \in Addon, d \in Cluster : Approved(b, main) /\ IsOn(main[d], b) => In(w[Catalog], b) # NoEntry
    BY <2>3, <2>4 DEF Approved
  <2>6. Safe(w, main)
    BY <2>2, <2>5, SafeOnCatalog DEF OnlyIn
  <2> QED BY <2>1, <2>6
<1> QED BY <1>2, <1>3, <1>4, <1>5 DEF Surveys

\* A removal that did not see the assignment file.
LEMMA HalfRemoval ==
    ASSUME NEW o, NEW w \in Plan, NEW m, o.kind = "remove", Half(o, w)
    PROVE  Safe(w, m)
BY Paths, SafeOnCatalog DEF Half, OnlyIn

-----------------------------------------------------------------------------
(* Branches and merges *)

LEMMA BranchIs ==
    ASSUME main \in Repo, NEW w \in Plan
    PROVE  Branch(w) \in Repo /\ Branch(w) = Over(w, main)
<1>1. \A p \in Path : (IF w[p] = Keep THEN main[p] ELSE w[p]) \in File(p)
  BY RepoParts, PlanParts
<1> QED BY <1>1 DEF Branch, Over, Repo, Files

LEMMA BranchNarrow ==
    ASSUME NEW o, NEW w, NEW m, Narrow(o, w, m)
    PROVE  Narrow(o, Over(w, m), m)
BY DEF Narrow, Over

LEMMA MergedIs ==
    ASSUME main \in Repo, NEW d, d.base \in Repo, d.head \in Repo
    PROVE  /\ Merged(d) \in Repo
           /\ d.base = main => Merged(d) = d.head
           /\ Mergeable(d) => \A p \in Path : \A k \in Key(p) :
                  EntryAt(Merged(d), p, k) # EntryAt(main, p, k) => In(d.head[p], k) # In(d.base[p], k)
<1> DEFINE b(p) == d.base[p]
           h(p) == d.head[p]
           n(p) == main[p]
           x(p) == MergedFile(b(p), h(p), n(p))
<1>1. ASSUME NEW p \in Path
      PROVE  /\ b(p) \in File(p) /\ h(p) \in File(p) /\ n(p) \in File(p)
             /\ b(p) # NoFile => b(p) \in Contents(p)
             /\ h(p) # NoFile => h(p) \in Contents(p)
             /\ n(p) # NoFile => n(p) \in Contents(p)
  BY RepoParts
<1>2. Merged(d) = [p \in Path |-> x(p)]
  BY DEF Merged
<1> HIDE DEF b, h, n, x
<1>3. ASSUME NEW p \in Path PROVE x(p) \in File(p)
  <2>1. CASE h(p) = b(p) \/ n(p) = b(p) \/ n(p) = h(p) \/ NoFile \in {b(p), h(p), n(p)}
    BY <1>1, <2>1 DEF MergedFile, x
  <2>2. CASE ~(h(p) = b(p) \/ n(p) = b(p) \/ n(p) = h(p) \/ NoFile \in {b(p), h(p), n(p)})
    <3>1. x(p) = [k \in DOMAIN n(p) |-> IF h(p)[k] # b(p)[k] THEN h(p)[k] ELSE n(p)[k]]
      BY <2>2 DEF MergedFile, x
    <3>2. n(p) \in Contents(p) /\ h(p) \in Contents(p)
      BY <1>1, <2>2
    <3>3. x(p) \in Contents(p)
      BY <3>1, <3>2 DEF Contents
    <3> QED BY <3>3, Markers
  <2> QED BY <2>1, <2>2
<1>4. Merged(d) \in Repo
  BY <1>2, <1>3 DEF Repo, Files
<1>5. ASSUME d.base = main PROVE Merged(d) = d.head
  <2>1. \A p \in Path : x(p) = d.head[p]
    BY <1>5 DEF MergedFile, x, b, h, n
  <2> QED BY <1>2, <2>1, RepoParts
<1>6. ASSUME Mergeable(d), NEW p \in Path, NEW k \in Key(p),
             EntryAt(Merged(d), p, k) # EntryAt(main, p, k)
      PROVE  In(d.head[p], k) # In(d.base[p], k)
  <2>1. In(x(p), k) # In(n(p), k)
    BY <1>2, <1>6 DEF EntryAt, In, n
  <2>2. ~(b(p) # h(p) /\ b(p) # n(p) /\ h(p) # n(p) /\ NoFile \in {b(p), h(p), n(p)})
    BY <1>6 DEF Mergeable, Clash, BothChanged, b, h, n
  <2>3. CASE h(p) = b(p) \/ n(p) = h(p)
    BY <2>1, <2>3 DEF MergedFile, x
  <2>4. CASE n(p) = b(p) /\ h(p) # b(p)
    BY <2>1, <2>4 DEF MergedFile, x, b, h
  <2>5. CASE h(p) # b(p) /\ n(p) # h(p) /\ n(p) # b(p)
    <3>1. NoFile \notin {b(p), h(p), n(p)}
      BY <2>2, <2>5
    <3>2. x(p) = [j \in DOMAIN n(p) |-> IF h(p)[j] # b(p)[j] THEN h(p)[j] ELSE n(p)[j]]
      BY <2>5, <3>1 DEF MergedFile, x
    <3>3. n(p) \in Contents(p) /\ DOMAIN n(p) = Key(p)
      BY <1>1, <3>1 DEF Contents
    <3>4. x(p)[k] = IF h(p)[k] # b(p)[k] THEN h(p)[k] ELSE n(p)[k]
      BY <3>2, <3>3
    <3>5. x(p) # NoFile
      <4>1. h(p) \in Contents(p)
        BY <1>1, <3>1
      <4>2. x(p) \in Contents(p)
        BY <3>2, <3>3, <4>1 DEF Contents
      <4> QED BY <4>2, Markers
    <3>6. h(p)[k] # b(p)[k]
      BY <2>1, <3>1, <3>4, <3>5 DEF In
    <3> QED BY <3>1, <3>6 DEF In, h, b
  <2> QED BY <2>3, <2>4, <2>5
<1> QED BY <1>4, <1>5, <1>6

-----------------------------------------------------------------------------
(* The inductive invariant *)

\* A request holds the mutex from its branch to its answer.
Holds(r) == pc[r] \in {"open", "merge", "leave"} => lock = r

\* A request that was made asks for something, and has come to its place by
\* the order of its kind's reads.
Asks(r) ==
    /\ pc[r] # "idle" => op[r] \in Asked
    /\ pc[r] = "idle" => pr[r] = NoPR
    /\ pc[r] = "look" => op[r].kind \in Looks
    /\ pc[r] = "gate" => op[r].kind \in Gated
    /\ pc[r] = "survey" => op[r].kind \in Surveys

\* While a request may merge, main is what its branch was created from, unless
\* a person changed it.
Branched(r) ==
    pc[r] = "merge" => pr[r] # NoPR /\ (~disturbed[r] => pr[r].base = main)

\* As long as main does not change, what a request saw and plans holds of it.
Planned(r) ==
    ~behind[r] =>
        /\ pc[r] = "read" /\ op[r].kind \in Gated => Approved(op[r].addon, main)
        /\ pc[r] = "survey" => Narrow(op[r], plan[r], main) /\ Half(op[r], plan[r])
        /\ pc[r] \in {"lock", "open"} => Narrow(op[r], plan[r], main) /\ Safe(plan[r], main)

\* And so it does of its pull request, relative to what that was based on.
Opened(r) ==
    pr[r] # NoPR /\ ~behind[r] =>
        /\ Narrow(op[r], pr[r].head, pr[r].base)
        /\ Sound(pr[r].base) => Sound(pr[r].head)

Mine(r) == Asks(r) /\ Branched(r) /\ Planned(r) /\ Opened(r)

IInv == TypeOK /\ \A r \in Request : Holds(r) /\ Mine(r)

LEMMA PullRequests ==
    /\ NoPR \in PR /\ NoPR.status = "none"
    /\ \A d \in PR : d # NoPR => d.base \in Repo /\ d.head \in Repo /\ d.status # "none"
    /\ \A b \in Repo, h \in Repo : LET d == [status |-> "open", base |-> b, head |-> h] IN
          d \in PR /\ d # NoPR /\ d.base = b /\ d.head = h
    /\ \A d \in PR, status \in {"merged", "closed"} : d # NoPR =>
          LET e == [d EXCEPT !.status = status] IN
              e \in PR /\ e # NoPR /\ e.base = d.base /\ e.head = d.head
<1>1. \A d \in PR : d # NoPR => d \in [status : {"open", "merged", "closed"}, base : Repo, head : Repo]
  BY DEF PR
<1>2. \A d \in [status : {"open", "merged", "closed"}, base : Repo, head : Repo] : d.status # "none"
  OBVIOUS
<1>3. NoPR.status = "none" /\ NoPR \in PR
  BY DEF NoPR, PR
<1>4. \A d \in [status : {"open", "merged", "closed"}, base : Repo, head : Repo] : d \in PR /\ d # NoPR
  BY <1>2, <1>3 DEF PR
<1>5. ASSUME NEW d \in PR, NEW status \in {"merged", "closed"}, d # NoPR
      PROVE  LET e == [d EXCEPT !.status = status] IN
                 e \in PR /\ e # NoPR /\ e.base = d.base /\ e.head = d.head
  <2> DEFINE e == [d EXCEPT !.status = status]
  <2>1. d \in [status : {"open", "merged", "closed"}, base : Repo, head : Repo]
    BY <1>1, <1>5
  <2>2. /\ e \in [status : {"open", "merged", "closed"}, base : Repo, head : Repo]
        /\ e.base = d.base /\ e.head = d.head
    BY <2>1
  <2> QED BY <1>4, <2>2
<1>6. ASSUME NEW b \in Repo, NEW h \in Repo
      PROVE  LET d == [status |-> "open", base |-> b, head |-> h] IN
                 d \in PR /\ d # NoPR /\ d.base = b /\ d.head = h
  <2>1. [status |-> "open", base |-> b, head |-> h] \in [status : {"open", "merged", "closed"}, base : Repo, head : Repo]
    OBVIOUS
  <2> QED BY <1>4, <2>1
<1> QED BY <1>1, <1>2, <1>3, <1>5, <1>6

LEMMA InvInit == Init => IInv
<1> SUFFICES ASSUME Init PROVE IInv
  OBVIOUS
<1>1. main \in Repo
  BY DEF Init, Start
<1>2. TypeOK
  BY <1>1, NoPlanParts, PullRequests, GitConstants DEF Init, TypeOK
<1>3. ASSUME NEW r \in Request PROVE Holds(r) /\ Mine(r)
  BY <1>3 DEF Init, Holds, Mine, Asks, Branched, Planned, Opened
<1> QED BY <1>2, <1>3 DEF IInv

-----------------------------------------------------------------------------
(* Every step keeps it *)

Pcs == {"idle", "look", "gate", "read", "survey", "lock", "open", "merge", "leave", "answered"}

LEMMA OrderOfReads ==
    ASSUME NEW kind \in Kinds
    PROVE  /\ First(kind) \in {"look", "read"} /\ (First(kind) = "look" <=> kind \in Looks)
           /\ After(kind, "look") = IF kind \in Gated THEN "gate" ELSE "read"
           /\ After(kind, "gate") = "read"
           /\ After(kind, "read") = IF kind \in Surveys THEN "survey" ELSE "lock"
           /\ After(kind, "survey") = "lock"
           /\ kind \in Gated => kind \in Looks /\ kind \notin Surveys
BY DEF First, After, Gated, Looks, Surveys

\* What the invariant says of one request before the step.
LEMMA Here ==
    ASSUME IInv, NEW r \in Request
    PROVE  /\ TypeOK /\ main \in Repo /\ plan[r] \in Plan /\ pr[r] \in PR
           /\ pc[r] \in Pcs /\ (pc[r] # "idle" => op[r] \in Asked /\ op[r].kind \in Kinds)
           /\ Holds(r) /\ Asks(r) /\ Branched(r) /\ Planned(r) /\ Opened(r)
<1>1. TypeOK /\ Holds(r) /\ Asks(r) /\ Branched(r) /\ Planned(r) /\ Opened(r)
  BY DEF IInv, Mine
<1>2. pc[r] # "idle" => op[r] \in Asked /\ op[r].kind \in Kinds
  BY <1>1, Kind DEF Asks
<1> QED BY <1>1, <1>2 DEF TypeOK, Pcs

\* A step of one request that leaves main alone.
LEMMA OneMoves ==
    ASSUME IInv, NEW r \in Request, TypeOK', UNCHANGED <<main, behind, disturbed>>,
           \A q \in Request \ {r} : /\ op'[q] = op[q] /\ pc'[q] = pc[q]
                                    /\ plan'[q] = plan[q] /\ pr'[q] = pr[q],
           \A q \in Request : Holds(q)',
           Asks(r)', Branched(r)', Planned(r)', Opened(r)'
    PROVE  IInv'
<1>1. ASSUME NEW q \in Request, q # r PROVE Mine(q)'
  <2>1. Asks(q) /\ Branched(q) /\ Planned(q) /\ Opened(q)
    BY Here
  <2>2. op'[q] = op[q] /\ pc'[q] = pc[q] /\ plan'[q] = plan[q] /\ pr'[q] = pr[q]
    BY <1>1
  <2>3. Asks(q)'
    BY <2>1, <2>2 DEF Asks
  <2>4. Branched(q)'
    BY <2>1, <2>2 DEF Branched
  <2>5. Planned(q)'
    BY <2>1, <2>2 DEF Planned
  <2>6. Opened(q)'
    BY <2>1, <2>2 DEF Opened
  <2> QED BY <2>3, <2>4, <2>5, <2>6 DEF Mine
<1> QED BY <1>1 DEF IInv, Mine

\* A step of one request before it has the mutex, or after.
LEMMA OneGoes ==
    ASSUME IInv, NEW r \in Request, NEW at \in Pcs,
           Goto(r, at), UNCHANGED <<main, op, pr, behind, disturbed>>,
           faults' \in 0..MaxFaults, lock' \in Request \cup {Nobody}, plan' \in [Request -> Plan],
           \A q \in Request \ {r} : plan'[q] = plan[q],
           \A q \in Request : Holds(q)',
           at \notin {"idle", "merge"}, pc[r] # "idle",
           at = "look" => op[r].kind \in Looks,
           at = "gate" => op[r].kind \in Gated,
           at = "survey" => op[r].kind \in Surveys,
           ~behind[r] =>
               /\ at = "read" /\ op[r].kind \in Gated => Approved(op[r].addon, main)
               /\ at = "survey" => Narrow(op[r], plan'[r], main) /\ Half(op[r], plan'[r])
               /\ at \in {"lock", "open"} => Narrow(op[r], plan'[r], main) /\ Safe(plan'[r], main)
    PROVE  IInv'
<1>1. pc' = [pc EXCEPT ![r] = at] /\ pc \in [Request -> Pcs] /\ r \in Request
  BY Here DEF Goto, TypeOK, Pcs
<1>2. pc'[r] = at /\ \A q \in Request \ {r} : pc'[q] = pc[q]
  BY <1>1
<1>3. pc' \in [Request -> Pcs]
  BY <1>1
<1>4. TypeOK'
  BY <1>3, Here DEF TypeOK, Pcs
<1>5. Asks(r)' /\ Branched(r)' /\ Planned(r)'
  BY <1>2, Here DEF Asks, Branched, Planned
<1>6. Opened(r)'
  BY Here DEF Opened
<1> QED BY <1>2, <1>4, <1>5, <1>6, OneMoves

LEMMA LocksStay ==
    ASSUME IInv, NEW r \in Request, NEW at \in Pcs, Goto(r, at), UNCHANGED lock,
           at \in {"open", "merge", "leave"} => lock = r
    PROVE  \A q \in Request : Holds(q)'
<1>1. pc'[r] = at /\ \A q \in Request \ {r} : pc'[q] = pc[q]
  BY Here DEF Goto, TypeOK
<1> QED BY <1>1, Here DEF Holds

LEMMA AskKeeps ==
    ASSUME IInv, NEW r \in Request, Ask(r) PROVE IInv'
<1>1. PICK o \in Asked : op' = [op EXCEPT ![r] = o] /\ Goto(r, First(o.kind))
  BY DEF Ask
<1>2. /\ pc[r] = "idle" /\ UNCHANGED <<main, lock, plan, pr, faults, behind, disturbed>>
      /\ o \in Op /\ o.kind \in Kinds
  BY Kind, GitConstants DEF Ask, history
<1>3. First(o.kind) \in {"look", "read"} /\ (First(o.kind) = "look" <=> o.kind \in Looks)
      /\ (o.kind \in Gated => o.kind \in Looks)
  BY <1>2, OrderOfReads
<1>4. /\ op'[r] = o /\ \A q \in Request \ {r} : op'[q] = op[q]
      /\ pc'[r] = First(o.kind) /\ \A q \in Request \ {r} : pc'[q] = pc[q]
  BY <1>1, Here DEF Goto, TypeOK
<1>5. TypeOK'
  BY <1>1, <1>2, <1>3, Here DEF TypeOK, Goto
<1>6. \A q \in Request : Holds(q)'
  BY <1>1, <1>2, <1>3, LocksStay DEF Pcs
<1>7. pr[r] = NoPR
  BY <1>2, Here DEF Asks
<1>8. Asks(r)' /\ Branched(r)' /\ Planned(r)' /\ Opened(r)'
  BY <1>2, <1>3, <1>4, <1>7 DEF Asks, Branched, Planned, Opened
<1> QED BY <1>2, <1>4, <1>5, <1>6, <1>8, OneMoves

LEMMA LookKeeps ==
    ASSUME IInv, NEW r \in Request, Look(r) PROVE IInv'
<1>1. /\ pc[r] = "look" /\ op[r].kind \in Kinds
      /\ UNCHANGED <<main, lock, op, plan, pr, faults, behind, disturbed>>
  BY Here DEF Look, history
<1>2. PICK at \in {"gate", "read", "answered"} :
          Goto(r, at) /\ (at = "gate" => op[r].kind \in Gated) /\ (at = "read" => op[r].kind \notin Gated)
  BY <1>1, OrderOfReads DEF Look, Onward, Answer
<1>3. \A q \in Request : Holds(q)'
  BY <1>1, <1>2, LocksStay DEF Pcs
<1> QED BY <1>1, <1>2, <1>3, Here, OneGoes DEF TypeOK, Pcs

LEMMA GateKeeps ==
    ASSUME IInv, NEW r \in Request, Gate(r) PROVE IInv'
<1>1. /\ pc[r] = "gate" /\ op[r].kind \in Kinds
      /\ UNCHANGED <<main, lock, op, plan, pr, faults, behind, disturbed>>
  BY Here DEF Gate, history
<1>2. PICK at \in {"read", "answered"} : Goto(r, at) /\ (at = "read" => Approved(op[r].addon, main))
  BY <1>1, OrderOfReads, HasIs DEF Gate, Onward, Answer, Approved
<1>3. \A q \in Request : Holds(q)'
  BY <1>1, <1>2, LocksStay DEF Pcs
<1> QED BY <1>1, <1>2, <1>3, Here, OneGoes DEF TypeOK, Pcs

LEMMA ReadKeeps ==
    ASSUME IInv, NEW r \in Request, Read(r) PROVE IInv'
<1>1. /\ pc[r] = "read" /\ op[r].kind \in Kinds /\ op[r] \in Asked /\ main \in Repo
      /\ UNCHANGED <<main, lock, op, pr, faults, behind, disturbed>>
  BY Here DEF Read, history
<1>2. CASE Accepts(op[r])
  <2> DEFINE w == Rewrite(op[r])
             at == After(op[r].kind, "read")
  <2>1. plan' = [plan EXCEPT ![r] = w] /\ Goto(r, at)
    BY <1>1, <1>2 DEF Read, Onward
  <2>2. /\ w \in Plan /\ Narrow(op[r], w, main)
        /\ op[r].kind \in Surveys => Half(op[r], w)
        /\ op[r].kind \notin Surveys /\ (op[r].kind \in Gated => Approved(op[r].addon, main)) => Safe(w, main)
    BY <1>1, <1>2, RewriteIs
  <2>3. at = IF op[r].kind \in Surveys THEN "survey" ELSE "lock"
    BY <1>1, OrderOfReads
  <2> HIDE DEF w, at
  <2>4. /\ plan'[r] = w /\ \A q \in Request \ {r} : plan'[q] = plan[q]
        /\ plan' \in [Request -> Plan]
    BY <2>1, <2>2, Here DEF TypeOK
  <2>5. ~behind[r] /\ op[r].kind \in Gated => Approved(op[r].addon, main)
    BY <1>1, Here DEF Planned
  <2>6. at \in Pcs /\ at \in {"survey", "lock"}
    BY <2>3 DEF Pcs
  <2>7. \A q \in Request : Holds(q)'
    BY <1>1, <2>1, <2>6, LocksStay
  <2>8. faults' \in 0..MaxFaults /\ lock' \in Request \cup {Nobody}
    BY <1>1, Here DEF TypeOK
  <2> QED BY <1>1, <2>1, <2>2, <2>3, <2>4, <2>5, <2>6, <2>7, <2>8, OneGoes
<1>3. CASE ~Accepts(op[r])
  <2>1. Goto(r, "answered") /\ UNCHANGED plan /\ "answered" \in Pcs
    BY <1>3 DEF Read, Answer, Pcs
  <2>2. \A q \in Request : Holds(q)'
    BY <1>1, <2>1, LocksStay
  <2> QED BY <1>1, <2>1, <2>2, Here, OneGoes DEF TypeOK
<1> QED BY <1>2, <1>3

LEMMA ExtendType ==
    ASSUME main \in Repo, NEW o \in Asked, NEW w \in Plan, o.kind \in Surveys
    PROVE  Extend(w, o) \in Plan
<1> DEFINE c == The(o)
<1>1. o.addon \in Addon /\ (o.kind # "delete" => c \in Cluster /\ c \in Path)
  BY Kind, Paths DEF Surveys
<1>2. CASE o.kind = "remove" /\ main[c] # NoFile
  <2>1. Extend(w, o) = Plus(w, c, NoFile)
    BY <1>2 DEF Extend, Plus
  <2>2. NoFile \in File(c)
    BY <1>1, <1>2, Markers
  <2> QED BY <1>1, <1>2, <2>1, <2>2, OneMore
<1>3. CASE o.kind = "addEnable"
  <2>1. Extend(w, o) = Plus(w, c, Switch(c, o.addon, {"on"}))
    BY <1>3 DEF Extend, Plus
  <2>2. Switch(c, o.addon, {"on"}) \in File(c)
    BY <1>1, <1>3, SwitchIs
  <2> QED BY <1>1, <1>3, <2>1, <2>2, OneMore
<1>4. CASE o.kind = "delete" \/ (o.kind = "remove" /\ main[c] = NoFile)
  BY <1>4 DEF Extend
<1> QED BY <1>2, <1>3, <1>4 DEF Surveys

LEMMA SurveyKeeps ==
    ASSUME IInv, NEW r \in Request, Survey(r) PROVE IInv'
<1>1. /\ pc[r] = "survey" /\ op[r].kind \in Kinds /\ op[r] \in Asked /\ main \in Repo /\ plan[r] \in Plan
      /\ op[r].kind \in Surveys
      /\ UNCHANGED <<main, lock, op, pr, faults, behind, disturbed>>
  BY Here DEF Survey, history, Asks
<1>2. CASE op[r].kind = "delete" /\ EnabledSomewhere(op[r].addon)
  <2>1. Goto(r, "answered") /\ UNCHANGED plan /\ "answered" \in Pcs
    BY <1>2 DEF Survey, Answer, Pcs
  <2>2. \A q \in Request : Holds(q)'
    BY <1>1, <2>1, LocksStay
  <2> QED BY <1>1, <2>1, <2>2, Here, OneGoes DEF TypeOK
<1>3. CASE ~(op[r].kind = "delete" /\ EnabledSomewhere(op[r].addon))
  <2> DEFINE w == Extend(plan[r], op[r])
  <2>1. plan' = [plan EXCEPT ![r] = w] /\ Goto(r, "lock") /\ "lock" \in Pcs
    BY <1>1, <1>3, OrderOfReads DEF Survey, Onward, Pcs
  <2>2. w \in Plan
    BY <1>1, ExtendType
  <2>3. ~behind[r] => Narrow(op[r], w, main) /\ Safe(w, main)
    BY <1>1, <1>3, Here, ExtendIs DEF Planned
  <2> HIDE DEF w
  <2>4. /\ plan'[r] = w /\ \A q \in Request \ {r} : plan'[q] = plan[q]
        /\ plan' \in [Request -> Plan]
    BY <2>1, <2>2, Here DEF TypeOK
  <2>5. \A q \in Request : Holds(q)'
    BY <1>1, <2>1, LocksStay
  <2>6. faults' \in 0..MaxFaults /\ lock' \in Request \cup {Nobody}
    BY <1>1, Here DEF TypeOK
  <2> QED BY <1>1, <2>1, <2>3, <2>4, <2>5, <2>6, OneGoes
<1> QED BY <1>2, <1>3

LEMMA ReadFailsKeeps ==
    ASSUME IInv, NEW r \in Request, ReadFails(r) PROVE IInv'
<1>1. /\ pc[r] \in {"look", "gate", "read", "survey"} /\ op[r].kind \in Kinds /\ plan[r] \in Plan
      /\ UNCHANGED <<main, lock, op, plan, pr, behind, disturbed>>
  BY Here DEF ReadFails, history
<1>2. faults' \in 0..MaxFaults /\ lock' \in Request \cup {Nobody} /\ plan' \in [Request -> Plan]
  BY <1>1, Here, GitConstants DEF ReadFails, Fault, TypeOK
<1>3. CASE Goto(r, "answered")
  <2>1. \A q \in Request : Holds(q)'
    BY <1>1, <1>3, LocksStay DEF Pcs
  <2> QED BY <1>1, <1>2, <1>3, <2>1, Here, OneGoes DEF Pcs
<1>4. CASE pc[r] = "look" /\ op[r].kind = "register" /\ Onward(r)
  <2>1. Goto(r, "read") /\ op[r].kind \notin Gated
    BY <1>1, <1>4, OrderOfReads DEF Onward, Gated
  <2>2. \A q \in Request : Holds(q)'
    BY <1>1, <2>1, LocksStay DEF Pcs
  <2> QED BY <1>1, <1>2, <2>1, <2>2, Here, OneGoes DEF Pcs
<1>5. CASE pc[r] = "survey" /\ op[r].kind = "remove" /\ Onward(r)
  <2>1. Goto(r, "lock") /\ "lock" \in Pcs
    BY <1>1, <1>5, OrderOfReads DEF Onward, Pcs
  <2>2. ~behind[r] => Narrow(op[r], plan[r], main) /\ Safe(plan[r], main)
    BY <1>1, <1>5, Here, HalfRemoval DEF Planned
  <2>3. \A q \in Request : Holds(q)'
    BY <1>1, <2>1, LocksStay
  <2> QED BY <1>1, <1>2, <1>5, <2>1, <2>2, <2>3, OneGoes
<1> QED BY <1>3, <1>4, <1>5 DEF ReadFails, Answer

\* The steps of the commit that only move the request.
LEMMA QuietKeeps ==
    ASSUME IInv, NEW r \in Request,
           NothingToWrite(r) \/ OpenFails(r) \/ MergeRefused(r) \/ MergeFails(r)
    PROVE  IInv'
<1>1. /\ pc[r] \in {"lock", "open", "merge"}
      /\ UNCHANGED <<main, lock, op, plan, pr, behind, disturbed>>
  BY DEF NothingToWrite, OpenFails, MergeRefused, MergeFails, history
<1>2. faults' \in 0..MaxFaults /\ lock' \in Request \cup {Nobody} /\ plan' \in [Request -> Plan]
  BY <1>1, Here, GitConstants DEF NothingToWrite, OpenFails, MergeRefused, MergeFails, Fault, TypeOK
<1>3. PICK at \in {"leave", "answered"} : Goto(r, at) /\ (at = "leave" => pc[r] \in {"open", "merge"})
  BY DEF NothingToWrite, OpenFails, FailedCommit, MergeRefused, MergeFails, Answer
<1>4. at = "leave" => lock = r
  BY <1>3, Here DEF Holds
<1>5. \A q \in Request : Holds(q)'
  BY <1>1, <1>3, <1>4, LocksStay DEF Pcs
<1> QED BY <1>1, <1>2, <1>3, <1>5, OneGoes DEF Pcs

LEMMA LockKeeps ==
    ASSUME IInv, NEW r \in Request, Lock(r) PROVE IInv'
<1>1. /\ pc[r] = "lock" /\ lock = Nobody /\ lock' = r /\ Goto(r, "open")
      /\ UNCHANGED <<main, op, plan, pr, faults, behind, disturbed>>
  BY DEF Lock, Free, history
<1>2. pc'[r] = "open" /\ \A q \in Request \ {r} : pc'[q] = pc[q]
  BY <1>1, Here DEF Goto, TypeOK
<1>3. \A q \in Request : Holds(q)'
  BY <1>1, <1>2, Here, GitConstants DEF Holds
<1>4. ~behind[r] => Narrow(op[r], plan[r], main) /\ Safe(plan[r], main)
  BY <1>1, Here DEF Planned
<1>5. faults' \in 0..MaxFaults /\ lock' \in Request \cup {Nobody} /\ plan' \in [Request -> Plan]
  BY <1>1, Here DEF TypeOK
<1> QED BY <1>1, <1>3, <1>4, <1>5, OneGoes DEF Pcs

LEMMA LeaveKeeps ==
    ASSUME IInv, NEW r \in Request, Leave(r) PROVE IInv'
<1>1. /\ pc[r] = "leave" /\ lock' = Nobody /\ Goto(r, "answered")
      /\ UNCHANGED <<main, op, plan, pr, faults, behind, disturbed>>
  BY DEF Leave, Answer, history
<1>2. pc'[r] = "answered" /\ \A q \in Request \ {r} : pc'[q] = pc[q]
  BY <1>1, Here DEF Goto, TypeOK
<1>3. lock = r
  BY <1>1, Here DEF Holds
<1>4. \A q \in Request : Holds(q)'
  BY <1>2, <1>3, Here DEF Holds
<1>5. faults' \in 0..MaxFaults /\ lock' \in Request \cup {Nobody} /\ plan' \in [Request -> Plan]
  BY <1>1, Here DEF TypeOK
<1> QED BY <1>1, <1>4, <1>5, OneGoes DEF Pcs

LEMMA OpenKeeps ==
    ASSUME IInv, NEW r \in Request, Open(r) PROVE IInv'
<1> DEFINE d == [status |-> "open", base |-> main, head |-> Branch(plan[r])]
<1>1. /\ pc[r] = "open" /\ pr' = [pr EXCEPT ![r] = d]
      /\ UNCHANGED <<main, lock, op, plan, faults, behind, disturbed>>
  BY DEF Open, history
<1>2. PICK at \in {"merge", "leave"} : Goto(r, at)
  BY DEF Open
<1>3. main \in Repo /\ plan[r] \in Plan /\ op[r] \in Asked
  BY <1>1, Here
<1>4. Branch(plan[r]) \in Repo /\ Branch(plan[r]) = Over(plan[r], main)
  BY <1>3, BranchIs
<1>5. d \in PR /\ d # NoPR /\ d.base = main /\ d.head = Over(plan[r], main)
  BY <1>3, <1>4, PullRequests
<1> HIDE DEF d
<1>6. /\ pr'[r] = d /\ \A q \in Request \ {r} : pr'[q] = pr[q]
      /\ pc'[r] = at /\ \A q \in Request \ {r} : pc'[q] = pc[q]
  BY <1>1, <1>2, Here DEF Goto, TypeOK
<1>7. TypeOK'
  BY <1>1, <1>2, <1>5, Here DEF TypeOK, Goto
<1>8. lock = r
  BY <1>1, Here DEF Holds
<1>9. \A q \in Request : Holds(q)'
  BY <1>1, <1>2, <1>8, LocksStay DEF Pcs
<1>10. ~behind[r] => Narrow(op[r], plan[r], main) /\ Safe(plan[r], main)
  BY <1>1, Here DEF Planned
<1>11. ~behind[r] => /\ Narrow(op[r], d.head, d.base)
                     /\ Sound(d.base) => Sound(d.head)
  BY <1>5, <1>10, BranchNarrow DEF Safe
<1>12. Asks(r)' /\ Branched(r)' /\ Planned(r)'
  BY <1>1, <1>2, <1>3, <1>5, <1>6 DEF Asks, Branched, Planned
<1>13. Opened(r)'
  BY <1>1, <1>6, <1>11 DEF Opened
<1> QED BY <1>1, <1>6, <1>7, <1>9, <1>12, <1>13, OneMoves

LEMMA PersonClosesKeeps ==
    ASSUME IInv, NEW r \in Request, PersonCloses(r) PROVE IInv'
<1> DEFINE d == [pr[r] EXCEPT !.status = "closed"]
<1>1. /\ pr[r].status = "open" /\ pr' = [pr EXCEPT ![r] = d]
      /\ UNCHANGED <<main, lock, op, pc, plan, faults, behind, disturbed>>
  BY Here DEF PersonCloses, TypeOK, history
<1>2. pr[r] \in PR /\ pr[r] # NoPR
  BY <1>1, Here, PullRequests
<1>3. d \in PR /\ d # NoPR /\ d.base = pr[r].base /\ d.head = pr[r].head
  BY <1>2, PullRequests
<1> HIDE DEF d
<1>4. pr'[r] = d /\ \A q \in Request \ {r} : pr'[q] = pr[q]
  BY <1>1, Here DEF TypeOK
<1>5. TypeOK'
  BY <1>1, <1>3, Here DEF TypeOK
<1>6. \A q \in Request : Holds(q)'
  BY <1>1, Here DEF Holds
<1>7. Asks(r)' /\ Branched(r)'
  BY <1>1, <1>2, <1>3, <1>4, Here DEF Asks, Branched
<1>8. Planned(r)'
  BY <1>1, Here DEF Planned
<1>9. Opened(r)'
  BY <1>1, <1>2, <1>3, <1>4, Here DEF Opened
<1> QED BY <1>1, <1>4, <1>5, <1>6, <1>7, <1>8, <1>9, OneMoves

-----------------------------------------------------------------------------
(* A merge changes main under everybody.  Who has read is behind from then   *)
(* on, and who could merge itself is either the one that does, for there is  *)
(* one mutex, or is disturbed by a person.                                   *)

LEMMA LandIs ==
    ASSUME IInv, NEW r \in Request, pr[r].status = "open", Land(r)
    PROVE  /\ main' \in Repo /\ pr' \in [Request -> PR]
           /\ pr[r] # NoPR /\ behind' \in [Request -> BOOLEAN]
           /\ \A q \in Request : /\ pr'[q] = NoPR <=> pr[q] = NoPR
                                 /\ pr[q] # NoPR => pr'[q].base = pr[q].base /\ pr'[q].head = pr[q].head
                                 /\ ~behind'[q] => ~behind[q] /\ (Reading(q) => main' = main)
<1> DEFINE d == [pr[r] EXCEPT !.status = "merged"]
<1>1. pr' = [pr EXCEPT ![r] = d] /\ main' = Merged(pr[r])
  BY Here DEF Land, TypeOK
<1>2. pr[r] \in PR /\ pr[r] # NoPR /\ main \in Repo
  BY Here, PullRequests
<1>3. d \in PR /\ d # NoPR /\ d.base = pr[r].base /\ d.head = pr[r].head
  BY <1>2, PullRequests
<1>4. main' \in Repo
  BY <1>1, <1>2, PullRequests, MergedIs
<1> HIDE DEF d
<1>5. pr' \in [Request -> PR] /\ pr'[r] = d /\ \A q \in Request \ {r} : pr'[q] = pr[q]
  BY <1>1, <1>3, Here DEF TypeOK
<1>6. \A q \in Request : behind'[q] = (behind[q] \/ (Reading(q) /\ main' # main))
  BY DEF Land
<1>7. behind' \in [Request -> BOOLEAN]
  <2>1. behind' = [q \in Request |-> behind[q] \/ (Reading(q) /\ main' # main)]
    BY DEF Land
  <2>2. \A q \in Request : (behind[q] \/ (Reading(q) /\ main' # main)) \in BOOLEAN
    OBVIOUS
  <2> QED BY <2>1, <2>2
<1> QED BY <1>2, <1>3, <1>4, <1>5, <1>6, <1>7

\* What is left to show after a merge, once the types are.
LEMMA LandKeeps ==
    ASSUME IInv, NEW r \in Request, pr[r].status = "open", Land(r), TypeOK',
           UNCHANGED <<lock, op, plan>>,
           \A q \in Request : pc'[q] = pc[q] \/ (pc[q] = "merge" /\ pc'[q] = "leave"),
           \A q \in Request : pc'[q] = "merge" /\ ~disturbed'[q] => ~disturbed[q] /\ main' = main
    PROVE  IInv'
<1>0. \A q \in Request : /\ pr'[q] = NoPR <=> pr[q] = NoPR
                         /\ pr[q] # NoPR => pr'[q].base = pr[q].base /\ pr'[q].head = pr[q].head
                         /\ ~behind'[q] => ~behind[q] /\ (Reading(q) => main' = main)
  BY LandIs
<1> SUFFICES ASSUME NEW q \in Request PROVE Holds(q)' /\ Mine(q)'
  BY DEF IInv
<1>1. /\ pr'[q] = NoPR <=> pr[q] = NoPR
      /\ pr[q] # NoPR => pr'[q].base = pr[q].base /\ pr'[q].head = pr[q].head
      /\ ~behind'[q] => ~behind[q] /\ (Reading(q) => main' = main)
  BY <1>0
<1>2. Holds(q)'
  BY Here DEF Holds
<1>3. Asks(q)'
  BY <1>1, Here DEF Asks
<1>4. Branched(q)'
  BY <1>1, Here DEF Branched
<1>5. Planned(q)'
  <2> SUFFICES ASSUME ~behind'[q], pc'[q] \in {"read", "survey", "lock", "open"},
                      pc'[q] = "read" => op[q].kind \in Gated
               PROVE  Planned(q)'
    BY DEF Planned
  <2>1. pc'[q] = pc[q] /\ op[q].kind \in Kinds
    BY Here
  <2>2. pc[q] # First(op[q].kind)
    BY <2>1, OrderOfReads
  <2>3. main' = main /\ ~behind[q]
    BY <1>1, <2>1, <2>2 DEF Reading
  <2> QED BY <2>1, <2>3, Here DEF Planned
<1>6. Opened(q)'
  BY <1>1, Here DEF Opened
<1> QED BY <1>2, <1>3, <1>4, <1>5, <1>6 DEF Mine

LEMMA AutoMergeKeeps ==
    ASSUME IInv, NEW r \in Request, AutoMerge(r) PROVE IInv'
<1>1. /\ pc[r] = "merge" /\ pr[r].status = "open" /\ Land(r) /\ Goto(r, "leave")
      /\ UNCHANGED <<lock, op, plan, faults, disturbed>>
  BY DEF AutoMerge
<1>2. pc'[r] = "leave" /\ \A q \in Request \ {r} : pc'[q] = pc[q]
  BY <1>1, Here DEF Goto, TypeOK
<1>3. TypeOK'
  BY <1>1, LandIs, Here DEF TypeOK, Goto
<1>4. \A q \in Request : pc'[q] # "merge"
  BY <1>1, <1>2, Here DEF Holds
<1> QED BY <1>1, <1>2, <1>3, <1>4, LandKeeps

LEMMA PersonMergesKeeps ==
    ASSUME IInv, NEW r \in Request, PersonMerges(r) PROVE IInv'
<1>1. /\ pr[r].status = "open" /\ Land(r)
      /\ disturbed' = [q \in Request |-> disturbed[q] \/ (pc[q] = "merge" /\ main' # main)]
      /\ UNCHANGED <<lock, op, pc, plan, faults>>
  BY DEF PersonMerges
<1>2. disturbed' \in [Request -> BOOLEAN]
  <2>1. \A q \in Request : (disturbed[q] \/ (pc[q] = "merge" /\ main' # main)) \in BOOLEAN
    OBVIOUS
  <2> QED BY <1>1, <2>1
<1>3. TypeOK'
  BY <1>1, <1>2, LandIs, Here DEF TypeOK
<1>4. \A q \in Request : pc'[q] = "merge" /\ ~disturbed'[q] => ~disturbed[q] /\ main' = main
  BY <1>1
<1> QED BY <1>1, <1>3, <1>4, LandKeeps

LEMMA InvStep == IInv /\ [Next]_vars => IInv'
<1> SUFFICES ASSUME IInv, [Next]_vars PROVE IInv'
  OBVIOUS
<1>1. CASE UNCHANGED vars
  <2>1. \A r \in Request : Holds(r)' /\ Mine(r)'
    BY <1>1, Here DEF vars, Holds, Mine, Asks, Branched, Planned, Opened
  <2>2. TypeOK'
    BY <1>1 DEF IInv, vars, TypeOK
  <2> QED BY <2>1, <2>2 DEF IInv
<1>2. ASSUME NEW r \in Request, Prepares(r) PROVE IInv'
  BY <1>2, AskKeeps, LookKeeps, GateKeeps, ReadKeeps, SurveyKeeps, ReadFailsKeeps, QuietKeeps DEF Prepares
<1>3. ASSUME NEW r \in Request, Commits(r) PROVE IInv'
  BY <1>3, LockKeeps, OpenKeeps, QuietKeeps, AutoMergeKeeps, LeaveKeeps DEF Commits
<1> QED BY <1>1, <1>2, <1>3, PersonMergesKeeps, PersonClosesKeeps DEF Next

LEMMA Invariance == Spec => []IInv
BY InvInit, InvStep, PTL DEF Spec

-----------------------------------------------------------------------------
(* The properties *)

\* A pull request lands by a merge of its own, which the provider accepted.
LEMMA LandsByMerge ==
    ASSUME IInv, Next, NEW r \in Request, Lands(r)
    PROVE  main' = Merged(pr[r]) /\ Mergeable(pr[r]) /\ op' = op
<1>1. pr \in [Request -> PR]
  BY DEF IInv, TypeOK
<1>2. PICK q \in Request : Prepares(q) \/ Commits(q) \/ PersonMerges(q) \/ PersonCloses(q)
  BY DEF Next
<1>3. pr[r].status = "open" /\ pr'[r].status = "merged"
  BY DEF Lands
<1>4. pr' # pr
  BY <1>3
<1>5. ~Prepares(q)
  BY <1>4 DEF Prepares, Ask, Look, Gate, Read, Survey, ReadFails, NothingToWrite
<1>6. ~Open(q)
  BY <1>1, <1>3 DEF Open
<1>7. ASSUME PersonCloses(q) PROVE FALSE
  <2>1. q = r /\ pr' = [pr EXCEPT ![r].status = "closed"]
    BY <1>1, <1>3, <1>7 DEF PersonCloses
  <2>2. pr'[r] = [pr[r] EXCEPT !.status = "closed"]
    BY <1>1, <2>1
  <2>3. pr[r] \in PR /\ pr[r] # NoPR
    BY <1>1, <1>3, PullRequests
  <2>4. pr'[r].status = "closed"
    BY <2>2, <2>3 DEF PR
  <2> QED BY <1>3, <2>4
<1>8. AutoMerge(q) \/ PersonMerges(q)
  BY <1>2, <1>4, <1>5, <1>6, <1>7 DEF Commits, Lock, OpenFails, MergeRefused, MergeFails, Leave
<1>9. Land(q) /\ Mergeable(pr[q]) /\ op' = op
  BY <1>8 DEF AutoMerge, PersonMerges
<1>10. q = r
  BY <1>1, <1>3, <1>9 DEF Land
<1> QED BY <1>9, <1>10 DEF Land

\* What a pull request is, for a request that is not behind.
LEMMA LandsWhat ==
    ASSUME IInv, NEW r \in Request, Lands(r)
    PROVE  /\ main \in Repo /\ pr[r] # NoPR /\ pr[r].base \in Repo /\ pr[r].head \in Repo
           /\ Opened(r)
BY Here, PullRequests DEF Lands

\* The type invariant of the requests, the repository and the pull requests.
THEOREM TypeCorrect == Spec => []TypeOK
<1>1. IInv => TypeOK
  BY DEF IInv
<1> QED BY <1>1, Invariance, PTL

\* A pull request whose request read what its branch was created from changes
\* no other entry of any file than those it was asked about, whoever merges it
\* and whatever was merged in the meantime.
THEOREM OnlyAsked == Spec => OnlyWhatWasAsked
<1>1. ASSUME IInv, Next, NEW r \in Request, Lands(r), ~behind[r],
             NEW p \in Path, NEW k \in Key(p), EntryAt(main', p, k) # EntryAt(main, p, k)
      PROVE  Concerns(op[r], p, k)
  <2>1. main' = Merged(pr[r]) /\ Mergeable(pr[r])
    BY <1>1, LandsByMerge
  <2>2. /\ main \in Repo /\ pr[r] # NoPR /\ pr[r].base \in Repo /\ pr[r].head \in Repo
        /\ Narrow(op[r], pr[r].head, pr[r].base)
    BY <1>1, LandsWhat DEF Opened
  <2>3. In(pr[r].head[p], k) # In(pr[r].base[p], k)
    BY <1>1, <2>1, <2>2, MergedIs
  <2>4. pr[r].head[p] # Keep
    BY <2>2, RepoParts
  <2> QED BY <2>2, <2>3, <2>4 DEF Narrow
<1>2. ASSUME NEW r \in Request, UNCHANGED vars, Lands(r) PROVE FALSE
  BY <1>2 DEF Lands, vars
<1>3. IInv /\ [Next]_vars =>
          [\A r \in Request : Lands(r) /\ ~behind[r] =>
              \A p \in Path : \A k \in Key(p) :
                  EntryAt(main', p, k) # EntryAt(main, p, k) => Concerns(op[r], p, k)]_vars
  BY <1>1, <1>2
<1> QED BY <1>3, Invariance, PTL DEF Spec, OnlyWhatWasAsked

\* A merge that nothing overtook never leaves an addon switched on somewhere
\* that the catalog does not have: the checks of each operation are enough
\* when requests come one at a time.
THEOREM SoundKept == Spec => UndisturbedMergeKeepsSound
<1>1. ASSUME IInv, Next, NEW r \in Request, Lands(r), ~behind[r], pr[r].base = main, Sound(main)
      PROVE  Sound(main')
  <2>1. main' = Merged(pr[r])
    BY <1>1, LandsByMerge
  <2>2. /\ main \in Repo /\ pr[r] # NoPR /\ pr[r].base \in Repo /\ pr[r].head \in Repo
        /\ Sound(pr[r].base) => Sound(pr[r].head)
    BY <1>1, LandsWhat DEF Opened
  <2>3. main' = pr[r].head
    BY <1>1, <2>1, <2>2, MergedIs
  <2>4. Sound(pr[r].head)
    BY <1>1, <2>2
  <2> QED BY <2>3, <2>4
<1>2. ASSUME NEW r \in Request, UNCHANGED vars, Lands(r) PROVE FALSE
  BY <1>2 DEF Lands, vars
<1>3. IInv /\ [Next]_vars =>
          [\A r \in Request : Lands(r) /\ ~behind[r] /\ pr[r].base = main /\ Sound(main) => Sound(main')]_vars
  BY <1>1, <1>2
<1> QED BY <1>3, Invariance, PTL DEF Spec, UndisturbedMergeKeepsSound

\* Who waits for the merge of its pull request holds the Git mutex since its
\* branch was created, so the provider only refuses when a person merged
\* something in between.
THEOREM ConflictsNeedPeople == Spec => ConflictNeedsPeople
<1>1. ASSUME IInv, Next, NEW r \in Request,
             pc[r] = "merge", pc'[r] = "leave", pr[r].status = "open", pr'[r].status = "open", faults' = faults
      PROVE  disturbed[r]
  <2>1. pc \in [Request -> Pcs] /\ pr \in [Request -> PR] /\ faults \in Nat
    BY <1>1, GitConstants DEF IInv, TypeOK, Pcs
  <2>2. PICK q \in Request : Prepares(q) \/ Commits(q) \/ PersonMerges(q) \/ PersonCloses(q)
    BY <1>1 DEF Next
  <2>3. ~PersonMerges(q) /\ ~PersonCloses(q)
    BY <1>1 DEF PersonMerges, PersonCloses
  <2>4. q = r
    <3> SUFFICES ASSUME q # r PROVE pc'[r] = pc[r]
      BY <1>1
    <3>1. ASSUME NEW next, Goto(q, next) PROVE pc'[r] = pc[r]
      BY <2>1, <3>1 DEF Goto
    <3>2. ASSUME Prepares(q) PROVE pc'[r] = pc[r]
      BY <3>1, <3>2 DEF Prepares, Ask, Look, Gate, Read, Survey, ReadFails, NothingToWrite, Onward, Answer
    <3>3. ASSUME Commits(q) PROVE pc'[r] = pc[r]
      BY <3>1, <3>3 DEF Commits, Lock, Open, OpenFails, AutoMerge, MergeRefused, MergeFails, Leave, Answer
    <3> QED BY <2>2, <2>3, <3>2, <3>3
  <2>5. MergeRefused(r)
    <3>1. ~Prepares(r)
      BY <1>1 DEF Prepares, Ask, Look, Gate, Read, Survey, ReadFails, NothingToWrite
    <3>2. ~Lock(r) /\ ~Open(r) /\ ~OpenFails(r) /\ ~Leave(r)
      BY <1>1 DEF Lock, Open, OpenFails, Leave
    <3>3. ~MergeFails(r)
      BY <1>1, <2>1 DEF MergeFails, Fault
    <3>4. ASSUME AutoMerge(r) PROVE FALSE
      <4>1. Land(r)
        BY <3>4 DEF AutoMerge
      <4>2. pr'[r] = [pr[r] EXCEPT !.status = "merged"]
        BY <2>1, <4>1 DEF Land
      <4>3. pr[r] \in PR /\ pr[r] # NoPR
        BY <1>1, Here, PullRequests
      <4>4. pr'[r].status = "merged"
        BY <4>2, <4>3 DEF PR
      <4> QED BY <1>1, <4>4
    <3> QED BY <2>2, <2>3, <2>4, <3>1, <3>2, <3>3, <3>4 DEF Commits
  <2>6. Refusable(pr[r]) /\ pr[r] # NoPR
    BY <1>1, <2>5, PullRequests DEF MergeRefused
  <2>7. pr[r].base # main
    BY <2>6 DEF Refusable, BothChanged
  <2>8. Branched(r)
    BY <1>1, Here
  <2> QED BY <1>1, <2>6, <2>7, <2>8 DEF Branched
<1>2. ASSUME NEW r \in Request, UNCHANGED vars, pc[r] = "merge", pc'[r] = "leave" PROVE FALSE
  BY <1>2 DEF vars
<1>3. IInv /\ [Next]_vars =>
          [\A r \in Request :
              pc[r] = "merge" /\ pc'[r] = "leave" /\ pr[r].status = "open" /\ pr'[r].status = "open" /\ faults' = faults
                  => disturbed[r]]_vars
  BY <1>1, <1>2
<1> QED BY <1>3, Invariance, PTL DEF Spec, ConflictNeedsPeople
=============================================================================
