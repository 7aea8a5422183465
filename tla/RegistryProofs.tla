--------------------------- MODULE RegistryProofs ---------------------------
(***************************************************************************)
(* Proofs about the safety of Registry, for any names, calls of Add and    *)
(* number of kubelet starts.                                               *)
(***************************************************************************)
EXTENDS Registry, SequenceTheorems, FiniteSetTheorems, TLAPS

States == {"serving", "cancelled", "stopped"}
Plugin == [name : Names, resource : Adders, born : Nat, state : States]

(* The types, without the bounds that need a count.                        *)
PluginTypes ==
    /\ plugins \in Seq(Plugin)
    /\ file \in [Paths -> 0 .. Len(plugins)]
    /\ entry \in [Names -> 0 .. Len(plugins)]
    /\ addNew \in [Adders -> 0 .. Len(plugins)]
    /\ hupNew \in 0 .. Len(plugins)

KubeletTypes ==
    /\ kubelet \in Kubelets
    /\ wipes \in 0 .. MaxRestarts
    /\ epoch \in 0 .. wipes
    /\ kubelet = "starting" => epoch < wipes
    /\ events \in 0 .. epoch
    /\ asked \in [Names -> -1 .. epoch]
    /\ awaited \subseteq Stored

CallTypes ==
    /\ addPc \in [Adders -> AddPcs]
    /\ addName \in [Adders -> Names \cup {NoName}]
    /\ hupPc \in HupPcs
    /\ hupName \in Names \cup {NoName}
    /\ due \subseteq Stored
    /\ seen \subseteq Stored
    /\ denied \subseteq Stored
    /\ ctxDone \in BOOLEAN

(* The place of an Add, and the plugin it has made.                        *)
AddPlace ==
    \A a \in Adders :
        /\ addPc[a] = "idle" <=> addName[a] = NoName
        /\ addPc[a] \in {"idle", "remove", "listen"} => addNew[a] = None
        /\ addPc[a] \in {"store", "register", "added"} => addNew[a] # None
        /\ addNew[a] # None => plugins[addNew[a]].resource = a

(* A plugin is of a call of Add that has made its first one, and has the   *)
(* name of that call; a stored one is of a call that came through.         *)
PluginPlace ==
    \A p \in 1 .. Len(plugins) :
        /\ addNew[plugins[p].resource] # None
        /\ plugins[p].name = addName[plugins[p].resource]
        /\ plugins[p].born <= wipes

EntryPlace ==
    \A n \in Stored :
        /\ plugins[entry[n]].name = n
        /\ addPc[plugins[entry[n]].resource] \in {"register", "added", "failed"}

(* The place of the registry's goroutine in hup.                           *)
Replacing == hupPc \in {"stop", "listen", "store", "register"}

HupPlace ==
    /\ hupPc \in {"select", "exited"} => due = {} /\ seen = {}
    /\ Replacing => hupName \in Stored /\ hupName \in seen
    /\ hupPc = "stop" => plugins[entry[hupName]].state # "serving"
    /\ hupPc \in {"listen", "store"} => plugins[entry[hupName]].state = "stopped"
    /\ hupPc \in {"store", "register"} =>
          /\ hupNew # None
          /\ plugins[hupNew].name = hupName
          /\ plugins[hupNew].resource = plugins[entry[hupName]].resource

Types  == PluginTypes /\ KubeletTypes /\ CallTypes
Places == AddPlace /\ PluginPlace /\ EntryPlace /\ HupPlace

LEMMA InitTypes == Init => Types /\ Places
<1> SUFFICES ASSUME Init PROVE Types /\ Places
  OBVIOUS
<1> USE RegistryAssumption DEF Init, None
<1>1. PluginTypes
  BY EmptySeq DEF PluginTypes
<1>2. KubeletTypes
  BY DEF KubeletTypes, Kubelets
<1>3. CallTypes
  BY DEF CallTypes, AddPcs, HupPcs
<1>4. AddPlace /\ PluginPlace
  BY EmptySeq DEF AddPlace, PluginPlace
<1>5. EntryPlace /\ HupPlace
  BY DEF EntryPlace, HupPlace, Stored, Replacing
<1> QED
  BY <1>1, <1>2, <1>3, <1>4, <1>5 DEF Types, Places

-----------------------------------------------------------------------------
(* What a step does to the plugins.                                        *)

(* Plugins stay; what they are does not change, and they stop in order.    *)
Kept ==
    /\ Len(plugins) <= Len(plugins')
    /\ \A p \in 1 .. Len(plugins) :
          /\ plugins'[p].name = plugins[p].name
          /\ plugins'[p].resource = plugins[p].resource
          /\ plugins'[p].born = plugins[p].born
          /\ plugins'[p].state = "serving" => plugins[p].state = "serving"
          /\ plugins[p].state = "stopped" => plugins'[p].state = "stopped"

(* Setting the state of one plugin.                                        *)
LEMMA StateSet ==
    ASSUME NEW p \in 1 .. Len(plugins), NEW s \in States, plugins \in Seq(Plugin),
           plugins' = [plugins EXCEPT ![p].state = s]
    PROVE  /\ plugins' \in Seq(Plugin)
           /\ Len(plugins') = Len(plugins)
           /\ plugins'[p] = [plugins[p] EXCEPT !.state = s]
           /\ plugins'[p].state = s
           /\ \A q \in 1 .. Len(plugins) : q # p => plugins'[q] = plugins[q]
<1> DEFINE e == [plugins[p] EXCEPT !.state = s]
<1>1. plugins[p] \in Plugin
  BY ElementOfSeq
<1>2. e \in Plugin /\ e.state = s
  BY <1>1 DEF Plugin
<1>3. plugins' = [plugins EXCEPT ![p] = e]
  OBVIOUS
<1> HIDE DEF e
<1>4. /\ plugins' \in Seq(Plugin)
      /\ Len(plugins') = Len(plugins)
      /\ \A q \in 1 .. Len(plugins) : plugins'[q] = IF q = p THEN e ELSE plugins[q]
  BY <1>2, <1>3, ExceptSeq
<1>5. plugins'[p] = e
  BY <1>4
<1> QED
  BY <1>2, <1>4, <1>5 DEF e

LEMMA StateSetKeeps ==
    ASSUME NEW p \in 1 .. Len(plugins), NEW s \in States, plugins \in Seq(Plugin),
           plugins' = [plugins EXCEPT ![p].state = s],
           plugins[p].state = "stopped" => s = "stopped",
           s = "serving" => plugins[p].state = "serving"
    PROVE  Kept
<1>1. plugins[p] \in Plugin /\ Len(plugins) \in Nat
  BY ElementOfSeq, LenProperties
<1>2. /\ plugins'[p].name = plugins[p].name
      /\ plugins'[p].resource = plugins[p].resource
      /\ plugins'[p].born = plugins[p].born
      /\ plugins'[p].state = s
  BY <1>1, StateSet DEF Plugin
<1>3. Len(plugins') = Len(plugins) /\ \A q \in 1 .. Len(plugins) : q # p => plugins'[q] = plugins[q]
  BY StateSet
<1> QED
  BY <1>1, <1>2, <1>3 DEF Kept

(* Making a plugin.                                                        *)
LEMMA ListenMakes ==
    ASSUME NEW n \in Names, NEW r \in Adders, PluginTypes, wipes \in Nat, Listen(n, r)
    PROVE  /\ plugins' \in Seq(Plugin)
           /\ Len(plugins) \in Nat
           /\ Len(plugins') = Len(plugins) + 1
           /\ \A q \in 1 .. Len(plugins) : plugins'[q] = plugins[q]
           /\ plugins'[Len(plugins')] = [name |-> n, resource |-> r, born |-> wipes,
                                         state |-> "serving"]
           /\ file' = [file EXCEPT ![Path[n]] = Len(plugins')]
           /\ Kept
<1> DEFINE e == [name |-> n, resource |-> r, born |-> wipes, state |-> "serving"]
<1>1. e \in Plugin
  BY DEF Plugin, States
<1>2. plugins' = Append(plugins, e) /\ plugins \in Seq(Plugin)
  BY DEF Listen, PluginTypes
<1>3. Len(plugins) \in Nat
  BY <1>2, LenProperties
<1> HIDE DEF e
<1>4. /\ plugins' \in Seq(Plugin)
      /\ Len(plugins') = Len(plugins) + 1
      /\ \A q \in 1 .. Len(plugins) : plugins'[q] = plugins[q]
      /\ plugins'[Len(plugins) + 1] = e
  BY <1>1, <1>2, AppendProperties
<1>5. Kept
  BY <1>3, <1>4 DEF Kept
<1> QED
  BY <1>3, <1>4, <1>5 DEF e, Listen

(* A stored name stays stored, under the same plugin unless hup stores the *)
(* one it has made.                                                        *)
EntryKept ==
    \A n \in Stored :
        /\ entry'[n] # None
        /\ \/ entry'[n] = entry[n]
           \/ hupPc = "store" /\ n = hupName /\ entry'[n] = hupNew

(* The steps that make no plugin and stop none.                            *)
Rest ==
    \/ \E a \in Adders :
          AddCall(a) \/ AddRemove(a) \/ AddPluginFails(a) \/ AddLoaded(a) \/ AddRegister(a)
    \/ HupStarts \/ HupStopped \/ HupPluginFails \/ HupRegister \/ HupEnds
    \/ RegistryExits \/ Shutdown \/ KubeletStops \/ KubeletStarts \/ KubeletListens
    \/ UNCHANGED vars

LEMMA RemoveKeeps ==
    ASSUME PluginTypes, NEW n, RemoveFile(n)
    PROVE  file' \in [Paths -> 0 .. Len(plugins)]
<1>1. Len(plugins) \in Nat
  BY LenProperties DEF PluginTypes
<1> DEFINE S == 0 .. Len(plugins)
<1>2. file \in [Paths -> S] /\ None \in S /\ file' = [file EXCEPT ![Path[n]] = None]
  BY <1>1 DEF PluginTypes, RemoveFile, None
<1> HIDE DEF S
<1>3. file' \in [Paths -> S]
  BY <1>2
<1> QED
  BY <1>3 DEF S

LEMMA RestKeeps ==
    ASSUME Types, Places, Rest
    PROVE  /\ UNCHANGED <<plugins, entry, addNew>>
           /\ Kept /\ EntryKept /\ PluginTypes'
<1>1. UNCHANGED <<plugins, entry, addNew>>
  BY DEF Rest, AddCall, AddRemove, AddPluginFails, AddLoaded, AddRegister, HupStarts, HupStopped,
         HupPluginFails, HupRegister, HupEnds, RegistryExits, Shutdown, KubeletStops,
         KubeletStarts, KubeletListens, vars, addVars
<1>2. Len(plugins) \in Nat
  BY LenProperties DEF Types, PluginTypes
<1>3. Kept /\ EntryKept
  BY <1>1, <1>2 DEF Kept, EntryKept, Stored
<1>4. \/ file' = file \/ \E n : RemoveFile(n)
      \/ file' = [f \in Paths |-> None]
  BY DEF Rest, AddCall, AddRemove, AddPluginFails, AddLoaded, AddRegister, HupStarts, HupStopped,
         HupPluginFails, HupRegister, HupEnds, RegistryExits, Shutdown, KubeletStops,
         KubeletStarts, KubeletListens, vars
<1>5. file' \in [Paths -> 0 .. Len(plugins)]
  BY <1>2, <1>4, RemoveKeeps DEF Types, PluginTypes, None
<1>6. hupNew' = hupNew \/ hupNew' = None
  BY DEF Rest, AddCall, AddRemove, AddPluginFails, AddLoaded, AddRegister, HupStarts, HupStopped,
         HupPluginFails, HupRegister, HupEnds, RegistryExits, Shutdown, KubeletStops,
         KubeletStarts, KubeletListens, vars, hupVars
<1> QED
  BY <1>1, <1>2, <1>3, <1>5, <1>6 DEF Types, PluginTypes, None

LEMMA ListenSteps ==
    ASSUME Types, Places, NEW n \in Names, NEW r \in Adders, Listen(n, r),
           UNCHANGED <<entry, wipes>>,
           \/ hupNew' = hupNew /\ \E a \in Adders : addNew' = [addNew EXCEPT ![a] = Len(plugins')]
           \/ hupNew' = Len(plugins') /\ addNew' = addNew
    PROVE  Kept /\ EntryKept /\ PluginTypes'
<1>1. PluginTypes /\ wipes \in Nat
  BY RegistryAssumption DEF Types, KubeletTypes
<1>2. plugins' \in Seq(Plugin) /\ Len(plugins) \in Nat /\ Len(plugins') = Len(plugins) + 1
      /\ file' = [file EXCEPT ![Path[n]] = Len(plugins')] /\ Kept
  BY <1>1, ListenMakes
<1> DEFINE S == 0 .. Len(plugins)
           T == 0 .. Len(plugins')
<1>3. S \subseteq T /\ Len(plugins') \in T
  BY <1>2
<1>4. /\ file \in [Paths -> S] /\ entry \in [Names -> S] /\ addNew \in [Adders -> S]
      /\ hupNew \in S
  BY <1>1 DEF PluginTypes
<1> HIDE DEF S, T
<1>5. file' \in [Paths -> T] /\ entry' \in [Names -> T]
  BY <1>2, <1>3, <1>4
<1>6. addNew' \in [Adders -> T] /\ hupNew' \in T
  BY <1>3, <1>4
<1>7. EntryKept
  BY DEF EntryKept, Stored
<1> QED
  BY <1>2, <1>5, <1>6, <1>7 DEF PluginTypes, T

(* A plugin in the map is one that has been made.                          *)
LEMMA EntryMade ==
    ASSUME PluginTypes, NEW n \in Stored
    PROVE  /\ n \in Names
           /\ entry[n] \in 1 .. Len(plugins)
           /\ plugins[entry[n]] \in Plugin
<1>1. n \in Names /\ entry[n] \in 0 .. Len(plugins) /\ entry[n] # 0 /\ Len(plugins) \in Nat
  BY LenProperties DEF Stored, PluginTypes, None
<1>2. entry[n] \in 1 .. Len(plugins)
  BY <1>1
<1> QED
  BY <1>1, <1>2, ElementOfSeq DEF PluginTypes

LEMMA StepKeeps ==
    ASSUME Types, Places, [Next]_vars
    PROVE  Kept /\ EntryKept /\ PluginTypes'
<1>1. CASE Rest
  BY <1>1, RestKeeps
<1>2. ASSUME NEW a \in Adders, AddListen(a) PROVE Kept /\ EntryKept /\ PluginTypes'
  <2>1. addName[a] \in Names
    BY <1>2 DEF AddListen, Types, CallTypes, Places, AddPlace, AddPcs
  <2> QED
    BY <1>2, <2>1, ListenSteps DEF AddListen, hupVars, kubeletVars
<1>3. CASE HupListen
  <2>1. hupName \in Stored
    BY <1>3 DEF HupListen, Places, HupPlace, Replacing
  <2>2. hupName \in Names /\ plugins[entry[hupName]].resource \in Adders
    BY <2>1, EntryMade DEF Types, Plugin
  <2> QED
    BY <1>3, <2>2, ListenSteps DEF HupListen, addVars, kubeletVars
<1>4. ASSUME NEW a \in Adders, AddStore(a) PROVE Kept /\ EntryKept /\ PluginTypes'
  <2>1. addName[a] \in Names /\ addNew[a] \in 0 .. Len(plugins) /\ addNew[a] # None
    BY <1>4 DEF AddStore, Types, PluginTypes, CallTypes, Places, AddPlace, AddPcs
  <2>2. EntryKept
    BY <1>4, <2>1 DEF AddStore, EntryKept, Stored, Types, PluginTypes
  <2>3. Kept
    BY <1>4, LenProperties DEF AddStore, Kept, Types, PluginTypes
  <2> QED
    BY <1>4, <2>1, <2>2, <2>3 DEF AddStore, hupVars, Types, PluginTypes
<1>5. CASE HupStore
  <2>1. hupName \in Names /\ hupNew \in 0 .. Len(plugins) /\ hupNew # None
    BY <1>5 DEF HupStore, Types, PluginTypes, Places, HupPlace, Replacing, Stored
  <2>2. EntryKept
    BY <1>5, <2>1 DEF HupStore, EntryKept, Stored, Types, PluginTypes
  <2>3. Kept
    BY <1>5, LenProperties DEF HupStore, Kept, Types, PluginTypes
  <2> QED
    BY <1>5, <2>1, <2>2, <2>3 DEF HupStore, addVars, Types, PluginTypes
<1>6. ASSUME NEW n \in Names, HupVisit(n) PROVE Kept /\ EntryKept /\ PluginTypes'
  <2>1. n \in Stored /\ entry[n] \in 1 .. Len(plugins) /\ plugins[entry[n]] \in Plugin
    BY <1>6, EntryMade DEF HupVisit, Types
  <2> DEFINE s == IF plugins[entry[n]].state = "serving" THEN "cancelled" ELSE plugins[entry[n]].state
  <2>2. s \in States
    BY <2>1 DEF Plugin, States
  <2>3. plugins' = [plugins EXCEPT ![entry[n]].state = s]
    BY <1>6 DEF HupVisit
  <2>4. plugins \in Seq(Plugin)
    BY DEF Types, PluginTypes
  <2>5. plugins[entry[n]].state = "stopped" => s = "stopped"
    OBVIOUS
  <2>6. s = "serving" => plugins[entry[n]].state = "serving"
    OBVIOUS
  <2> HIDE DEF s
  <2>7. Kept
    BY <2>1, <2>2, <2>3, <2>4, <2>5, <2>6, StateSetKeeps
  <2>8. plugins' \in Seq(Plugin) /\ Len(plugins') = Len(plugins)
    BY <2>1, <2>2, <2>3, <2>4, StateSet
  <2>9. EntryKept
    BY <1>6 DEF HupVisit, EntryKept, Stored
  <2> QED
    BY <1>6, <2>7, <2>8, <2>9 DEF HupVisit, addVars, Types, PluginTypes
<1>7. ASSUME NEW p, PluginStops(p) PROVE Kept /\ EntryKept /\ PluginTypes'
  <2>1. plugins \in Seq(Plugin) /\ p \in 1 .. Len(plugins) /\ plugins[p] \in Plugin
    BY <1>7, LenProperties, ElementOfSeq DEF PluginStops, Types, PluginTypes
  <2>2. plugins' = [plugins EXCEPT ![p].state = "stopped"] /\ "stopped" \in States
    BY <1>7 DEF PluginStops, States
  <2>3. Kept
    BY <2>1, <2>2, StateSetKeeps
  <2>4. plugins' \in Seq(Plugin) /\ Len(plugins') = Len(plugins) /\ Len(plugins) \in Nat
    BY <2>1, <2>2, StateSet, LenProperties
  <2>5. EntryKept
    BY <1>7 DEF PluginStops, EntryKept, Stored
  <2>6. file' \in [Paths -> 0 .. Len(plugins)]
    BY <1>7, RemoveKeeps DEF PluginStops, Types
  <2> QED
    BY <1>7, <2>3, <2>4, <2>5, <2>6 DEF PluginStops, addVars, hupVars, Types, PluginTypes
<1> QED
  BY <1>1, <1>2, <1>3, <1>4, <1>5, <1>6, <1>7 DEF Next, AddNext, RegistryNext, Hup, Rest

-----------------------------------------------------------------------------
(* Types.                                                                  *)

LEMMA StoredGrows ==
    ASSUME EntryKept
    PROVE  Stored \subseteq Stored'
BY DEF EntryKept, Stored

LEMMA KubeletTypesStep ==
    ASSUME Types, Stored \subseteq Stored', [Next]_vars
    PROVE  KubeletTypes'
<1> USE DEF Types, KubeletTypes
<1>1. CASE UNCHANGED <<kubeletVars, events, asked>>
  BY <1>1 DEF kubeletVars
<1>2. CASE KubeletStops
  BY <1>2 DEF KubeletStops, Kubelets
<1>3. CASE KubeletStarts
  <2>1. wipes' \in 0 .. MaxRestarts /\ epoch' \in 0 .. wipes' /\ epoch' < wipes'
    BY <1>3, RegistryAssumption DEF KubeletStarts
  <2> QED
    BY <1>3, <2>1 DEF KubeletStarts, Kubelets
<1>4. CASE KubeletListens
  <2>1. epoch' \in 0 .. wipes' /\ events' \in 0 .. epoch' /\ wipes' \in 0 .. MaxRestarts
    BY <1>4 DEF KubeletListens
  <2>2. asked' \in [Names -> -1 .. epoch']
    BY <1>4, <2>1 DEF KubeletListens
  <2> QED
    BY <1>4, <2>1, <2>2 DEF KubeletListens, Kubelets
<1>5. CASE HupStarts
  BY <1>5 DEF HupStarts, kubeletVars
<1>6. CASE UNCHANGED <<kubeletVars, events>> /\ \E n \in Names : asked' = [asked EXCEPT ![n] = epoch]
  <2>1. epoch \in -1 .. epoch
    OBVIOUS
  <2>2. asked' \in [Names -> -1 .. epoch]
    BY <1>6, <2>1
  <2> QED
    BY <1>6, <2>2 DEF kubeletVars
<1>7. ASSUME NEW a \in Adders, AddRegister(a)
      PROVE  UNCHANGED <<kubeletVars, events>> /\ \E n : asked' = [asked EXCEPT ![n] = epoch]
  BY <1>7 DEF AddRegister, RegisterOk, RegisterFails
<1>8. ASSUME HupRegister
      PROVE  UNCHANGED <<kubeletVars, events>> /\ \E n : asked' = [asked EXCEPT ![n] = epoch]
  BY <1>8 DEF HupRegister, RegisterOk, RegisterFails
<1>9. CASE UNCHANGED <<kubeletVars, events>> /\ \E n : asked' = [asked EXCEPT ![n] = epoch]
  <2>1. PICK n : asked' = [asked EXCEPT ![n] = epoch]
    BY <1>9
  <2>2. CASE n \in Names
    BY <1>6, <1>9, <2>1, <2>2
  <2>3. CASE n \notin Names
    BY <1>1, <1>9, <2>1, <2>3
  <2> QED
    BY <2>2, <2>3
<1> QED
  BY <1>1, <1>2, <1>3, <1>4, <1>5, <1>7, <1>8, <1>9
     DEF Next, AddNext, RegistryNext, Hup, AddCall, AddRemove, AddListen, AddPluginFails,
         AddStore, AddLoaded, HupVisit, HupStopped, HupListen, HupPluginFails, HupStore,
         HupEnds, RegistryExits, PluginStops, Shutdown, vars

LEMMA CallTypesStep ==
    ASSUME Types, Places, Stored \subseteq Stored', [Next]_vars
    PROVE  CallTypes'
<1> USE DEF Types, CallTypes
<1>1. addPc' \in [Adders -> AddPcs]
  <2>1. \/ addPc' = addPc
        \/ \E a \in Adders, pc \in AddPcs : addPc' = [addPc EXCEPT ![a] = pc]
    BY DEF Next, AddNext, RegistryNext, Hup, AddCall, AddRemove, AddListen, AddPluginFails,
           AddStore, AddLoaded, AddRegister, HupStarts, HupVisit, HupStopped, HupListen,
           HupPluginFails, HupStore, HupRegister, HupEnds, RegistryExits, PluginStops, Shutdown,
           KubeletStops, KubeletStarts, KubeletListens, vars, addVars, AddPcs
  <2> QED
    BY <2>1
<1>2. addName' \in [Adders -> Names \cup {NoName}]
  <2>1. \/ addName' = addName
        \/ \E a \in Adders, n \in Names : addName' = [addName EXCEPT ![a] = n]
    BY DEF Next, AddNext, RegistryNext, Hup, AddCall, AddRemove, AddListen, AddPluginFails,
           AddStore, AddLoaded, AddRegister, HupStarts, HupVisit, HupStopped, HupListen,
           HupPluginFails, HupStore, HupRegister, HupEnds, RegistryExits, PluginStops, Shutdown,
           KubeletStops, KubeletStarts, KubeletListens, vars, addVars
  <2> QED
    BY <2>1
<1>3. hupPc' \in HupPcs /\ hupName' \in Names \cup {NoName} /\ ctxDone' \in BOOLEAN
  BY DEF Next, AddNext, RegistryNext, Hup, AddCall, AddRemove, AddListen, AddPluginFails,
         AddStore, AddLoaded, AddRegister, HupStarts, HupVisit, HupStopped, HupListen,
         HupPluginFails, HupStore, HupRegister, HupEnds, RegistryExits, PluginStops, Shutdown,
         KubeletStops, KubeletStarts, KubeletListens, vars, hupVars, HupPcs
<1>4. due' \subseteq Stored' /\ seen' \subseteq Stored' /\ denied' \subseteq Stored'
  <2>1. hupPc \in {"stop", "listen"} => hupName \in Stored
    BY DEF Places, HupPlace, Replacing
  <2> QED
    BY <2>1 DEF Next, AddNext, RegistryNext, Hup, AddCall, AddRemove, AddListen, AddPluginFails,
           AddStore, AddLoaded, AddRegister, HupStarts, HupVisit, HupStopped, HupListen,
           HupPluginFails, HupStore, HupRegister, HupEnds, RegistryExits, PluginStops, Shutdown,
           KubeletStops, KubeletStarts, KubeletListens, vars, hupVars
<1> QED
  BY <1>1, <1>2, <1>3, <1>4

-----------------------------------------------------------------------------
(* Places.                                                                 *)

(* What an Add has done stays done.                                        *)
Past == {"register", "added", "failed"}

CallsKept ==
    /\ \A a \in Adders :
          /\ addName[a] # NoName => addName'[a] = addName[a]
          /\ addNew[a] # None => addNew'[a] # None
          /\ addPc[a] \in Past => addPc'[a] \in Past
    /\ wipes <= wipes'

(* A step of one Add, or of nobody's.                                      *)
CallStep(a) ==
    /\ \A b \in Adders \ {a} : addPc'[b] = addPc[b] /\ addName'[b] = addName[b] /\ addNew'[b] = addNew[b]
    /\ UNCHANGED wipes

LEMMA AddSteps ==
    ASSUME Types, NEW a \in Adders, AddCall(a) \/ AddNext(a)
    PROVE  CallStep(a)
BY DEF Types, PluginTypes, CallTypes, CallStep, AddNext, AddCall, AddRemove, AddListen,
       AddPluginFails, AddStore, AddLoaded, AddRegister, kubeletVars

LEMMA OtherSteps ==
    ASSUME Types, [Next]_vars, \A a \in Adders : ~(AddCall(a) \/ AddNext(a))
    PROVE  UNCHANGED addVars /\ wipes <= wipes' /\ wipes' \in Nat
<1>1. UNCHANGED addVars
  BY DEF Next, RegistryNext, Hup, HupStarts, HupVisit, HupStopped, HupListen,
         HupPluginFails, HupStore, HupRegister, HupEnds, RegistryExits, PluginStops, Shutdown,
         KubeletStops, KubeletStarts, KubeletListens, vars
<1>2. wipes' = wipes \/ wipes' = wipes + 1
  BY DEF Next, RegistryNext, Hup, HupStarts, HupVisit, HupStopped, HupListen,
         HupPluginFails, HupStore, HupRegister, HupEnds, RegistryExits, PluginStops, Shutdown,
         KubeletStops, KubeletStarts, KubeletListens, vars, kubeletVars
<1>3. wipes \in Nat
  BY RegistryAssumption DEF Types, KubeletTypes
<1> QED
  BY <1>1, <1>2, <1>3

LEMMA CallsKeep ==
    ASSUME Types, Places, PluginTypes', [Next]_vars
    PROVE  CallsKept
<1>1. wipes \in Nat
  BY RegistryAssumption DEF Types, KubeletTypes
<1>2. CASE \A a \in Adders : ~(AddCall(a) \/ AddNext(a))
  BY <1>2, OtherSteps DEF CallsKept, addVars
<1>3. ASSUME NEW a \in Adders, AddCall(a) \/ AddNext(a) PROVE CallsKept
  <2>1. CallStep(a)
    BY <1>3, AddSteps
  <2>2. addName[a] # NoName => addName'[a] = addName[a]
    BY <1>3 DEF AddNext, AddCall, AddRemove, AddListen, AddPluginFails, AddStore, AddLoaded,
                AddRegister, Places, AddPlace
  <2>3. addNew[a] # None => addNew'[a] # None
    <3>1. CASE AddListen(a)
      BY <3>1 DEF AddListen, Places, AddPlace
    <3>2. CASE ~AddListen(a)
      BY <1>3, <3>2 DEF AddNext, AddCall, AddRemove, AddPluginFails, AddStore, AddLoaded, AddRegister
    <3> QED
      BY <3>1, <3>2
  <2>4. addPc[a] \in Past => addPc'[a] \in Past
    BY <1>3 DEF AddNext, AddCall, AddRemove, AddListen, AddPluginFails, AddStore, AddLoaded,
                AddRegister, Past, Types, CallTypes
  <2> QED
    BY <1>1, <2>1, <2>2, <2>3, <2>4 DEF CallStep, CallsKept
<1> QED
  BY <1>2, <1>3

LEMMA AddPlaceStep ==
    ASSUME Types, Places, Kept, PluginTypes', [Next]_vars
    PROVE  AddPlace'
<1>1. ASSUME NEW a \in Adders, addNew'[a] = addNew[a], addNew[a] # None
      PROVE  plugins'[addNew'[a]].resource = a
  <2>1. addNew[a] \in 1 .. Len(plugins)
    BY <1>1, LenProperties DEF Types, PluginTypes, None
  <2> QED
    BY <1>1, <2>1 DEF Kept, Places, AddPlace
<1>2. CASE \A a \in Adders : ~(AddCall(a) \/ AddNext(a))
  BY <1>1, <1>2, OtherSteps DEF addVars, Places, AddPlace
<1>3. ASSUME NEW a \in Adders, AddCall(a) \/ AddNext(a) PROVE AddPlace'
  <2>1. CallStep(a)
    BY <1>3, AddSteps
  <2>2. addPc'[a] = "idle" <=> addName'[a] = NoName
    BY <1>3, RegistryAssumption
       DEF AddNext, AddCall, AddRemove, AddListen, AddPluginFails, AddStore, AddLoaded,
           AddRegister, Types, CallTypes, Places, AddPlace
  <2>3. /\ addPc'[a] \in {"idle", "remove", "listen"} => addNew'[a] = None
        /\ addPc'[a] \in {"store", "register", "added"} => addNew'[a] # None
        /\ addNew'[a] # None => plugins'[addNew'[a]].resource = a
    <3>1. CASE AddListen(a)
      <4>1. addName[a] \in Names /\ wipes \in Nat
        BY <3>1, RegistryAssumption DEF AddListen, Types, CallTypes, KubeletTypes, Places, AddPlace
      <4>2. Len(plugins') = Len(plugins) + 1 /\ Len(plugins) \in Nat
            /\ plugins'[Len(plugins')].resource = a
        <5>1. PluginTypes /\ Listen(addName[a], a)
          BY <3>1 DEF AddListen, Types
        <5>2. Len(plugins') = Len(plugins) + 1 /\ Len(plugins) \in Nat
              /\ plugins'[Len(plugins')] = [name |-> addName[a], resource |-> a, born |-> wipes,
                                            state |-> "serving"]
          BY <4>1, <5>1, ListenMakes
        <5> QED
          BY <5>2
      <4>3. addNew'[a] = Len(plugins') /\ addPc'[a] = "store"
        BY <3>1 DEF AddListen, Types, PluginTypes, CallTypes
      <4> QED
        BY <4>2, <4>3 DEF None
    <3>2. CASE ~AddListen(a)
      <4>1. addNew' = addNew
        BY <1>3, <3>2 DEF AddNext, AddCall, AddRemove, AddPluginFails, AddStore, AddLoaded, AddRegister
      <4>2. /\ addPc'[a] \in {"idle", "remove", "listen"} => addNew[a] = None
            /\ addPc'[a] \in {"store", "register", "added"} => addNew[a] # None
        BY <1>3, <3>2 DEF AddNext, AddCall, AddRemove, AddPluginFails, AddStore, AddLoaded,
                          AddRegister, Types, CallTypes, Places, AddPlace
      <4> QED
        BY <1>1, <4>1, <4>2
    <3> QED
      BY <3>1, <3>2
  <2>4. ASSUME NEW b \in Adders \ {a}
        PROVE  /\ addPc'[b] = "idle" <=> addName'[b] = NoName
               /\ addPc'[b] \in {"idle", "remove", "listen"} => addNew'[b] = None
               /\ addPc'[b] \in {"store", "register", "added"} => addNew'[b] # None
               /\ addNew'[b] # None => plugins'[addNew'[b]].resource = b
    BY <1>1, <2>1 DEF CallStep, Places, AddPlace
  <2> QED
    BY <2>2, <2>3, <2>4 DEF AddPlace
<1> QED
  BY <1>2, <1>3

(* The two steps that make a plugin.                                       *)
LEMMA AddMakes ==
    ASSUME Types, Places, NEW a \in Adders, AddListen(a)
    PROVE  /\ addName[a] \in Names /\ wipes \in Nat /\ Len(plugins) \in Nat
           /\ Len(plugins') = Len(plugins) + 1
           /\ \A q \in 1 .. Len(plugins) : plugins'[q] = plugins[q]
           /\ plugins'[Len(plugins')] = [name |-> addName[a], resource |-> a, born |-> wipes,
                                         state |-> "serving"]
           /\ file' = [file EXCEPT ![Path[addName[a]]] = Len(plugins')]
           /\ addNew' = [addNew EXCEPT ![a] = Len(plugins')]
<1>1. addName[a] \in Names /\ wipes \in Nat
  BY RegistryAssumption DEF AddListen, Types, CallTypes, KubeletTypes, Places, AddPlace
<1>2. PluginTypes /\ Listen(addName[a], a) /\ addNew' = [addNew EXCEPT ![a] = Len(plugins')]
  BY DEF AddListen, Types
<1> QED
  BY <1>1, <1>2, ListenMakes

HupResource == plugins[entry[hupName]].resource

LEMMA HupMakes ==
    ASSUME Types, Places, HupListen
    PROVE  /\ hupName \in Stored /\ hupName \in Names /\ HupResource \in Adders
           /\ wipes \in Nat /\ Len(plugins) \in Nat
           /\ Len(plugins') = Len(plugins) + 1
           /\ \A q \in 1 .. Len(plugins) : plugins'[q] = plugins[q]
           /\ plugins'[Len(plugins')] = [name |-> hupName, resource |-> HupResource,
                                         born |-> wipes, state |-> "serving"]
           /\ file' = [file EXCEPT ![Path[hupName]] = Len(plugins')]
<1>1. hupName \in Stored /\ wipes \in Nat
  BY RegistryAssumption DEF HupListen, Types, KubeletTypes, Places, HupPlace, Replacing
<1>2. hupName \in Names /\ HupResource \in Adders
  BY <1>1, EntryMade DEF Types, Plugin, HupResource
<1>3. PluginTypes /\ Listen(hupName, HupResource)
  BY DEF HupListen, Types, HupResource
<1> QED
  BY <1>1, <1>2, <1>3, ListenMakes

LEMMA NobodyMakes ==
    ASSUME Types, [Next]_vars, ~HupListen, \A a \in Adders : ~AddListen(a)
    PROVE  Len(plugins') = Len(plugins)
<1>1. CASE UNCHANGED plugins
  BY <1>1
<1>2. ASSUME NEW p \in DOMAIN plugins, NEW s \in States, plugins' = [plugins EXCEPT ![p].state = s]
      PROVE  Len(plugins') = Len(plugins)
  <2>1. plugins \in Seq(Plugin) /\ p \in 1 .. Len(plugins)
    BY LenProperties DEF Types, PluginTypes
  <2> QED
    BY <1>2, <2>1, StateSet
<1>3. ASSUME NEW n \in Names, HupVisit(n)
      PROVE  \E p \in DOMAIN plugins, s \in States : plugins' = [plugins EXCEPT ![p].state = s]
  <2>1. n \in Stored /\ PluginTypes
    BY <1>3 DEF HupVisit, Types
  <2>2. entry[n] \in 1 .. Len(plugins) /\ plugins[entry[n]] \in Plugin
    BY <2>1, EntryMade
  <2>3. entry[n] \in DOMAIN plugins
    BY <2>1, <2>2, LenProperties DEF PluginTypes
  <2> DEFINE s == IF plugins[entry[n]].state = "serving" THEN "cancelled" ELSE plugins[entry[n]].state
  <2>4. s \in States
    BY <2>2 DEF Plugin, States
  <2>5. plugins' = [plugins EXCEPT ![entry[n]].state = s]
    BY <1>3 DEF HupVisit
  <2> QED
    BY <2>3, <2>4, <2>5
<1>4. ASSUME NEW p, PluginStops(p)
      PROVE  \E q \in DOMAIN plugins, s \in States : plugins' = [plugins EXCEPT ![q].state = s]
  BY <1>4 DEF PluginStops, States
<1> QED
  BY <1>1, <1>2, <1>3, <1>4
     DEF Next, AddNext, RegistryNext, Hup, AddCall, AddRemove, AddPluginFails,
         AddStore, AddLoaded, AddRegister, HupStarts, HupStopped,
         HupPluginFails, HupStore, HupRegister, HupEnds, RegistryExits, Shutdown,
         KubeletStops, KubeletStarts, KubeletListens, vars

LEMMA PluginPlaceStep ==
    ASSUME Types, Places, Kept, CallsKept, PluginTypes', AddPlace', [Next]_vars
    PROVE  PluginPlace'
<1>1. wipes \in Nat /\ wipes' \in Nat /\ Len(plugins) \in Nat
  <2>1. wipes' = wipes \/ wipes' = wipes + 1
    BY DEF Next, AddNext, RegistryNext, Hup, AddCall, AddRemove, AddListen, AddPluginFails,
           AddStore, AddLoaded, AddRegister, HupStarts, HupVisit, HupStopped, HupListen,
           HupPluginFails, HupStore, HupRegister, HupEnds, RegistryExits, PluginStops, Shutdown,
           KubeletStops, KubeletStarts, KubeletListens, vars, kubeletVars
  <2> QED
    BY <2>1, RegistryAssumption, LenProperties DEF Types, KubeletTypes, PluginTypes
<1> DEFINE Placed(p) ==
      /\ addNew'[plugins'[p].resource] # None
      /\ plugins'[p].name = addName'[plugins'[p].resource]
      /\ plugins'[p].born <= wipes'
<1>2. ASSUME NEW p \in 1 .. Len(plugins) PROVE Placed(p)
  <2> DEFINE r == plugins[p].resource
  <2>1. plugins[p] \in Plugin /\ r \in Adders
    <3>1. plugins[p] \in Plugin
      BY ElementOfSeq DEF Types, PluginTypes
    <3> QED
      BY <3>1 DEF Plugin
  <2>2. addNew[r] # None /\ plugins[p].name = addName[r] /\ plugins[p].born <= wipes
    BY DEF Places, PluginPlace
  <2>3. addName[r] # NoName
    BY <2>1, <2>2 DEF Places, AddPlace
  <2>4. addNew'[r] # None /\ addName'[r] = addName[r] /\ wipes <= wipes'
    BY <2>1, <2>2, <2>3 DEF CallsKept
  <2>5. plugins'[p].resource = r /\ plugins'[p].name = plugins[p].name /\ plugins'[p].born = plugins[p].born
    BY DEF Kept
  <2>6. plugins[p].born \in Nat
    BY <2>1 DEF Plugin
  <2> QED
    BY <1>1, <2>2, <2>4, <2>5, <2>6
<1>3. CASE ~HupListen /\ \A a \in Adders : ~AddListen(a)
  BY <1>2, <1>3, NobodyMakes DEF PluginPlace
<1>4. ASSUME NEW a \in Adders, AddListen(a) PROVE PluginPlace'
  <2>1. Len(plugins') = Len(plugins) + 1
        /\ plugins'[Len(plugins')] = [name |-> addName[a], resource |-> a, born |-> wipes,
                                      state |-> "serving"]
    BY <1>4, AddMakes
  <2>2. addNew'[a] = Len(plugins') /\ UNCHANGED <<addName, wipes>>
    BY <1>4 DEF AddListen, kubeletVars, Types, PluginTypes
  <2>3. Placed(Len(plugins'))
    BY <1>1, <2>1, <2>2 DEF None
  <2> QED
    BY <1>1, <1>2, <2>1, <2>3 DEF PluginPlace
<1>5. CASE HupListen
  <2>1. hupName \in Stored /\ Len(plugins') = Len(plugins) + 1
        /\ plugins'[Len(plugins')] = [name |-> hupName, resource |-> HupResource, born |-> wipes,
                                      state |-> "serving"]
    BY <1>5, HupMakes
  <2>2. UNCHANGED <<addName, addNew, wipes>>
    BY <1>5 DEF HupListen, kubeletVars, addVars
  <2>3. entry[hupName] \in 1 .. Len(plugins)
    BY <2>1, EntryMade DEF Types
  <2>4. addNew[HupResource] # None /\ hupName = addName[HupResource]
    BY <2>1, <2>3 DEF Places, PluginPlace, EntryPlace, HupResource
  <2>5. Placed(Len(plugins'))
    BY <1>1, <2>1, <2>2, <2>4
  <2> QED
    BY <1>1, <1>2, <2>1, <2>5 DEF PluginPlace
<1> QED
  BY <1>3, <1>4, <1>5

(* A name is stored by an Add.                                             *)
LEMMA NewEntry ==
    ASSUME Types, Places, [Next]_vars, NEW n \in Stored', n \notin Stored
    PROVE  \E a \in Adders : AddStore(a) /\ addName[a] = n /\ entry'[n] = addNew[a]
<1>1. n \in Names /\ entry[n] = None /\ entry'[n] # None
  BY DEF Stored
<1>2. CASE UNCHANGED entry
  BY <1>1, <1>2
<1>3. CASE HupStore
  <2>1. hupName \in Stored /\ entry' = [entry EXCEPT ![hupName] = hupNew]
    BY <1>3 DEF HupStore, Places, HupPlace, Replacing
  <2> QED
    BY <1>1, <2>1 DEF Types, PluginTypes
<1>4. ASSUME NEW a \in Adders, AddStore(a) PROVE addName[a] = n /\ entry'[n] = addNew[a]
  BY <1>1, <1>4 DEF AddStore, Types, PluginTypes
<1> QED
  BY <1>2, <1>3, <1>4
     DEF Next, AddNext, RegistryNext, Hup, AddCall, AddRemove, AddListen, AddPluginFails,
         AddLoaded, AddRegister, HupStarts, HupVisit, HupStopped, HupListen,
         HupPluginFails, HupRegister, HupEnds, RegistryExits, PluginStops, Shutdown,
         KubeletStops, KubeletStarts, KubeletListens, vars

LEMMA EntryPlaceStep ==
    ASSUME Types, Places, Kept, EntryKept, CallsKept, PluginTypes', [Next]_vars
    PROVE  EntryPlace'
<1> DEFINE Placed(n) ==
      /\ plugins'[entry'[n]].name = n
      /\ addPc'[plugins'[entry'[n]].resource] \in Past
<1>1. ASSUME NEW n \in Stored PROVE Placed(n)
  <2>1. entry[n] \in 1 .. Len(plugins) /\ plugins[entry[n]] \in Plugin
    BY EntryMade DEF Types
  <2>2. plugins[entry[n]].name = n /\ addPc[plugins[entry[n]].resource] \in Past
    BY DEF Places, EntryPlace, Past
  <2>3. plugins[entry[n]].resource \in Adders
    BY <2>1 DEF Plugin
  <2>4. addPc'[plugins[entry[n]].resource] \in Past
    BY <2>2, <2>3 DEF CallsKept
  <2>5. CASE entry'[n] = entry[n]
    BY <2>1, <2>2, <2>4, <2>5 DEF Kept
  <2>6. CASE hupPc = "store" /\ n = hupName /\ entry'[n] = hupNew
    <3>1. hupNew \in 1 .. Len(plugins)
      BY <2>6, LenProperties DEF Types, PluginTypes, Places, HupPlace, None
    <3>2. plugins[hupNew].name = n /\ plugins[hupNew].resource = plugins[entry[n]].resource
      BY <2>6 DEF Places, HupPlace
    <3> QED
      BY <2>4, <2>6, <3>1, <3>2 DEF Kept
  <2> QED
    BY <2>5, <2>6 DEF EntryKept
<1>2. ASSUME NEW n \in Stored', n \notin Stored PROVE Placed(n)
  <2>1. PICK a \in Adders : AddStore(a) /\ addName[a] = n /\ entry'[n] = addNew[a]
    BY <1>2, NewEntry
  <2>2. addNew[a] # None /\ addPc'[a] \in Past
    BY <2>1 DEF AddStore, Past, Types, CallTypes, Places, AddPlace
  <2>3. addNew[a] \in 1 .. Len(plugins) /\ plugins[addNew[a]].resource = a
    BY <2>2, LenProperties DEF Types, PluginTypes, None, Places, AddPlace
  <2>4. plugins[addNew[a]].name = n
    BY <2>1, <2>3 DEF Places, PluginPlace
  <2>5. plugins'[addNew[a]].resource = a /\ plugins'[addNew[a]].name = n
    BY <2>3, <2>4 DEF Kept
  <2> QED
    BY <2>1, <2>2, <2>5
<1> QED
  BY <1>1, <1>2 DEF EntryPlace, Past

LEMMA HupPlaceStep ==
    ASSUME Types, Places, Kept, EntryKept, PluginTypes', [Next]_vars
    PROVE  HupPlace'
<1>1. CASE UNCHANGED hupVars
  <2>1. ASSUME NEW n \in Stored PROVE entry'[n] = entry[n]
    <3>1. CASE HupStore
      BY <1>1, <3>1 DEF HupStore, hupVars
    <3>2. CASE ~HupStore
      BY <3>2
         DEF Stored, Types, PluginTypes, Next, AddNext, RegistryNext, Hup, AddCall, AddRemove, AddListen, AddPluginFails,
             AddStore, AddLoaded, AddRegister, HupStarts, HupVisit, HupStopped, HupListen,
             HupPluginFails, HupRegister, HupEnds, RegistryExits, PluginStops, Shutdown,
             KubeletStops, KubeletStarts, KubeletListens, vars
    <3> QED
      BY <3>1, <3>2
  <2>2. hupPc \in {"select", "exited"} => due = {} /\ seen = {}
    BY DEF Places, HupPlace
  <2>3. CASE ~Replacing
    BY <1>1, <2>2, <2>3 DEF HupPlace, Replacing, hupVars
  <2>4. CASE Replacing
    <3>1. hupName \in Stored /\ hupName \in seen /\ hupName \in Stored'
      BY <2>4, StoredGrows DEF Places, HupPlace
    <3>2. entry[hupName] \in 1 .. Len(plugins) /\ entry'[hupName] = entry[hupName]
      BY <2>1, <3>1, EntryMade DEF Types
    <3>3. hupPc = "stop" => plugins'[entry[hupName]].state # "serving"
      BY <3>2 DEF Places, HupPlace, Kept
    <3>4. hupPc \in {"listen", "store"} => plugins'[entry[hupName]].state = "stopped"
      BY <3>2 DEF Places, HupPlace, Kept
    <3>5. ASSUME hupPc \in {"store", "register"}
          PROVE  /\ hupNew # None
                 /\ plugins'[hupNew].name = hupName
                 /\ plugins'[hupNew].resource = plugins'[entry[hupName]].resource
      <4>1. hupNew # None /\ hupNew \in 1 .. Len(plugins)
        BY <3>5, LenProperties DEF Types, PluginTypes, Places, HupPlace, None
      <4> QED
        BY <3>2, <3>5, <4>1 DEF Places, HupPlace, Kept
    <3> QED
      BY <1>1, <2>2, <3>1, <3>2, <3>3, <3>4, <3>5 DEF HupPlace, Replacing, hupVars
  <2> QED
    BY <2>3, <2>4
<1>2. CASE HupStarts \/ HupEnds \/ RegistryExits \/ HupPluginFails \/ HupRegister
  BY <1>2 DEF HupStarts, HupEnds, RegistryExits, HupPluginFails, HupRegister, Places, HupPlace, Replacing
<1>3. ASSUME NEW n \in Names, HupVisit(n) PROVE HupPlace'
  <2>1. n \in Stored /\ hupPc' = "stop" /\ hupName' = n /\ n \in seen' /\ UNCHANGED entry
    BY <1>3 DEF HupVisit
  <2>2. entry[n] \in 1 .. Len(plugins) /\ plugins[entry[n]] \in Plugin /\ plugins \in Seq(Plugin)
    BY <2>1, EntryMade DEF Types, PluginTypes
  <2> DEFINE s == IF plugins[entry[n]].state = "serving" THEN "cancelled" ELSE plugins[entry[n]].state
  <2>3. s \in States /\ s # "serving"
    BY <2>2 DEF Plugin, States
  <2>4. plugins' = [plugins EXCEPT ![entry[n]].state = s]
    BY <1>3 DEF HupVisit
  <2> HIDE DEF s
  <2>5. plugins'[entry[n]].state = s
    BY <2>2, <2>3, <2>4, StateSet
  <2> QED
    BY <2>1, <2>3, <2>5 DEF HupPlace, Replacing, Stored
<1>4. CASE HupStopped
  BY <1>4 DEF HupStopped, Places, HupPlace, Replacing, Stored
<1>5. CASE HupListen
  <2>1. /\ hupName \in Stored /\ Len(plugins) \in Nat /\ Len(plugins') = Len(plugins) + 1
        /\ \A q \in 1 .. Len(plugins) : plugins'[q] = plugins[q]
        /\ plugins'[Len(plugins')] = [name |-> hupName, resource |-> HupResource, born |-> wipes,
                                      state |-> "serving"]
    BY <1>5, HupMakes
  <2>2. entry[hupName] \in 1 .. Len(plugins)
    BY <2>1, EntryMade DEF Types
  <2>3. /\ hupPc' = "store" /\ hupNew' = Len(plugins') /\ UNCHANGED <<entry, hupName, seen, due>>
        /\ hupPc = "listen"
    BY <1>5 DEF HupListen
  <2>4. plugins'[entry[hupName]] = plugins[entry[hupName]]
    BY <2>1, <2>2
  <2>5. plugins[entry[hupName]].state = "stopped" /\ hupName \in seen
    BY <2>3 DEF Places, HupPlace, Replacing
  <2>6. hupNew' # None /\ plugins'[hupNew'].name = hupName
        /\ plugins'[hupNew'].resource = plugins'[entry[hupName]].resource
    BY <2>1, <2>3, <2>4 DEF None, HupResource
  <2> QED
    BY <2>1, <2>3, <2>4, <2>5, <2>6 DEF HupPlace, Replacing, Stored
<1>6. CASE HupStore
  <2>1. /\ hupPc = "store" /\ hupPc' = "register" /\ entry' = [entry EXCEPT ![hupName] = hupNew]
        /\ UNCHANGED <<plugins, hupName, hupNew, seen, due>>
    BY <1>6 DEF HupStore
  <2>2. hupName \in Stored /\ hupName \in seen /\ hupNew # None /\ plugins[hupNew].name = hupName
    BY <2>1 DEF Places, HupPlace, Replacing
  <2>3. entry'[hupName] = hupNew
    BY <2>1, <2>2 DEF Stored, Types, PluginTypes
  <2> QED
    BY <2>1, <2>2, <2>3 DEF HupPlace, Replacing, Stored
<1> QED
  BY <1>1, <1>2, <1>3, <1>4, <1>5, <1>6
     DEF Next, AddNext, RegistryNext, Hup, AddCall, AddRemove, AddListen, AddPluginFails,
         AddStore, AddLoaded, AddRegister, PluginStops, Shutdown,
         KubeletStops, KubeletStarts, KubeletListens, vars

LEMMA BaseStep ==
    ASSUME Types, Places, [Next]_vars
    PROVE  Kept /\ EntryKept /\ CallsKept /\ Types' /\ Places'
<1>1. Kept /\ EntryKept /\ PluginTypes'
  BY StepKeeps
<1>2. CallsKept
  BY <1>1, CallsKeep
<1>3. KubeletTypes' /\ CallTypes'
  BY <1>1, StoredGrows, KubeletTypesStep, CallTypesStep
<1>4. AddPlace'
  BY <1>1, AddPlaceStep
<1>5. PluginPlace' /\ EntryPlace' /\ HupPlace'
  BY <1>1, <1>2, <1>4, PluginPlaceStep, EntryPlaceStep, HupPlaceStep
<1> QED
  BY <1>1, <1>2, <1>3, <1>4, <1>5 DEF Types, Places

-----------------------------------------------------------------------------
(* Servers.                                                                *)

(* The only plugin its resource has had.                                   *)
Private(p) ==
    \A q \in 1 .. Len(plugins) : plugins[q].resource = plugins[p].resource => q = p

Live(p) == plugins[p].state # "stopped"

(* A server that has not ended is of the plugin in the map, of the one hup *)
(* is about to store, or of a resource that has had one plugin only.       *)
LivePlace ==
    \A p \in 1 .. Len(plugins) :
        Live(p) => \/ p = entry[plugins[p].name]
                   \/ hupPc = "store" /\ p = hupNew
                   \/ Private(p)

LEMMA OneLive ==
    ASSUME Types, Places, LivePlace, NEW p \in 1 .. Len(plugins), NEW q \in 1 .. Len(plugins),
           Live(p), Live(q), plugins[p].resource = plugins[q].resource
    PROVE  p = q
<1>1. plugins[p].name = plugins[q].name
  BY DEF Places, PluginPlace
<1>2. CASE Private(p) \/ Private(q)
  BY <1>2 DEF Private
<1>3. CASE p = entry[plugins[p].name] /\ q = entry[plugins[q].name]
  BY <1>1, <1>3
<1>4. CASE hupPc = "store" /\ p = hupNew /\ q = hupNew
  BY <1>4
<1>5. ASSUME hupPc = "store", NEW x \in {p, q}, hupNew \in {p, q}, x = entry[plugins[x].name]
      PROVE  FALSE
  <2>1. plugins[hupNew].name = hupName /\ plugins[entry[hupName]].state = "stopped"
    BY <1>5 DEF Places, HupPlace
  <2>2. plugins[x].name = hupName
    BY <1>1, <1>5, <2>1
  <2> QED
    BY <1>5, <2>1, <2>2 DEF Live
<1> QED
  BY <1>2, <1>3, <1>4, <1>5 DEF LivePlace

(* While hup has the stopped plugin of a name in hand, the resource has no *)
(* live server.                                                            *)
LEMMA NoneLiveInHup ==
    ASSUME Types, Places, LivePlace, hupPc \in {"stop", "listen"},
           plugins[entry[hupName]].state = "stopped",
           NEW p \in 1 .. Len(plugins), plugins[p].resource = HupResource
    PROVE  ~Live(p)
<1>1. hupName \in Stored /\ entry[hupName] \in 1 .. Len(plugins)
  BY EntryMade DEF Types, Places, HupPlace, Replacing
<1>2. plugins[p].name = hupName
  BY <1>1 DEF Places, PluginPlace, EntryPlace, HupResource
<1>3. CASE p = entry[plugins[p].name]
  BY <1>2, <1>3 DEF Live
<1>4. CASE Private(p)
  BY <1>1, <1>4 DEF Private, HupResource, Live
<1> QED
  BY <1>3, <1>4 DEF LivePlace

LEMMA LivePlaceStep ==
    ASSUME Types, Places, LivePlace, Kept, EntryKept, Types', Places', [Next]_vars
    PROVE  LivePlace'
<1> DEFINE Placed(p) ==
      \/ p = entry'[plugins'[p].name]
      \/ hupPc' = "store" /\ p = hupNew'
      \/ Private(p)'
<1>1. Len(plugins) \in Nat
  BY LenProperties DEF Types, PluginTypes
<1>2. ASSUME NEW p \in 1 .. Len(plugins), Live(p)', p = entry[plugins[p].name]
      PROVE  Placed(p)
  <2>1. plugins[p].name \in Names /\ plugins'[p].name = plugins[p].name /\ Live(p)
    <3>1. plugins[p] \in Plugin
      BY ElementOfSeq DEF Types, PluginTypes
    <3> QED
      BY <1>2, <3>1 DEF Plugin, Kept, Live
  <2>2. plugins[p].name \in Stored
    BY <1>1, <1>2, <2>1 DEF Stored, None
  <2>3. ~(hupPc = "store" /\ plugins[p].name = hupName)
    BY <1>2, <2>1 DEF Places, HupPlace, Live
  <2> QED
    BY <1>2, <2>1, <2>2, <2>3 DEF EntryKept
<1>3. ASSUME NEW p \in 1 .. Len(plugins), hupPc = "store", p = hupNew
      PROVE  Placed(p)
  <2>1. plugins[p].name = hupName /\ plugins'[p].name = hupName /\ hupName \in Names
    BY <1>3 DEF Places, HupPlace, Replacing, Kept, Stored
  <2>2. CASE HupStore
    BY <1>3, <2>1, <2>2 DEF HupStore, Types, PluginTypes
  <2>3. CASE ~HupStore
    <3>1. UNCHANGED <<hupPc, hupNew>>
      BY <1>3, <2>3
         DEF Next, AddNext, RegistryNext, Hup, AddCall, AddRemove, AddListen, AddPluginFails,
             AddStore, AddLoaded, AddRegister, HupStarts, HupVisit, HupStopped, HupListen,
             HupPluginFails, HupRegister, HupEnds, RegistryExits, PluginStops, Shutdown,
             KubeletStops, KubeletStarts, KubeletListens, vars, hupVars
    <3> QED
      BY <1>3, <3>1
  <2> QED
    BY <2>2, <2>3
<1>4. ASSUME NEW p \in 1 .. Len(plugins), Live(p)', Private(p)
      PROVE  Placed(p)
  <2> DEFINE r == plugins[p].resource
  <2>1. Live(p) /\ plugins'[p].resource = r
    BY <1>4 DEF Kept, Live
  <2>2. ASSUME NEW q \in 1 .. Len(plugins), plugins'[q].resource = r PROVE q = p
    BY <1>4, <2>2 DEF Private, Kept
  <2>3. ASSUME NEW a \in Adders, AddListen(a) PROVE Private(p)'
    <3>1. addNew[a] = None
      BY <2>3 DEF AddListen, Places, AddPlace
    <3>2. a # r
      BY <3>1 DEF Places, PluginPlace
    <3>3. Len(plugins') = Len(plugins) + 1
          /\ plugins'[Len(plugins')] = [name |-> addName[a], resource |-> a, born |-> wipes,
                                        state |-> "serving"]
      BY <2>3, AddMakes
    <3>4. plugins'[Len(plugins')].resource # r
      BY <3>2, <3>3
    <3> QED
      BY <1>1, <2>1, <2>2, <3>3, <3>4 DEF Private
  <2>4. CASE HupListen
    <3>1. r # HupResource
      BY <2>1, <2>4, NoneLiveInHup DEF HupListen, Places, HupPlace
    <3>2. Len(plugins') = Len(plugins) + 1
          /\ plugins'[Len(plugins')] = [name |-> hupName, resource |-> HupResource,
                                        born |-> wipes, state |-> "serving"]
      BY <2>4, HupMakes
    <3>3. plugins'[Len(plugins')].resource # r /\ Len(plugins') = Len(plugins) + 1
      BY <3>1, <3>2
    <3>4. ASSUME NEW q \in 1 .. Len(plugins'), plugins'[q].resource = r PROVE q = p
      BY <1>1, <2>2, <3>3, <3>4
    <3> QED
      BY <2>1, <3>4 DEF Private
  <2>5. CASE ~HupListen /\ \A a \in Adders : ~AddListen(a)
    BY <2>1, <2>2, <2>5, NobodyMakes DEF Private
  <2> QED
    BY <2>3, <2>4, <2>5
<1>5. ASSUME NEW p \in 1 .. Len(plugins), Live(p)' PROVE Placed(p)
  <2>1. Live(p)
    BY <1>5 DEF Kept, Live
  <2> QED
    BY <1>2, <1>3, <1>4, <1>5, <2>1 DEF LivePlace
<1>6. ASSUME NEW a \in Adders, AddListen(a) PROVE LivePlace'
  <2>1. addNew[a] = None
    BY <1>6 DEF AddListen, Places, AddPlace
  <2>2. Len(plugins') = Len(plugins) + 1
        /\ plugins'[Len(plugins')] = [name |-> addName[a], resource |-> a, born |-> wipes,
                                      state |-> "serving"]
    BY <1>6, AddMakes
  <2>3. ASSUME NEW q \in 1 .. Len(plugins) PROVE plugins'[q].resource # a
    BY <2>1 DEF Places, PluginPlace, Kept
  <2>4. plugins'[Len(plugins')].resource = a
    BY <2>2
  <2>5. \A q \in 1 .. Len(plugins') : plugins'[q].resource = a => q = Len(plugins')
    BY <1>1, <2>2, <2>3
  <2>6. ASSUME NEW p \in 1 .. Len(plugins'), p \notin 1 .. Len(plugins) PROVE Placed(p)
    <3>1. p = Len(plugins')
      BY <1>1, <2>2, <2>6
    <3> QED
      BY <2>4, <2>5, <3>1 DEF Private
  <2> QED
    BY <1>5, <2>6 DEF LivePlace
<1>7. CASE HupListen
  <2>1. Len(plugins') = Len(plugins) + 1 /\ hupPc' = "store" /\ hupNew' = Len(plugins')
    BY <1>7, HupMakes DEF HupListen
  <2> QED
    BY <1>1, <1>5, <2>1 DEF LivePlace
<1>8. CASE ~HupListen /\ \A a \in Adders : ~AddListen(a)
  BY <1>5, <1>8, NobodyMakes DEF LivePlace
<1> QED
  BY <1>6, <1>7, <1>8

-----------------------------------------------------------------------------
(* Sockets.                                                                *)

(* A server made since the directory was wiped has its socket, if only one *)
(* Add has asked for its path.                                             *)
SocketOf ==
    \A p \in 1 .. Len(plugins) :
        /\ plugins[p].state = "serving"
        /\ plugins[p].born = wipes
        /\ Sole(plugins[p].name)
        => file[Path[plugins[p].name]] = p

(* Takes and Sole in the next state.                                       *)
TakesNext(a, n) == addName'[a] # NoName /\ Path[addName'[a]] = Path[n]

SoleNext(n) == \A a, b \in Adders : TakesNext(a, n) /\ TakesNext(b, n) => a = b

LEMMA SoleKept ==
    ASSUME CallsKept, NEW n \in Names, SoleNext(n)
    PROVE  Sole(n)
BY DEF CallsKept, Sole, SoleNext, Takes, TakesNext

(* A path that only one Add has asked for is that of one resource.         *)
LEMMA SoleResource ==
    ASSUME Types, Places, NEW p \in 1 .. Len(plugins), NEW n \in Names, Sole(n),
           Path[plugins[p].name] = Path[n], NEW a \in Adders, addName[a] = n
    PROVE  plugins[p].resource = a
<1>1. plugins[p].resource \in Adders
  <2>1. plugins[p] \in Plugin
    BY ElementOfSeq DEF Types, PluginTypes
  <2> QED
    BY <2>1 DEF Plugin
<1>2. addName[plugins[p].resource] = plugins[p].name /\ plugins[p].name \in Names
  <2>1. plugins[p] \in Plugin
    BY ElementOfSeq DEF Types, PluginTypes
  <2> QED
    BY <2>1 DEF Plugin, Places, PluginPlace
<1> QED
  BY <1>1, <1>2, RegistryAssumption DEF Sole, Takes

(* The steps that change what is at a path.                                *)
LEMMA FileChange ==
    ASSUME Types, Places, [Next]_vars, wipes' = wipes, NEW f \in Paths, file'[f] # file[f]
    PROVE  \/ \E a \in Adders : (AddRemove(a) \/ AddListen(a)) /\ Path[addName[a]] = f
           \/ (HupStopped \/ HupListen) /\ Path[hupName] = f
           \/ \E q \in 1 .. Len(plugins) : PluginStops(q) /\ Path[plugins[q].name] = f
<1>1. file \in [Paths -> 0 .. Len(plugins)]
  BY DEF Types, PluginTypes
<1>2. CASE UNCHANGED file
  BY <1>2
<1>3. CASE KubeletStarts
  BY <1>3, RegistryAssumption DEF KubeletStarts, Types, KubeletTypes
<1>4. ASSUME NEW m, f # m, \E x : file' = [file EXCEPT ![m] = x] PROVE FALSE
  BY <1>1, <1>4
<1>5. ASSUME NEW a \in Adders, AddRemove(a) PROVE Path[addName[a]] = f
  BY <1>4, <1>5 DEF AddRemove, RemoveFile
<1>6. ASSUME NEW a \in Adders, AddListen(a) PROVE Path[addName[a]] = f
  BY <1>4, <1>6 DEF AddListen, Listen
<1>7. CASE HupStopped
  BY <1>4, <1>7 DEF HupStopped, RemoveFile
<1>8. CASE HupListen
  BY <1>4, <1>8 DEF HupListen, Listen
<1>9. ASSUME NEW q, PluginStops(q) PROVE q \in 1 .. Len(plugins) /\ Path[plugins[q].name] = f
  BY <1>4, <1>9, LenProperties DEF PluginStops, RemoveFile, Types, PluginTypes
<1> QED
  BY <1>2, <1>3, <1>5, <1>6, <1>7, <1>8, <1>9
     DEF Next, AddNext, RegistryNext, Hup, AddCall, AddPluginFails,
         AddStore, AddLoaded, AddRegister, HupStarts, HupVisit,
         HupPluginFails, HupStore, HupRegister, HupEnds, RegistryExits, Shutdown,
         KubeletStops, KubeletListens, vars

LEMMA SocketStep ==
    ASSUME Types, Places, LivePlace, SocketOf, Kept, CallsKept, Types', [Next]_vars
    PROVE  SocketOf'
<1> DEFINE Served(p) ==
      /\ plugins'[p].state = "serving"
      /\ plugins'[p].born = wipes'
      /\ SoleNext(plugins'[p].name)
      => file'[Path[plugins'[p].name]] = p
<1>1. Len(plugins) \in Nat /\ wipes \in Nat /\ wipes' \in Nat
  BY LenProperties, RegistryAssumption DEF Types, PluginTypes, KubeletTypes
<1>2. ASSUME NEW p \in 1 .. Len(plugins) PROVE Served(p)
  <2> DEFINE n == plugins[p].name
             r == plugins[p].resource
  <2>1. n \in Names /\ r \in Adders /\ plugins[p].born \in Nat
    <3>1. plugins[p] \in Plugin
      BY ElementOfSeq DEF Types, PluginTypes
    <3> QED
      BY <3>1 DEF Plugin
  <2>2. plugins'[p].name = n /\ plugins'[p].born = plugins[p].born
    BY DEF Kept
  <2>3. addNew[r] # None /\ addName[r] = n
    BY DEF Places, PluginPlace
  <2> SUFFICES ASSUME plugins'[p].state = "serving", plugins[p].born = wipes', SoleNext(n)
               PROVE  file'[Path[n]] = p
    BY <2>2
  <2>4. Sole(n)
    BY <2>1, SoleKept
  <2>5. wipes' = wipes
    BY <1>1 DEF CallsKept, Places, PluginPlace
  <2>6. plugins[p].state = "serving" /\ Live(p)
    BY DEF Kept, Live
  <2>7. file[Path[n]] = p
    BY <2>4, <2>5, <2>6 DEF SocketOf
  <2>8. ASSUME NEW a \in Adders, AddRemove(a) \/ AddListen(a),
               Path[addName[a]] = Path[n]
        PROVE  FALSE
    <3>1. addName[a] # NoName
      BY <2>8 DEF AddRemove, AddListen, Places, AddPlace
    <3>2. a = r
      BY <2>1, <2>3, <2>4, <2>8, <3>1, RegistryAssumption DEF Sole, Takes
    <3> QED
      BY <2>3, <2>8, <3>2 DEF AddRemove, AddListen, Places, AddPlace
  <2>9. ASSUME HupStopped \/ HupListen, Path[hupName] = Path[n] PROVE FALSE
    <3>1. hupPc \in {"stop", "listen"} /\ plugins[entry[hupName]].state = "stopped"
      BY <2>9 DEF HupStopped, HupListen, Places, HupPlace
    <3>2. entry[hupName] \in 1 .. Len(plugins) /\ plugins[entry[hupName]].name = hupName
      BY <2>9, <3>1, EntryMade DEF Types, Places, HupPlace, EntryPlace, Replacing
    <3>3. plugins[entry[hupName]].resource = r
      BY <2>1, <2>3, <2>4, <2>9, <3>2, SoleResource
    <3> QED
      BY <2>6, <2>9, <3>1, <3>3, NoneLiveInHup DEF HupResource
  <2>10. ASSUME NEW q \in 1 .. Len(plugins), PluginStops(q),
                Path[plugins[q].name] = Path[n]
         PROVE  FALSE
    <3>1. plugins[q].resource = r
      BY <2>1, <2>3, <2>4, <2>10, SoleResource
    <3>2. Live(q)
      BY <2>10 DEF PluginStops, Live
    <3>3. q = p
      BY <2>6, <3>1, <3>2, OneLive
    <3>4. plugins'[q].state = "stopped"
      BY <2>10, StateSet DEF PluginStops, States, Types, PluginTypes
    <3> QED
      BY <3>3, <3>4
  <2>11. Path[n] \in Paths
    BY <2>1 DEF Paths
  <2> QED
    BY <2>5, <2>7, <2>8, <2>9, <2>10, <2>11, FileChange
<1>3. ASSUME NEW a \in Adders, AddListen(a) PROVE SocketOf'
  <2>1. /\ addName[a] \in Names /\ Len(plugins') = Len(plugins) + 1
        /\ plugins'[Len(plugins')] = [name |-> addName[a], resource |-> a, born |-> wipes,
                                      state |-> "serving"]
        /\ file' = [file EXCEPT ![Path[addName[a]]] = Len(plugins')]
    BY <1>3, AddMakes
  <2>2. file'[Path[plugins'[Len(plugins')].name]] = Len(plugins')
    BY <2>1 DEF Types, PluginTypes, Paths
  <2> QED
    BY <1>1, <1>2, <2>1, <2>2 DEF SocketOf, Sole, SoleNext, Takes, TakesNext
<1>4. CASE HupListen
  <2>1. /\ hupName \in Names /\ Len(plugins') = Len(plugins) + 1
        /\ plugins'[Len(plugins')] = [name |-> hupName, resource |-> HupResource, born |-> wipes,
                                      state |-> "serving"]
        /\ file' = [file EXCEPT ![Path[hupName]] = Len(plugins')]
    BY <1>4, HupMakes
  <2>2. file'[Path[plugins'[Len(plugins')].name]] = Len(plugins')
    BY <2>1 DEF Types, PluginTypes, Paths
  <2> QED
    BY <1>1, <1>2, <2>1, <2>2 DEF SocketOf, Sole, SoleNext, Takes, TakesNext
<1>5. CASE ~HupListen /\ \A a \in Adders : ~AddListen(a)
  BY <1>2, <1>5, NobodyMakes DEF SocketOf, Sole, SoleNext, Takes, TakesNext
<1> QED
  BY <1>3, <1>4, <1>5

-----------------------------------------------------------------------------
(* The number of plugins: one for each Add, and one for each visit of hup, *)
(* which visits a name once in each of its rounds.                         *)

Made   == {a \in Adders : addNew[a] # None}
Rounds == epoch - events - 1
Finished == Rounds * Cardinality(Names)
Visits ==
    CASE hupPc \in {"select", "exited"} -> Cardinality(Names)
      [] hupPc \in {"stop", "listen"}   -> Cardinality(seen) - 1
      [] OTHER                          -> Cardinality(seen)

Counted ==
    Len(plugins) <= Cardinality(Made) + Finished + Visits

LEMMA CountTypes ==
    ASSUME Types
    PROVE  /\ Len(plugins) \in Nat
           /\ Cardinality(Names) \in Nat /\ Cardinality(Adders) \in Nat
           /\ IsFiniteSet(Made) /\ Cardinality(Made) \in Nat /\ Cardinality(Made) <= Cardinality(Adders)
           /\ IsFiniteSet(seen) /\ Cardinality(seen) \in Nat /\ Cardinality(seen) <= Cardinality(Names)
           /\ Rounds \in Int /\ Visits \in Int /\ Visits <= Cardinality(Names)
           /\ Finished \in Int
<1>1. IsFiniteSet(Names) /\ IsFiniteSet(Adders)
  BY RegistryAssumption
<1>2. Cardinality(Names) \in Nat /\ Cardinality(Adders) \in Nat
  BY <1>1, FS_CardinalityType
<1>3. Made \in SUBSET Adders /\ seen \in SUBSET Names
  BY DEF Made, Types, CallTypes, Stored
<1>4. /\ IsFiniteSet(Made) /\ Cardinality(Made) <= Cardinality(Adders)
      /\ IsFiniteSet(seen) /\ Cardinality(seen) <= Cardinality(Names)
  BY <1>1, <1>3, FS_Subset
<1>5. Cardinality(Made) \in Nat /\ Cardinality(seen) \in Nat
  BY <1>4, FS_CardinalityType
<1>6. Visits \in Int /\ Visits <= Cardinality(Names)
  BY <1>2, <1>4, <1>5 DEF Visits
<1>7. Rounds \in Int
  BY RegistryAssumption DEF Rounds, Types, KubeletTypes
<1>8. Finished \in Int
  BY <1>2, <1>7 DEF Finished
<1> QED
  BY <1>2, <1>4, <1>5, <1>6, <1>7, <1>8, LenProperties DEF Types, PluginTypes

LEMMA RoundsStep ==
    ASSUME NEW r \in Int, NEW k \in Nat
    PROVE  (r + 1) * k = r * k + k
OBVIOUS

LEMMA RoundsBound ==
    ASSUME NEW r \in Int, NEW m \in Nat, NEW k \in Nat, r <= m
    PROVE  r * k <= m * k
OBVIOUS

LEMMA CountedStep ==
    ASSUME Types, Places, Counted, Types', [Next]_vars
    PROVE  Counted'
<1>0. /\ Len(plugins) \in Nat /\ Cardinality(Names) \in Nat
      /\ IsFiniteSet(Made) /\ Cardinality(Made) \in Nat
      /\ IsFiniteSet(seen) /\ Cardinality(seen) \in Nat /\ Cardinality(seen) <= Cardinality(Names)
      /\ Rounds \in Int /\ Visits \in Int /\ Finished \in Int
  BY CountTypes
<1>1. CASE UNCHANGED <<addNew, epoch, events, hupPc, seen>> /\ Len(plugins') = Len(plugins)
  <2>1. Made' = Made /\ Finished' = Finished /\ Visits' = Visits
    BY <1>1 DEF Made, Finished, Rounds, Visits
  <2> QED
    BY <1>1, <2>1 DEF Counted
<1>2. ASSUME NEW a \in Adders, AddListen(a) PROVE Counted'
  <2>1. Len(plugins') = Len(plugins) + 1 /\ addNew' = [addNew EXCEPT ![a] = Len(plugins')]
    BY <1>2, AddMakes
  <2>2. a \notin Made /\ Made' = Made \cup {a}
    BY <1>2, <2>1 DEF AddListen, Made, Places, AddPlace, Types, PluginTypes, None
  <2>3. Cardinality(Made') = Cardinality(Made) + 1
    BY <1>0, <2>2, FS_AddElement
  <2>4. Finished' = Finished /\ Visits' = Visits
    BY <1>2 DEF AddListen, kubeletVars, hupVars, Finished, Rounds, Visits
  <2> QED
    BY <1>0, <2>1, <2>3, <2>4 DEF Counted
<1>3. CASE HupListen
  <2>1. Len(plugins') = Len(plugins) + 1
    BY <1>3, HupMakes
  <2>2. Made' = Made /\ Finished' = Finished /\ Visits' = Visits + 1
    BY <1>0, <1>3 DEF HupListen, addVars, kubeletVars, Made, Finished, Rounds, Visits
  <2> QED
    <3>1. Len(plugins') <= Cardinality(Made) + Finished + (Visits + 1)
      BY <1>0, <2>1 DEF Counted
    <3> QED
      BY <2>2, <3>1 DEF Counted
<1>4. CASE HupStarts
  <2>1. Made' = Made /\ Len(plugins') = Len(plugins) /\ seen' = {} /\ Rounds' = Rounds + 1
    BY <1>4, RegistryAssumption DEF HupStarts, addVars, kubeletVars, Made, Rounds, Places, HupPlace, Types, KubeletTypes
  <2>2. Visits' = 0 /\ Visits = Cardinality(Names)
    BY <1>4, <2>1, FS_EmptySet DEF HupStarts, Visits
  <2>3. Finished' = Finished + Cardinality(Names)
    BY <1>0, <2>1, RoundsStep DEF Finished
  <2> QED
    BY <1>0, <2>1, <2>2, <2>3 DEF Counted
<1>5. ASSUME NEW n \in Names, HupVisit(n) PROVE Counted'
  <2>1. Len(plugins') = Len(plugins)
    BY <1>5, NobodyMakes DEF HupVisit, HupListen, AddListen, addVars, Types, CallTypes
  <2>2. Made' = Made /\ Finished' = Finished
    BY <1>5 DEF HupVisit, addVars, kubeletVars, Made, Finished, Rounds
  <2>3. seen' = seen \cup {n} /\ n \notin seen /\ hupPc = "range" /\ hupPc' = "stop"
    BY <1>5 DEF HupVisit
  <2>4. Cardinality(seen') = Cardinality(seen) + 1
    BY <1>0, <2>3, FS_AddElement
  <2>5. Visits' = Visits
    BY <1>0, <2>3, <2>4 DEF Visits
  <2> QED
    BY <1>0, <2>1, <2>2, <2>5 DEF Counted
<1>6. CASE HupStopped \/ HupPluginFails \/ HupStore \/ HupRegister \/ HupEnds \/ RegistryExits
  <2>1. Made' = Made /\ Finished' = Finished /\ Len(plugins') = Len(plugins)
    BY <1>6 DEF HupStopped, HupPluginFails, HupStore, HupRegister, HupEnds, RegistryExits,
                addVars, kubeletVars, Made, Finished, Rounds
  <2>2. Visits <= Visits' /\ Visits' \in Int
    BY <1>0, <1>6 DEF HupStopped, HupPluginFails, HupStore, HupRegister, HupEnds, RegistryExits, Visits
  <2>3. Len(plugins') <= Cardinality(Made) + Finished + Visits'
    BY <1>0, <2>1, <2>2 DEF Counted
  <2> QED
    BY <2>1, <2>3 DEF Counted
<1>7. CASE KubeletListens
  <2>1. Made' = Made /\ Finished' = Finished /\ Visits' = Visits /\ Len(plugins') = Len(plugins)
    BY <1>7, RegistryAssumption DEF KubeletListens, addVars, hupVars, Made, Finished, Rounds, Visits, Types, KubeletTypes
  <2> QED
    BY <2>1 DEF Counted
<1>8. ASSUME NEW p, PluginStops(p)
      PROVE  UNCHANGED <<addNew, epoch, events, hupPc, seen>> /\ Len(plugins') = Len(plugins)
  <2>1. p \in 1 .. Len(plugins) /\ plugins \in Seq(Plugin) /\ "stopped" \in States
    BY <1>8, LenProperties DEF PluginStops, Types, PluginTypes, States
  <2>2. plugins' = [plugins EXCEPT ![p].state = "stopped"]
    BY <1>8 DEF PluginStops
  <2>3. Len(plugins') = Len(plugins)
    BY <2>1, <2>2, StateSet
  <2> QED
    BY <1>8, <2>3 DEF PluginStops, addVars, kubeletVars, hupVars
<1> QED
  BY <1>1, <1>2, <1>3, <1>4, <1>5, <1>6, <1>7, <1>8
     DEF Next, AddNext, RegistryNext, Hup, AddCall, AddRemove, AddPluginFails,
         AddStore, AddLoaded, AddRegister, Shutdown, KubeletStops, KubeletStarts, vars,
         addVars, hupVars, kubeletVars

LEMMA PluginsBounded ==
    ASSUME Types, Counted
    PROVE  Len(plugins) <= MaxPlugins
<1>1. Rounds + 1 \in Int /\ Rounds + 1 <= MaxRestarts
  BY RegistryAssumption DEF Rounds, Types, KubeletTypes
<1>2. (Rounds + 1) * Cardinality(Names) <= MaxRestarts * Cardinality(Names)
  BY <1>1, CountTypes, RoundsBound, RegistryAssumption
<1>3. (Rounds + 1) * Cardinality(Names) = Finished + Cardinality(Names)
  BY CountTypes, RoundsStep DEF Finished
<1>4. MaxRestarts * Cardinality(Names) \in Int
  BY CountTypes, RegistryAssumption
<1> QED
  BY <1>2, <1>3, <1>4, CountTypes DEF Counted, MaxPlugins

-----------------------------------------------------------------------------
(* Answers to the kubelet's starts.                                        *)

Fresh(p)     == plugins[p].state = "serving" /\ plugins[p].born = wipes
FreshNext(p) == plugins'[p].state = "serving" /\ plugins'[p].born = wipes'

Renewed(n) == Fresh(entry[n]) /\ asked[n] = epoch

(* hup has the name in hand, and what it has made of it is fresh.          *)
Underway(n) ==
    /\ hupName = n
    /\ \/ hupPc = "stop"
       \/ hupPc = "listen" /\ file[Path[n]] = None
       \/ hupPc = "store" /\ Fresh(hupNew)
       \/ hupPc = "register" /\ Fresh(entry[n])

(* A name the kubelet waits for is renewed, or will be: by a round of hup  *)
(* that has still to start, or by the present one, unless it is denied.    *)
Answering ==
    kubelet = "up" /\ ~ctxDone =>
        \A n \in awaited : Sole(n) =>
            events > 0 \/ Renewed(n) \/ n \in due \ seen \/ Underway(n) \/ n \in denied

(* A fresh plugin stays fresh, unless hup comes to its name.               *)
LEMMA FreshKept ==
    ASSUME Types, Places, Kept, [Next]_vars, ~ctxDone, wipes' = wipes,
           NEW p \in 1 .. Len(plugins), Fresh(p), ~HupVisit(plugins[p].name)
    PROVE  FreshNext(p)
<1>1. plugins'[p].born = wipes'
  BY DEF Kept, Fresh
<1>2. CASE plugins'[p] = plugins[p]
  BY <1>1, <1>2 DEF Fresh, FreshNext
<1>3. ASSUME NEW n \in Names, HupVisit(n) PROVE plugins'[p] = plugins[p]
  <2>1. n \in Stored /\ PluginTypes
    BY <1>3 DEF HupVisit, Types
  <2>2. entry[n] \in 1 .. Len(plugins) /\ plugins[entry[n]] \in Plugin
    BY <2>1, EntryMade
  <2>3. entry[n] # p
    BY <1>3, <2>1 DEF Places, EntryPlace
  <2> DEFINE s == IF plugins[entry[n]].state = "serving" THEN "cancelled" ELSE plugins[entry[n]].state
  <2>4. s \in States
    BY <2>2 DEF Plugin, States
  <2>5. plugins' = [plugins EXCEPT ![entry[n]].state = s]
    BY <1>3 DEF HupVisit
  <2> HIDE DEF s
  <2> QED
    BY <2>1, <2>2, <2>3, <2>4, <2>5, StateSet DEF PluginTypes
<1>4. ASSUME NEW q, PluginStops(q) PROVE plugins'[p] = plugins[p]
  <2>1. q \in 1 .. Len(plugins) /\ plugins \in Seq(Plugin) /\ "stopped" \in States
    BY <1>4, LenProperties DEF PluginStops, Types, PluginTypes, States
  <2>2. plugins' = [plugins EXCEPT ![q].state = "stopped"] /\ q # p
    BY <1>4 DEF PluginStops, Fresh
  <2> QED
    BY <2>1, <2>2, StateSet
<1>5. ASSUME NEW a \in Adders, AddListen(a) PROVE plugins'[p] = plugins[p]
  BY <1>5, AddMakes
<1>6. CASE HupListen
  BY <1>2, <1>6, HupMakes
<1>7. CASE UNCHANGED plugins
  BY <1>2, <1>7
<1> QED
  BY <1>2, <1>3, <1>4, <1>5, <1>6, <1>7
     DEF Next, AddNext, RegistryNext, Hup, AddCall, AddRemove, AddPluginFails,
         AddStore, AddLoaded, AddRegister, HupStarts, HupStopped,
         HupPluginFails, HupStore, HupRegister, HupEnds, RegistryExits, Shutdown,
         KubeletStops, KubeletStarts, KubeletListens, vars

LEMMA RenewedStep ==
    ASSUME Types, Places, Kept, EntryKept, [Next]_vars, ~ctxDone, wipes' = wipes, epoch' = epoch,
           NEW n \in Stored, Renewed(n)
    PROVE  Renewed(n)' \/ Underway(n)'
<1>1. entry[n] \in 1 .. Len(plugins) /\ plugins[entry[n]].name = n /\ n \in Names
  BY EntryMade DEF Types, Places, EntryPlace
<1>2. CASE HupVisit(n)
  BY <1>2 DEF HupVisit, Underway
<1>3. CASE ~HupVisit(n)
  <2>1. FreshNext(entry[n])
    BY <1>1, <1>3, FreshKept DEF Renewed
  <2>2. entry'[n] = entry[n]
    BY DEF EntryKept, Places, HupPlace, Renewed, Fresh
  <2>3. asked'[n] = asked[n] \/ asked'[n] = epoch
    BY <1>1 DEF Types, KubeletTypes, Next, AddNext, RegistryNext, Hup, AddCall, AddRemove, AddListen,
           AddPluginFails, AddStore, AddLoaded, AddRegister, HupStarts, HupVisit, HupStopped,
           HupListen, HupPluginFails, HupStore, HupRegister, HupEnds, RegistryExits, PluginStops,
           Shutdown, KubeletStops, KubeletStarts, KubeletListens, RegisterOk, RegisterFails, vars
  <2> QED
    BY <2>1, <2>2, <2>3 DEF Renewed, Fresh, FreshNext
<1> QED
  BY <1>2, <1>3

LEMMA DueStep ==
    ASSUME Types, [Next]_vars, NEW n \in Stored, n \in due \ seen
    PROVE  n \in due' \ seen' \/ Underway(n)'
<1>1. CASE UNCHANGED <<due, seen>>
  BY <1>1
<1>2. CASE HupStarts
  BY <1>2 DEF HupStarts
<1>3. ASSUME NEW m \in Names, HupVisit(m) PROVE n \in due' \ seen' \/ Underway(n)'
  BY <1>3 DEF HupVisit, Underway
<1>4. CASE HupEnds
  BY <1>4 DEF HupEnds
<1> QED
  BY <1>1, <1>2, <1>3, <1>4
     DEF Next, AddNext, RegistryNext, Hup, AddCall, AddRemove, AddListen, AddPluginFails,
         AddStore, AddLoaded, AddRegister, HupStopped, HupListen, HupPluginFails, HupStore,
         HupRegister, RegistryExits, PluginStops, Shutdown, KubeletStops, KubeletStarts,
         KubeletListens, vars, hupVars

(* While hup makes the new socket at a path that only one Add has asked    *)
(* for, nobody makes another there.                                        *)
LEMMA PathStaysFree ==
    ASSUME Types, Places, [Next]_vars, wipes' = wipes, hupPc = "listen", ~HupListen,
           Sole(hupName), file[Path[hupName]] = None
    PROVE  file'[Path[hupName]] = None
<1>1. hupName \in Stored
  BY DEF Places, HupPlace, Replacing
<1>2. entry[hupName] \in 1 .. Len(plugins) /\ plugins[entry[hupName]] \in Plugin /\ hupName \in Names
  BY <1>1, EntryMade DEF Types
<1>3. plugins[entry[hupName]].name = hupName /\ addPc[HupResource] \in Past
  BY <1>1 DEF Places, EntryPlace, Past, HupResource
<1>4. HupResource \in Adders /\ addName[HupResource] = hupName
  BY <1>2, <1>3 DEF Plugin, HupResource, Places, PluginPlace
<1>5. ASSUME NEW a \in Adders, AddListen(a) PROVE Path[addName[a]] # Path[hupName]
  <2>1. addName[a] # NoName
    BY <1>5 DEF AddListen, Places, AddPlace
  <2> QED
    BY <1>2, <1>3, <1>4, <1>5, <2>1, RegistryAssumption DEF Sole, Takes, AddListen, Past
<1>6. CASE file'[Path[hupName]] = file[Path[hupName]]
  BY <1>6
<1>7. ASSUME NEW a \in Adders, AddRemove(a), Path[addName[a]] = Path[hupName]
      PROVE  file'[Path[hupName]] = None
  BY <1>2, <1>7 DEF AddRemove, RemoveFile, Types, PluginTypes, Paths
<1>8. ASSUME NEW q \in 1 .. Len(plugins), PluginStops(q), Path[plugins[q].name] = Path[hupName]
      PROVE  file'[Path[hupName]] = None
  BY <1>2, <1>8 DEF PluginStops, RemoveFile, Types, PluginTypes, Paths
<1> QED
  BY <1>2, <1>5, <1>6, <1>7, <1>8, FileChange DEF HupStopped, Paths

LEMMA UnderwayStep ==
    ASSUME Types, Places, Kept, EntryKept, [Next]_vars, ~ctxDone, wipes' = wipes, epoch' = epoch,
           NEW n \in Stored, Sole(n), Underway(n)
    PROVE  Renewed(n)' \/ Underway(n)' \/ n \in denied'
<1>1. n \in Names /\ hupName = n
  BY EntryMade DEF Types, Underway
<1>2. CASE hupPc = "stop"
  <2>1. CASE HupStopped
    BY <1>1, <2>1 DEF HupStopped, RemoveFile, Underway, Types, PluginTypes, Paths
  <2>2. CASE HupPluginFails
    BY <1>1, <1>2, <2>2 DEF HupPluginFails
  <2>3. CASE ~HupStopped /\ ~HupPluginFails
    <3>1. UNCHANGED <<hupPc, hupName>>
      BY <1>2, <2>3
         DEF Next, AddNext, RegistryNext, Hup, AddCall, AddRemove, AddListen, AddPluginFails,
             AddStore, AddLoaded, AddRegister, HupStarts, HupVisit, HupListen,
             HupStore, HupRegister, HupEnds, RegistryExits, PluginStops, Shutdown, KubeletStops,
             KubeletStarts, KubeletListens, vars, hupVars
    <3> QED
      BY <1>1, <1>2, <3>1 DEF Underway
  <2> QED
    BY <2>1, <2>2, <2>3
<1>3. CASE hupPc = "listen"
  <2>1. file[Path[n]] = None
    BY <1>3 DEF Underway
  <2>2. CASE HupListen
    <3>1. /\ Len(plugins') = Len(plugins) + 1
          /\ plugins'[Len(plugins')] = [name |-> hupName, resource |-> HupResource, born |-> wipes,
                                        state |-> "serving"]
      BY <2>2, HupMakes
    <3>2. hupPc' = "store" /\ hupNew' = Len(plugins') /\ hupName' = n
      BY <1>1, <2>2 DEF HupListen
    <3>3. plugins'[hupNew'].state = "serving" /\ plugins'[hupNew'].born = wipes
      BY <3>1, <3>2
    <3> QED
      BY <3>2, <3>3 DEF Underway, Fresh
  <2>3. CASE HupPluginFails
    BY <1>1, <1>3, <2>1, <2>3 DEF HupPluginFails, PathIsFree
  <2>4. CASE ~HupListen /\ ~HupPluginFails
    <3>1. file'[Path[n]] = None
      BY <1>1, <1>3, <2>1, <2>4, PathStaysFree
    <3>2. UNCHANGED <<hupPc, hupName>>
      BY <1>3, <2>4
         DEF Next, AddNext, RegistryNext, Hup, AddCall, AddRemove, AddListen, AddPluginFails,
             AddStore, AddLoaded, AddRegister, HupStarts, HupVisit, HupStopped,
             HupStore, HupRegister, HupEnds, RegistryExits, PluginStops, Shutdown, KubeletStops,
             KubeletStarts, KubeletListens, vars, hupVars
    <3> QED
      BY <1>1, <1>3, <3>1, <3>2 DEF Underway
  <2> QED
    BY <2>2, <2>3, <2>4
<1>4. CASE hupPc = "store"
  <2>1. Fresh(hupNew) /\ hupNew \in 1 .. Len(plugins)
    BY <1>4, LenProperties DEF Underway, Types, PluginTypes, Places, HupPlace, None
  <2>2. FreshNext(hupNew)
    <3>1. \A m : ~HupVisit(m)
      BY <1>4 DEF HupVisit
    <3> QED
      BY <2>1, <3>1, FreshKept
  <2>3. CASE HupStore
    <3>1. entry'[n] = hupNew /\ hupPc' = "register" /\ hupName' = n
      BY <1>1, <2>3 DEF HupStore, Types, PluginTypes
    <3> QED
      BY <2>2, <3>1 DEF Underway, Fresh, FreshNext
  <2>4. CASE ~HupStore
    <3>1. UNCHANGED <<hupPc, hupName, hupNew>>
      BY <1>4, <2>4
         DEF Next, AddNext, RegistryNext, Hup, AddCall, AddRemove, AddListen, AddPluginFails,
             AddStore, AddLoaded, AddRegister, HupStarts, HupVisit, HupStopped, HupListen,
             HupPluginFails, HupRegister, HupEnds, RegistryExits, PluginStops, Shutdown,
             KubeletStops, KubeletStarts, KubeletListens, vars, hupVars
    <3> QED
      BY <1>1, <1>4, <2>2, <3>1 DEF Underway, Fresh, FreshNext
  <2> QED
    BY <2>3, <2>4
<1>5. CASE hupPc = "register"
  <2>1. Fresh(entry[n]) /\ entry[n] \in 1 .. Len(plugins)
    BY <1>5, EntryMade DEF Underway, Types
  <2>2. FreshNext(entry[n])
    <3>1. \A m : ~HupVisit(m)
      BY <1>5 DEF HupVisit
    <3> QED
      BY <2>1, <3>1, FreshKept
  <2>3. entry'[n] = entry[n]
    BY <1>5 DEF EntryKept
  <2>4. CASE HupRegister
    <3>1. asked'[n] = epoch
      BY <1>1, <2>4 DEF HupRegister, RegisterOk, RegisterFails, Types, KubeletTypes
    <3> QED
      BY <2>2, <2>3, <3>1 DEF Renewed, Fresh, FreshNext
  <2>5. CASE ~HupRegister
    <3>1. UNCHANGED <<hupPc, hupName>>
      BY <1>5, <2>5
         DEF Next, AddNext, RegistryNext, Hup, AddCall, AddRemove, AddListen, AddPluginFails,
             AddStore, AddLoaded, AddRegister, HupStarts, HupVisit, HupStopped, HupListen,
             HupPluginFails, HupStore, HupEnds, RegistryExits, PluginStops, Shutdown,
             KubeletStops, KubeletStarts, KubeletListens, vars, hupVars
    <3> QED
      BY <1>1, <1>5, <2>2, <2>3, <3>1 DEF Underway, Fresh, FreshNext
  <2> QED
    BY <2>4, <2>5
<1> QED
  BY <1>2, <1>3, <1>4, <1>5 DEF Underway

LEMMA AnsweringStep ==
    ASSUME Types, Places, Answering, Kept, EntryKept, CallsKept, Types', [Next]_vars
    PROVE  Answering'
<1>1. SUFFICES ASSUME kubelet' = "up", ~ctxDone', NEW n \in awaited', SoleNext(n), ~(events' > 0)
               PROVE  Renewed(n)' \/ n \in due' \ seen' \/ Underway(n)' \/ n \in denied'
  BY DEF Answering, Sole, SoleNext, Takes, TakesNext
<1>2. events \in Nat /\ events' \in Nat /\ epoch \in Nat
  BY RegistryAssumption DEF Types, KubeletTypes
<1>3. ~KubeletListens /\ ~KubeletStarts /\ ~KubeletStops /\ ~Shutdown
  BY <1>1, <1>2 DEF KubeletListens, KubeletStarts, KubeletStops, Shutdown
<1>4. UNCHANGED <<kubelet, wipes, epoch, awaited, ctxDone>>
  BY <1>3
     DEF Next, AddNext, RegistryNext, Hup, AddCall, AddRemove, AddListen, AddPluginFails,
         AddStore, AddLoaded, AddRegister, HupStarts, HupVisit, HupStopped, HupListen,
         HupPluginFails, HupStore, HupRegister, HupEnds, RegistryExits, PluginStops, vars, kubeletVars
<1>5. n \in Stored /\ n \in Names
  BY <1>1, <1>4 DEF Types, KubeletTypes, Stored
<1>6. Sole(n)
  BY <1>1, <1>5, SoleKept
<1>7. events > 0 \/ Renewed(n) \/ n \in due \ seen \/ Underway(n) \/ n \in denied
  BY <1>1, <1>4, <1>6 DEF Answering
<1>8. CASE events > 0
  <2>1. HupStarts
    BY <1>1, <1>2, <1>3, <1>8
       DEF Next, AddNext, RegistryNext, Hup, AddCall, AddRemove, AddListen, AddPluginFails,
           AddStore, AddLoaded, AddRegister, HupVisit, HupStopped, HupListen,
           HupPluginFails, HupStore, HupRegister, HupEnds, RegistryExits, PluginStops, vars
  <2>2. n \in due' /\ n \notin seen'
    BY <1>5, <2>1 DEF HupStarts, Places, HupPlace
  <2> QED
    BY <2>2
<1>9. CASE Renewed(n)
  BY <1>1, <1>4, <1>5, <1>9, RenewedStep
<1>10. CASE n \in due \ seen
  BY <1>5, <1>10, DueStep
<1>11. CASE Underway(n)
  BY <1>1, <1>4, <1>5, <1>6, <1>11, UnderwayStep
<1>12. CASE n \in denied /\ ~HupStarts
  BY <1>12
     DEF Next, AddNext, RegistryNext, Hup, AddCall, AddRemove, AddListen, AddPluginFails,
         AddStore, AddLoaded, AddRegister, HupVisit, HupStopped, HupListen, HupPluginFails,
         HupStore, HupRegister, HupEnds, RegistryExits, PluginStops, Shutdown, KubeletStops,
         KubeletStarts, KubeletListens, vars, hupVars
<1>13. CASE HupStarts
  BY <1>5, <1>13 DEF HupStarts, Places, HupPlace
<1> QED
  BY <1>7, <1>8, <1>9, <1>10, <1>11, <1>12, <1>13

-----------------------------------------------------------------------------
(* What the liveness properties rest on: whoever is waited for can answer, *)
(* and whoever has ended has left nothing.                                 *)

(* The file at a path is of a plugin of that path that has not ended: the  *)
(* end of the last plugin empties the directory.                           *)
SocketsLive ==
    \A f \in Paths :
        file[f] # None => Path[plugins[file[f]].name] = f /\ Live(file[f])

(* The plugin hup waits for has been told to end, or has ended.            *)
HupIsHeard ==
    hupPc = "stop" => plugins[entry[hupName]].state \in {"cancelled", "stopped"}

(* A plugin ends by its own goroutine, and that removes the file.          *)
LEMMA OwnEnd ==
    ASSUME Types, Places, Kept, [Next]_vars,
           NEW p \in 1 .. Len(plugins), Live(p), plugins'[p].state = "stopped"
    PROVE  file' = [file EXCEPT ![Path[plugins[p].name]] = None]
<1>1. plugins'[p] # plugins[p]
  BY DEF Live
<1>2. ASSUME NEW n \in Names, HupVisit(n) PROVE FALSE
  <2>1. n \in Stored /\ PluginTypes
    BY <1>2 DEF HupVisit, Types
  <2>2. entry[n] \in 1 .. Len(plugins) /\ plugins[entry[n]] \in Plugin
    BY <2>1, EntryMade
  <2> DEFINE s == IF plugins[entry[n]].state = "serving" THEN "cancelled" ELSE plugins[entry[n]].state
  <2>3. s \in States
    BY <2>2 DEF Plugin, States
  <2>4. plugins' = [plugins EXCEPT ![entry[n]].state = s]
    BY <1>2 DEF HupVisit
  <2>5. entry[n] = p => s # "stopped"
    BY DEF Live
  <2> HIDE DEF s
  <2>6. plugins'[entry[n]].state = s /\ (entry[n] # p => plugins'[p] = plugins[p])
    BY <2>1, <2>2, <2>3, <2>4, StateSet DEF PluginTypes
  <2> QED
    BY <1>1, <2>5, <2>6
<1>3. ASSUME NEW q, PluginStops(q) PROVE q = p
  <2>1. q \in 1 .. Len(plugins) /\ plugins \in Seq(Plugin) /\ "stopped" \in States
    BY <1>3, LenProperties DEF PluginStops, Types, PluginTypes, States
  <2>2. plugins' = [plugins EXCEPT ![q].state = "stopped"]
    BY <1>3 DEF PluginStops
  <2> QED
    BY <1>1, <2>1, <2>2, StateSet
<1>4. ASSUME NEW a \in Adders, AddListen(a) PROVE FALSE
  BY <1>1, <1>4, AddMakes
<1>5. ~HupListen
  BY <1>1, HupMakes
<1>6. \E q : PluginStops(q)
  BY <1>1, <1>2, <1>4, <1>5
     DEF Next, AddNext, RegistryNext, Hup, AddCall, AddRemove, AddPluginFails,
         AddStore, AddLoaded, AddRegister, HupStarts, HupStopped,
         HupPluginFails, HupStore, HupRegister, HupEnds, RegistryExits, Shutdown,
         KubeletStops, KubeletStarts, KubeletListens, vars
<1> QED
  BY <1>3, <1>6 DEF PluginStops, RemoveFile

LEMMA SocketsLiveStep ==
    ASSUME Types, Places, SocketsLive, Kept, [Next]_vars
    PROVE  SocketsLive'
<1>1. SUFFICES ASSUME NEW f \in Paths, file'[f] # None
               PROVE  Path[plugins'[file'[f]].name] = f /\ plugins'[file'[f]].state # "stopped"
  BY DEF SocketsLive, Live, Paths
<1>2. file \in [Paths -> 0 .. Len(plugins)] /\ Len(plugins) \in Nat
  BY LenProperties DEF Types, PluginTypes
<1>3. CASE file'[f] = file[f]
  <2> DEFINE p == file[f]
  <2>1. p \in 1 .. Len(plugins)
    BY <1>1, <1>2, <1>3 DEF None
  <2>2. Path[plugins[p].name] = f /\ Live(p)
    BY <1>1, <1>3 DEF SocketsLive
  <2>3. plugins'[p].name = plugins[p].name
    BY <2>1 DEF Kept
  <2>4. ASSUME plugins'[p].state = "stopped" PROVE FALSE
    <3>1. file' = [file EXCEPT ![f] = None]
      BY <2>1, <2>2, <2>4, OwnEnd
    <3> QED
      BY <1>1, <1>2, <3>1
  <2> QED
    BY <1>3, <2>2, <2>3, <2>4
<1>4. CASE file'[f] # file[f] /\ wipes' = wipes
  <2>1. ASSUME RemoveFile(hupName), Path[hupName] = f PROVE FALSE
    BY <1>1, <1>2, <2>1 DEF RemoveFile
  <2>2. ASSUME NEW a \in Adders, AddRemove(a), Path[addName[a]] = f PROVE FALSE
    BY <1>1, <1>2, <2>2 DEF AddRemove, RemoveFile
  <2>3. ASSUME NEW q, PluginStops(q), Path[plugins[q].name] = f PROVE FALSE
    BY <1>1, <1>2, <2>3 DEF PluginStops, RemoveFile
  <2>4. ASSUME NEW a \in Adders, AddListen(a), Path[addName[a]] = f
        PROVE  Path[plugins'[file'[f]].name] = f /\ plugins'[file'[f]].state # "stopped"
    <3>1. /\ file' = [file EXCEPT ![Path[addName[a]]] = Len(plugins')]
          /\ plugins'[Len(plugins')] = [name |-> addName[a], resource |-> a, born |-> wipes,
                                        state |-> "serving"]
      BY <2>4, AddMakes
    <3>2. file'[f] = Len(plugins')
      BY <1>2, <2>4, <3>1
    <3>3. plugins'[file'[f]].name = addName[a] /\ plugins'[file'[f]].state = "serving"
      BY <3>1, <3>2
    <3> QED
      BY <2>4, <3>3
  <2>5. ASSUME HupListen, Path[hupName] = f
        PROVE  Path[plugins'[file'[f]].name] = f /\ plugins'[file'[f]].state # "stopped"
    <3>1. /\ file' = [file EXCEPT ![Path[hupName]] = Len(plugins')]
          /\ plugins'[Len(plugins')] = [name |-> hupName, resource |-> HupResource, born |-> wipes,
                                        state |-> "serving"]
      BY <2>5, HupMakes
    <3>2. file'[f] = Len(plugins')
      BY <1>2, <2>5, <3>1
    <3>3. plugins'[file'[f]].name = hupName /\ plugins'[file'[f]].state = "serving"
      BY <3>1, <3>2
    <3> QED
      BY <2>5, <3>3
  <2>6. \/ \E a \in Adders : (AddRemove(a) \/ AddListen(a)) /\ Path[addName[a]] = f
        \/ (HupStopped \/ HupListen) /\ Path[hupName] = f
        \/ \E q \in 1 .. Len(plugins) : PluginStops(q) /\ Path[plugins[q].name] = f
    BY <1>4, FileChange
  <2> QED
    BY <2>1, <2>2, <2>3, <2>4, <2>5, <2>6 DEF HupStopped
<1>5. CASE wipes' # wipes
  <2>1. KubeletStarts
    BY <1>5
       DEF Next, AddNext, RegistryNext, Hup, AddCall, AddRemove, AddListen, AddPluginFails,
           AddStore, AddLoaded, AddRegister, HupStarts, HupVisit, HupStopped, HupListen,
           HupPluginFails, HupStore, HupRegister, HupEnds, RegistryExits, PluginStops, Shutdown,
           KubeletStops, KubeletListens, vars, kubeletVars
  <2> QED
    BY <1>1, <2>1 DEF KubeletStarts
<1> QED
  BY <1>3, <1>4, <1>5

-----------------------------------------------------------------------------
(* Theorems.                                                               *)

(* The inductive invariant.                                                *)
IInv == Types /\ Places /\ Counted /\ LivePlace /\ SocketOf /\ Answering

LEMMA InitInvariant == Init => IInv
<1> SUFFICES ASSUME Init PROVE IInv
  OBVIOUS
<1>1. Types /\ Places
  BY InitTypes
<1>2. Len(plugins) = 0 /\ events = 0 /\ epoch = 0 /\ awaited = {} /\ hupPc = "select"
  BY EmptySeq DEF Init
<1>3. LivePlace /\ SocketOf /\ Answering
  BY <1>2 DEF LivePlace, SocketOf, Answering
<1>4. Visits = Cardinality(Names) /\ Rounds = -1
  BY <1>2 DEF Visits, Rounds
<1>5. Counted
  <2>1. Cardinality(Names) \in Nat /\ Cardinality(Made) \in Nat
    BY <1>1, CountTypes
  <2>2. Finished = -Cardinality(Names)
    BY <1>4, <2>1 DEF Finished
  <2>3. 0 <= Cardinality(Made) + Finished + Visits
    BY <1>4, <2>1, <2>2
  <2> QED
    BY <1>2, <2>3 DEF Counted
<1> QED
  BY <1>1, <1>3, <1>5 DEF IInv

LEMMA NextInvariant == IInv /\ [Next]_vars => IInv'
<1> SUFFICES ASSUME IInv, [Next]_vars PROVE IInv'
  OBVIOUS
<1>1. Types /\ Places /\ Counted /\ LivePlace /\ SocketOf /\ Answering
  BY DEF IInv
<1>2. Kept /\ EntryKept /\ CallsKept /\ Types' /\ Places'
  BY <1>1, BaseStep
<1>3. Counted' /\ LivePlace' /\ SocketOf' /\ Answering'
  BY <1>1, <1>2, CountedStep, LivePlaceStep, SocketStep, AnsweringStep
<1> QED
  BY <1>2, <1>3 DEF IInv

(* The directory, the map and the goroutines agree, whenever the kubelet   *)
(* starts and however Adds, hup and the plugins' ends interleave.          *)
THEOREM Invariant == Spec => []IInv
BY InitInvariant, NextInvariant, PTL DEF Spec

(* Types are as declared: hup never stores or registers a plugin newPlugin *)
(* has failed to make, and makes at most one for each name and start.      *)
THEOREM TypeCorrect == Spec => []TypeOK
<1>1. IInv => TypeOK
  <2> SUFFICES ASSUME IInv PROVE TypeOK
    OBVIOUS
  <2>1. PluginTypes /\ KubeletTypes /\ CallTypes /\ HupPlace /\ PluginPlace
    BY DEF IInv, Types, Places
  <2>2. Len(plugins) <= MaxPlugins
    BY PluginsBounded DEF IInv
  <2>3. plugins \in Seq([name : Names, resource : Adders, born : 0 .. wipes, state : States])
    <3> DEFINE R == [name : Names, resource : Adders, born : 0 .. wipes, state : States]
    <3>1. plugins \in [1 .. Len(plugins) -> Plugin] /\ Len(plugins) \in Nat
      BY <2>1, LenProperties DEF PluginTypes
    <3>2. ASSUME NEW p \in 1 .. Len(plugins) PROVE plugins[p] \in R
      <4>1. plugins[p] \in Plugin
        BY <3>1
      <4>2. plugins[p].born <= wipes /\ wipes \in Nat
        BY <2>1, RegistryAssumption DEF PluginPlace, KubeletTypes
      <4> QED
        BY <4>1, <4>2 DEF Plugin
    <3> HIDE DEF R
    <3>3. plugins \in [1 .. Len(plugins) -> R]
      BY <3>1, <3>2
    <3>4. plugins \in Seq(R)
      BY <3>1, <3>3, SeqDef
    <3> QED
      BY <3>4 DEF R
  <2> QED
    BY <2>1, <2>2, <2>3 DEF TypeOK, States, PluginTypes, KubeletTypes, CallTypes, HupPlace
<1> QED
  BY <1>1, Invariant, PTL

(* No plugin whose path one Add has asked for loses its socket to another  *)
(* one's end, however names are folded into paths (plugin.go:59-71, 185).  *)
THEOREM SocketsAreServed == Spec => []SocketServed
<1>1. IInv => SocketServed
  <2> SUFFICES ASSUME IInv, NEW n \in Stored, Sole(n), plugins[entry[n]].state = "serving",
                      plugins[entry[n]].born = wipes
               PROVE  Reachable(n)
    BY DEF SocketServed
  <2>1. entry[n] \in 1 .. Len(plugins) /\ plugins[entry[n]].name = n
    BY EntryMade DEF IInv, Types, Places, EntryPlace
  <2> QED
    BY <2>1 DEF IInv, SocketOf, Reachable
<1> QED
  BY <1>1, Invariant, PTL

(* A resource is served by one server at a time: hup's stop waits for the  *)
(* old one, and LoadOrStore leaves a refused Add's to itself.              *)
THEOREM OneServerEach == Spec => []OneServer
<1>1. IInv => OneServer
  <2> SUFFICES ASSUME IInv, NEW p \in DOMAIN plugins, NEW q \in DOMAIN plugins,
                      plugins[p].state = "serving", plugins[q].state = "serving",
                      plugins[p].resource = plugins[q].resource
               PROVE  p = q
    BY DEF OneServer
  <2>1. p \in 1 .. Len(plugins) /\ q \in 1 .. Len(plugins)
    BY LenProperties DEF IInv, Types, PluginTypes
  <2> QED
    BY <2>1, OneLive DEF IInv, Live
<1> QED
  BY <1>1, Invariant, PTL

(* When hup has answered the kubelet's start, every name stored before it  *)
(* whose path one Add has asked for has a new socket, and register has been*)
(* called for it; the names newPlugin failed for by the system's refusal   *)
(* in this round are the only exception (registry.go:84-97): the failure   *)
(* of one spoils no other's, and a file left at its path is never why.     *)
THEOREM RestartsAnswered == Spec => []RestartAnswered
<1>1. IInv => RestartAnswered
  <2> SUFFICES ASSUME IInv, kubelet = "up", events = 0, hupPc = "select", ~ctxDone,
                      NEW n \in awaited \ denied, Sole(n)
               PROVE  Reachable(n) /\ plugins[entry[n]].born = wipes /\ asked[n] = epoch
    BY DEF RestartAnswered
  <2>1. Renewed(n)
    BY DEF IInv, Answering, Underway, Places, HupPlace
  <2>2. n \in Stored
    BY DEF IInv, Types, KubeletTypes
  <2>3. entry[n] \in 1 .. Len(plugins) /\ plugins[entry[n]].name = n
    BY <2>2, EntryMade DEF IInv, Types, Places, EntryPlace
  <2> QED
    BY <2>1, <2>2, <2>3 DEF IInv, SocketOf, Reachable, Renewed, Fresh
<1> QED
  BY <1>1, Invariant, PTL

(* A name never leaves the map and never changes hands: LoadOrStore stores *)
(* only what was not there, and hup's Store a plugin of the same resource. *)
THEOREM NamesKeepResources == Spec => NameKeepsResource
<1>1. IInv /\ [Next]_vars => [\A n \in Stored :
                                 /\ entry'[n] # None
                                 /\ plugins'[entry'[n]].resource = plugins[entry[n]].resource]_vars
  <2> SUFFICES ASSUME IInv, [Next]_vars, NEW n \in Stored
               PROVE  entry'[n] # None /\ plugins'[entry'[n]].resource = plugins[entry[n]].resource
    OBVIOUS
  <2>1. Kept /\ EntryKept
    BY BaseStep DEF IInv
  <2>2. entry[n] \in 1 .. Len(plugins)
    BY EntryMade DEF IInv, Types
  <2>3. CASE entry'[n] = entry[n]
    BY <2>1, <2>2, <2>3 DEF Kept, EntryKept
  <2>4. CASE hupPc = "store" /\ n = hupName /\ entry'[n] = hupNew
    <3>1. hupNew \in 1 .. Len(plugins) /\ plugins[hupNew].resource = plugins[entry[n]].resource
      BY <2>4, LenProperties DEF IInv, Types, PluginTypes, Places, HupPlace, None
    <3> QED
      BY <2>1, <2>4, <3>1 DEF Kept, EntryKept
  <2> QED
    BY <2>1, <2>3, <2>4 DEF EntryKept
<1> QED
  BY <1>1, Invariant, PTL DEF Spec, NameKeepsResource
(* What ShutdownCompletes and every hup rest on: the plugin hup waits for  *)
(* in stop has been cancelled, so its goroutine can close p.stopped; and   *)
(* no plugin, stored or refused, leaves a socket behind when it ends,      *)
(* however its path was taken and wiped meanwhile (plugin.go:178-193).     *)
THEOREM NobodyIsLeftBehind == Spec => [](SocketsLive /\ HupIsHeard)
<1>1. Init => SocketsLive
  BY DEF Init, SocketsLive
<1>2. IInv /\ SocketsLive /\ [Next]_vars => SocketsLive'
  <2> SUFFICES ASSUME IInv, SocketsLive, [Next]_vars PROVE SocketsLive'
    OBVIOUS
  <2> QED
    BY BaseStep, SocketsLiveStep DEF IInv
<1>3. IInv => HupIsHeard
  <2> SUFFICES ASSUME IInv, hupPc = "stop"
               PROVE  plugins[entry[hupName]].state \in {"cancelled", "stopped"}
    BY DEF HupIsHeard
  <2>1. hupName \in Stored /\ plugins[entry[hupName]].state # "serving"
    BY DEF IInv, Places, HupPlace, Replacing
  <2>2. plugins[entry[hupName]] \in Plugin
    BY <2>1, EntryMade DEF IInv, Types
  <2> QED
    BY <2>1, <2>2 DEF Plugin, States
<1> QED
  BY <1>1, <1>2, <1>3, Invariant, PTL DEF Spec
=============================================================================
