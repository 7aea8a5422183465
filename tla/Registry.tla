------------------------------ MODULE Registry ------------------------------
(***************************************************************************)
(* The plugin registry of internal/plugin/registry.go and the life of a    *)
(* plugin's gRPC server (plugin.go, newPlugin and stop).                   *)
(*                                                                         *)
(* Three kinds of goroutine share the directory of sockets and the map     *)
(* r.plugins: every caller of Add (a scatter), the registry's goroutine,   *)
(* which answers each creation of the kubelet's socket with hup, and one   *)
(* goroutine per plugin, which waits for the end of the plugin's context   *)
(* and then stops the server.  Closing a Unix listener removes whatever    *)
(* file is at its path, also a file that a later listener has made there.  *)
(*                                                                         *)
(* The kubelet is external: a start removes every socket of the directory, *)
(* then creates the kubelet's own, which the watcher reports.              *)
(***************************************************************************)
EXTENDS Integers, Sequences, FiniteSets

CONSTANTS
    Names,          \* the resource names
    Path,           \* the socket path sanitize.BaseName makes of each
    Adders,         \* the calls of Add, each with a resource of its own
    MaxRestarts,    \* bound on the starts of the kubelet
    NoName

ASSUME RegistryAssumption ==
    /\ MaxRestarts \in Nat
    /\ IsFiniteSet(Names) /\ IsFiniteSet(Adders)
    /\ NoName \notin Names
    /\ DOMAIN Path = Names

VARIABLES
    kubelet,        \* "up", "down" or "starting", with the directory wiped
    wipes,          \* number of times the kubelet has wiped the directory
    epoch,          \* number of times the kubelet has created its socket
    events,         \* creations of the kubelet's socket not yet received
    file,           \* the plugin whose listener made the file at each path
    plugins,        \* every plugin made so far; its index is its identity
    entry,          \* r.plugins: the plugin stored under each name
    addPc, addName, addNew,             \* each Add, its name and its plugin
    hupPc, hupName, hupNew, due, seen,  \* the registry's goroutine and its Range
    ctxDone         \* TRUE when the context of the registry is done

VARIABLES           \* history
    awaited,        \* the names stored when the kubelet last made its socket
    denied,         \* the names hup has lately been denied a new plugin for
    asked           \* epoch at which register last ended for each name

kubeletVars == <<kubelet, wipes, epoch, awaited>>
addVars     == <<addPc, addName, addNew>>
hupVars     == <<hupPc, hupName, hupNew, due, seen, denied>>
vars == <<kubeletVars, events, file, plugins, entry, addVars, hupVars, ctxDone, asked>>

None     == 0
Paths    == {Path[n] : n \in Names}
Stored   == {n \in Names : entry[n] # None}
AddPcs   == {"idle", "remove", "listen", "store", "register", "added", "failed"}
HupPcs   == {"select", "range", "stop", "listen", "store", "register", "exited"}
Kubelets == {"up", "down", "starting"}

Init ==
    /\ kubelet \in {"up", "down"}
    /\ wipes = 0
    /\ epoch = 0
    /\ events = 0
    /\ file = [f \in Paths |-> None]
    /\ plugins = <<>>
    /\ entry = [n \in Names |-> None]
    /\ addPc = [a \in Adders |-> "idle"]
    /\ addName = [a \in Adders |-> NoName]
    /\ addNew = [a \in Adders |-> None]
    /\ hupPc = "select"
    /\ hupName = NoName
    /\ hupNew = None
    /\ due = {}
    /\ seen = {}
    /\ ctxDone = FALSE
    /\ awaited = {}
    /\ denied = {}
    /\ asked = [n \in Names |-> -1]

-----------------------------------------------------------------------------
(* The two halves of newPlugin, and register.  Either half may also fail,  *)
(* whatever is at the path: a missing directory, no permission, no         *)
(* descriptor left, a path too long (AddPluginFails, HupPluginFails).      *)

(* os.Remove: whoever made the file at the path of n.                      *)
RemoveFile(n) == file' = [file EXCEPT ![Path[n]] = None]

(* net.Listen needs a path where no file is.  It makes one, and the plugin *)
(* starts its two goroutines; its index is the length of plugins'.         *)
PathIsFree(n) == file[Path[n]] = None

Listen(n, resource) ==
    /\ PathIsFree(n)
    /\ plugins' = Append(plugins, [name |-> n, resource |-> resource,
                                   born |-> wipes, state |-> "serving"])
    /\ file' = [file EXCEPT ![Path[n]] = Len(plugins')]

(* The call reaches a kubelet that accepts it; or it fails: no kubelet, no *)
(* answer in ten seconds, a refusal, or a done context.                    *)
RegisterOk(n) ==
    /\ kubelet = "up"
    /\ ~ctxDone
    /\ asked' = [asked EXCEPT ![n] = epoch]

RegisterFails(n) == asked' = [asked EXCEPT ![n] = epoch]

-----------------------------------------------------------------------------
(* Slips: what the code might say instead, one for each property.          *)

(* hup that goes on with newPlugin's nil plugin.                           *)
HupPluginUnchecked ==
    /\ hupPc = "listen"
    /\ hupNew' = None
    /\ hupPc' = "store"
    /\ UNCHANGED <<file, plugins, kubeletVars, events, entry, addVars, hupName, due,
                   seen, denied, ctxDone, asked>>

(* stop that cancels and does not wait.                                    *)
HupStopUnwaited ==
    /\ hupPc = "stop"
    /\ RemoveFile(hupName)
    /\ hupPc' = "listen"
    /\ UNCHANGED <<kubeletVars, events, plugins, entry, addVars, hupName, hupNew, due,
                   seen, denied, ctxDone, asked>>

(* hup without its old.stop().                                             *)
HupVisitUnstopped(n) ==
    /\ hupPc = "range"
    /\ n \in Stored \ seen
    /\ RemoveFile(n)
    /\ hupPc' = "listen"
    /\ hupName' = n
    /\ seen' = seen \cup {n}
    /\ UNCHANGED <<kubeletVars, events, plugins, entry, addVars, hupNew, due,
                   denied, ctxDone, asked>>

(* hup without its plugins.Store.                                          *)
HupStoreForgotten ==
    /\ hupPc = "store"
    /\ hupPc' = "register"
    /\ UNCHANGED <<kubeletVars, events, file, plugins, entry, addVars, hupName, hupNew,
                   due, seen, denied, ctxDone, asked>>

(* A Store where Add needs the LoadOrStore.                                *)
AddStoreAlways(a) ==
    /\ addPc[a] = "store"
    /\ entry' = [entry EXCEPT ![addName[a]] = addNew[a]]
    /\ addPc' = [addPc EXCEPT ![a] = "register"]
    /\ UNCHANGED <<kubeletVars, events, file, plugins, addName, addNew, hupVars,
                   ctxDone, asked>>

(* A plugin's goroutine that never closes p.stopped.                       *)
PluginStopsUnsaid(p) ==
    /\ p \in DOMAIN plugins
    /\ plugins[p].state = "cancelled" \/ (plugins[p].state = "serving" /\ ctxDone)
    /\ plugins' = [plugins EXCEPT ![p].state = "silent"]
    /\ RemoveFile(plugins[p].name)
    /\ UNCHANGED <<kubeletVars, events, entry, addVars, hupVars, ctxDone, asked>>

(* A plugin whose context is not a child of the registry's.                *)
PluginStopsIfCancelled(p) ==
    /\ p \in DOMAIN plugins
    /\ plugins[p].state = "cancelled"
    /\ plugins' = [plugins EXCEPT ![p].state = "stopped"]
    /\ RemoveFile(plugins[p].name)
    /\ UNCHANGED <<kubeletVars, events, entry, addVars, hupVars, ctxDone, asked>>

-----------------------------------------------------------------------------
(* Add: newPlugin, LoadOrStore, register.                                  *)

AddCall(a) ==
    /\ addPc[a] = "idle"
    /\ \E n \in Names : addName' = [addName EXCEPT ![a] = n]
    /\ addPc' = [addPc EXCEPT ![a] = "remove"]
    /\ UNCHANGED <<kubeletVars, events, file, plugins, entry, addNew, hupVars,
                   ctxDone, asked>>

AddRemove(a) ==
    /\ addPc[a] = "remove"
    /\ RemoveFile(addName[a])
    /\ addPc' = [addPc EXCEPT ![a] = "listen"]
    /\ UNCHANGED <<kubeletVars, events, plugins, entry, addName, addNew, hupVars,
                   ctxDone, asked>>

AddListen(a) ==
    /\ addPc[a] = "listen"
    /\ Listen(addName[a], a)
    /\ addNew' = [addNew EXCEPT ![a] = Len(plugins')]
    /\ addPc' = [addPc EXCEPT ![a] = "store"]
    /\ UNCHANGED <<kubeletVars, events, entry, addName, hupVars, ctxDone, asked>>

(* newPlugin fails, at its os.Remove or at its net.Listen.                 *)
AddPluginFails(a) ==
    /\ addPc[a] \in {"remove", "listen"}
    /\ addPc' = [addPc EXCEPT ![a] = "failed"]
    /\ UNCHANGED <<kubeletVars, events, file, plugins, entry, addName, addNew,
                   hupVars, ctxDone, asked>>

AddStore(a) ==
    /\ addPc[a] = "store"
    /\ entry[addName[a]] = None
    /\ entry' = [entry EXCEPT ![addName[a]] = addNew[a]]
    /\ addPc' = [addPc EXCEPT ![a] = "register"]
    /\ UNCHANGED <<kubeletVars, events, file, plugins, addName, addNew, hupVars,
                   ctxDone, asked>>

(* The name is taken: the new plugin is neither stored nor stopped.        *)
AddLoaded(a) ==
    /\ addPc[a] = "store"
    /\ entry[addName[a]] # None
    /\ addPc' = [addPc EXCEPT ![a] = "failed"]
    /\ UNCHANGED <<kubeletVars, events, file, plugins, entry, addName, addNew,
                   hupVars, ctxDone, asked>>

AddRegister(a) ==
    /\ addPc[a] = "register"
    /\ \/ /\ RegisterOk(addName[a])
          /\ addPc' = [addPc EXCEPT ![a] = "added"]
       \/ /\ RegisterFails(addName[a])
          /\ addPc' = [addPc EXCEPT ![a] = "failed"]
    /\ UNCHANGED <<kubeletVars, events, file, plugins, entry, addName, addNew,
                   hupVars, ctxDone>>

-----------------------------------------------------------------------------
(* The registry's goroutine: its select, and hup.                          *)

(* hup ranges over r.plugins: it meets every key stored when it starts,    *)
(* perhaps keys stored meanwhile, and none twice.                          *)
HupStarts ==
    /\ hupPc = "select"
    /\ events > 0
    /\ events' = events - 1
    /\ due' = Stored
    /\ denied' = {}
    /\ hupPc' = "range"
    /\ UNCHANGED <<kubeletVars, file, plugins, entry, addVars, hupName, hupNew, seen,
                   ctxDone, asked>>

(* The plugin found under the key is cancelled.                            *)
HupVisit(n) ==
    /\ hupPc = "range"
    /\ n \in Stored \ seen
    /\ plugins' = [plugins EXCEPT ![entry[n]].state =
                      IF @ = "serving" THEN "cancelled" ELSE @]
    /\ seen' = seen \cup {n}
    /\ hupName' = n
    /\ hupPc' = "stop"
    /\ UNCHANGED <<kubeletVars, events, file, entry, addVars, hupNew, due,
                   denied, ctxDone, asked>>

(* <-p.stopped; then newPlugin begins with its os.Remove.                  *)
HupStopped ==
    /\ hupPc = "stop"
    /\ plugins[entry[hupName]].state = "stopped"
    /\ RemoveFile(hupName)
    /\ hupPc' = "listen"
    /\ UNCHANGED <<kubeletVars, events, plugins, entry, addVars, hupName, hupNew, due,
                   seen, denied, ctxDone, asked>>

HupListen ==
    /\ hupPc = "listen"
    /\ Listen(hupName, plugins[entry[hupName]].resource)
    /\ hupNew' = Len(plugins')
    /\ hupPc' = "store"
    /\ UNCHANGED <<kubeletVars, events, entry, addVars, hupName, due, seen,
                   denied, ctxDone, asked>>

(* newPlugin fails: the stopped plugin stays in the map.  A name is denied *)
(* when the system refused, and not a file at the path.                    *)
HupPluginFails ==
    /\ hupPc \in {"stop", "listen"}
    /\ plugins[entry[hupName]].state = "stopped"
    /\ hupPc' = "range"
    /\ denied' = IF hupPc = "stop" \/ PathIsFree(hupName) THEN denied \cup {hupName}
                 ELSE denied
    /\ UNCHANGED <<kubeletVars, events, file, plugins, entry, addVars, hupName, hupNew,
                   due, seen, ctxDone, asked>>

HupStore ==
    /\ hupPc = "store"
    /\ entry' = [entry EXCEPT ![hupName] = hupNew]
    /\ hupPc' = "register"
    /\ UNCHANGED <<kubeletVars, events, file, plugins, addVars, hupName, hupNew, due,
                   seen, denied, ctxDone, asked>>

(* A failure is logged, and the Range goes on.                             *)
HupRegister ==
    /\ hupPc = "register"
    /\ RegisterOk(hupName) \/ RegisterFails(hupName)
    /\ hupPc' = "range"
    /\ UNCHANGED <<kubeletVars, events, file, plugins, entry, addVars, hupName, hupNew,
                   due, seen, denied, ctxDone>>

HupEnds ==
    /\ hupPc = "range"
    /\ due \subseteq seen
    /\ hupPc' = "select"
    /\ due' = {} /\ seen' = {}
    /\ hupName' = NoName /\ hupNew' = None
    /\ UNCHANGED <<kubeletVars, events, file, plugins, entry, addVars, denied,
                   ctxDone, asked>>

RegistryExits ==
    /\ hupPc = "select"
    /\ ctxDone
    /\ hupPc' = "exited"
    /\ UNCHANGED <<kubeletVars, events, file, plugins, entry, addVars, hupName, hupNew,
                   due, seen, denied, ctxDone, asked>>

-----------------------------------------------------------------------------
(* The goroutine of a plugin: its context ends, with the registry's or by  *)
(* stop; the server is stopped, the listener closed, the path unlinked and *)
(* p.stopped closed.                                                       *)
PluginStops(p) ==
    /\ p \in DOMAIN plugins
    /\ plugins[p].state = "cancelled" \/ (plugins[p].state = "serving" /\ ctxDone)
    /\ plugins' = [plugins EXCEPT ![p].state = "stopped"]
    /\ RemoveFile(plugins[p].name)
    /\ UNCHANGED <<kubeletVars, events, entry, addVars, hupVars, ctxDone, asked>>

(* main cancels the context.                                               *)
Shutdown ==
    /\ ~ctxDone
    /\ ctxDone' = TRUE
    /\ UNCHANGED <<kubeletVars, events, file, plugins, entry, addVars, hupVars, asked>>

-----------------------------------------------------------------------------
(* The kubelet and the directory watcher (external).                       *)

KubeletStops ==
    /\ kubelet # "down"
    /\ kubelet' = "down"
    /\ UNCHANGED <<wipes, epoch, awaited, events, file, plugins, entry, addVars, hupVars, ctxDone, asked>>

KubeletStarts ==
    /\ kubelet = "down"
    /\ wipes < MaxRestarts
    /\ kubelet' = "starting"
    /\ wipes' = wipes + 1
    /\ file' = [f \in Paths |-> None]
    /\ UNCHANGED <<epoch, awaited, events, plugins, entry, addVars, hupVars, ctxDone, asked>>

KubeletListens ==
    /\ kubelet = "starting"
    /\ kubelet' = "up"
    /\ epoch' = epoch + 1
    /\ events' = events + 1
    /\ awaited' = Stored
    /\ UNCHANGED <<wipes, file, plugins, entry, addVars, hupVars, ctxDone, asked>>

-----------------------------------------------------------------------------
(* Every plugin is made by an Add or by a hup.                             *)
MaxPlugins == Cardinality(Adders) + MaxRestarts * Cardinality(Names)

AddNext(a) ==
    \/ AddRemove(a) \/ AddListen(a) \/ AddPluginFails(a)
    \/ AddStore(a) \/ AddLoaded(a) \/ AddRegister(a)

Hup ==
    \/ \E n \in Names : HupVisit(n)
    \/ HupStopped \/ HupListen \/ HupPluginFails \/ HupStore \/ HupRegister \/ HupEnds

RegistryNext == HupStarts \/ Hup \/ RegistryExits

Next ==
    \/ \E a \in Adders : AddCall(a) \/ AddNext(a)
    \/ RegistryNext
    \/ \E p \in 1 .. MaxPlugins : PluginStops(p)
    \/ Shutdown
    \/ KubeletStops \/ KubeletStarts \/ KubeletListens

Spec == Init /\ [][Next]_vars

(* Goroutines that can run do; nobody must call Add, shut down, or start a *)
(* kubelet.                                                                *)
Fairness ==
    /\ \A a \in Adders : WF_vars(AddNext(a))
    /\ WF_vars(RegistryNext)
    /\ \A p \in 1 .. MaxPlugins : WF_vars(PluginStops(p))

FairSpec == Spec /\ Fairness

-----------------------------------------------------------------------------
(* Properties.                                                             *)

(* Type correctness; a plugin that is stored or registered exists.         *)
TypeOK ==
    /\ kubelet \in Kubelets
    /\ wipes \in 0 .. MaxRestarts
    /\ epoch \in 0 .. wipes
    /\ events \in 0 .. epoch
    /\ plugins \in Seq([name : Names, resource : Adders, born : 0 .. wipes,
                        state : {"serving", "cancelled", "stopped"}])
    /\ Len(plugins) <= MaxPlugins
    /\ file \in [Paths -> 0 .. Len(plugins)]
    /\ entry \in [Names -> 0 .. Len(plugins)]
    /\ addPc \in [Adders -> AddPcs]
    /\ addName \in [Adders -> Names \cup {NoName}]
    /\ addNew \in [Adders -> 0 .. Len(plugins)]
    /\ hupPc \in HupPcs
    /\ hupName \in Names \cup {NoName}
    /\ hupNew \in 0 .. Len(plugins)
    /\ hupPc \in {"store", "register"} => hupNew # None
    /\ due \subseteq Stored
    /\ seen \subseteq Stored
    /\ ctxDone \in BOOLEAN
    /\ awaited \subseteq Stored
    /\ denied \subseteq Stored
    /\ asked \in [Names -> -1 .. epoch]

(* At most one Add has asked for the name's path: a second one, of the     *)
(* same name or of another, takes it from the first one's plugin.          *)
Takes(a, n) == addName[a] # NoName /\ Path[addName[a]] = Path[n]

Sole(n) == \A a, b \in Adders : Takes(a, n) /\ Takes(b, n) => a = b

(* The plugin in the map serves, and can be reached at its path.           *)
Reachable(n) ==
    /\ n \in Stored
    /\ plugins[entry[n]].state = "serving"
    /\ file[Path[n]] = entry[n]

(* No plugin loses its socket to another one's end: unless the kubelet has *)
(* wiped the directory, the listener of a serving plugin in the map is the *)
(* one at its path.                                                        *)
SocketServed ==
    \A n \in Stored :
        /\ Sole(n)
        /\ plugins[entry[n]].state = "serving"
        /\ plugins[entry[n]].born = wipes
        => Reachable(n)

(* A resource is served by one server at a time: hup stops the old plugin  *)
(* before it makes the new one.                                            *)
OneServer ==
    \A p, q \in DOMAIN plugins :
        /\ plugins[p].state = "serving" /\ plugins[q].state = "serving"
        /\ plugins[p].resource = plugins[q].resource
        => p = q

(* When the registry has answered every creation of the kubelet's socket,  *)
(* each name stored before the last one has a fresh socket, and register   *)
(* has been called for it with this kubelet (a failure is only logged).    *)
(* A name denied a new plugin may be left with none: it is the only one.   *)
RestartAnswered ==
    kubelet = "up" /\ events = 0 /\ hupPc = "select" /\ ~ctxDone =>
        \A n \in awaited \ denied :
            Sole(n) =>
                /\ Reachable(n)
                /\ plugins[entry[n]].born = wipes
                /\ asked[n] = epoch

(* A name never leaves the map and never changes hands: a second Add under *)
(* it is refused, and hup renews the plugin of the same resource.          *)
NameKeepsResource ==
    [][\A n \in Stored :
          /\ entry'[n] # None
          /\ plugins'[entry'[n]].resource = plugins[entry[n]].resource]_vars

(* A restarted kubelet is answered: a name stored when the socket appears, *)
(* denied a plugin at an earlier start or not, gets a fresh one, unless it *)
(* is denied one in the last round, a kubelet stops, the registry shuts    *)
(* down or its path is taken twice.                                        *)
RestartIsAnswered ==
    \A n \in Names :
        events > 0 /\ n \in Stored ~>
            \/ Reachable(n) /\ plugins[entry[n]].born = wipes
            \/ events = 0 /\ n \in denied
            \/ kubelet # "up" \/ ctxDone \/ ~Sole(n)

(* main's wg.Wait returns: the registry's goroutine and every plugin's end *)
(* after the context is done, and no plugin leaves its socket behind.      *)
ShutdownCompletes ==
    ctxDone ~> [](/\ hupPc = "exited"
                  /\ \A p \in DOMAIN plugins : plugins[p].state = "stopped"
                  /\ \A f \in Paths : file[f] = None)

(* "Whenever kubelet restarts, the registry will re-register all plugins": *)
(* with the events answered, no name denied a plugin and every Add         *)
(* returned with no error, every plugin has a socket the restarted kubelet *)
(* can reach.                                                              *)
RestartRenewsAll ==
    /\ kubelet = "up" /\ events = 0 /\ hupPc = "select" /\ ~ctxDone /\ denied = {}
    /\ \A a \in Adders : addPc[a] \in {"idle", "added"}
    => \A n \in Stored : Sole(n) => Reachable(n)
=============================================================================
