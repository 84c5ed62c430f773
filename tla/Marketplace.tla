---------------------------- MODULE Marketplace ----------------------------
(***************************************************************************)
(* Plugins of Codex (src-tauri/src/codex_marketplace.rs, codex_engine.rs): *)
(* a plugin is read or installed by the route that the last plugin/list    *)
(* gave it, and the calls that ask for lists overlap.                      *)
(*                                                                         *)
(* A plugin as Codex lists it is a record: market and name, the path of    *)
(* the market or NoPath, native (its remotePluginId), policy, available,   *)
(* told (whether the entry says that it is available and whether it is     *)
(* installed), clean (whether its names may be shown).                     *)
(***************************************************************************)
EXTENDS Naturals, Sequences, FiniteSets, FiniteSetsExt

CONSTANTS
    Calls,
    Wants,      \* what is asked of the program, one record for each call: kind, market, plugin, confirmed
    Catalogs    \* what the marketplaces offer, as it changes

NoPath == "none"

VARIABLES
    wants,
    changes,    \* how often the offer changed
    installed,  \* what is installed, by native name
    routes,     \* marketplace_routes
    call,       \* what each call is at
    answer,     \* the plugin/list answer it has
    floor       \* the age of the oldest list that was under way when it stored its own

vars == <<wants, changes, installed, routes, call, answer, floor>>

Offer == Catalogs[changes + 1]

\* plugin/list, as Codex answers it now
Listing == [at |-> changes,
            plugins |-> [i \in DOMAIN Offer |-> [offer |-> Offer[i], installed |-> Offer[i].native \in installed]]]

\* What an entry does not say is not as one would like it.
Installable(p) == ~p.installed /\ p.offer.told /\ p.offer.policy = "available" /\ p.offer.available

\* project_catalog: an entry that may not be shown has no route; of two of one
\* name the last one has it.
Shown(p) == p.offer.clean
RouteOf(p, at) ==
    [market |-> p.offer.market, plugin |-> p.offer.plugin, path |-> p.offer.path,
     native |-> IF p.offer.path = NoPath THEN p.offer.native ELSE p.offer.plugin,
     installable |-> Installable(p), at |-> at]

SameName(p, q) == p.offer.market = q.offer.market /\ p.offer.plugin = q.offer.plugin
RoutesOf(listing) ==
    LET plugins == listing.plugins
        shown == {i \in DOMAIN plugins : Shown(plugins[i])}
        last == {i \in shown : \A k \in shown : k > i => ~SameName(plugins[k], plugins[i])}
    IN  {RouteOf(plugins[i], listing.at) : i \in last}

Route(c) == {r \in routes : r.market = wants[c].market /\ r.plugin = wants[c].plugin}

-----------------------------------------------------------------------------
Init ==
    /\ wants \in Wants
    /\ changes = 0
    /\ installed = {}
    /\ routes = {}
    /\ call = [c \in Calls |-> "idle"]
    /\ answer = [c \in Calls |-> [at |-> 0, plugins |-> <<>>]]
    /\ floor = [c \in Calls |-> 0]

Goto(c, to) == call' = [call EXCEPT ![c] = to]
Kind(c) == wants[c].kind

\* marketplace_catalog, which detail and install begin with
Begin(c) ==
    /\ call[c] = "idle" /\ Kind(c) \in {"list", "read", "install"}
    /\ Goto(c, "listing")
    /\ floor' = [floor EXCEPT ![c] = changes]
    /\ UNCHANGED <<wants, changes, installed, routes, answer>>

Answered(c) ==
    /\ call[c] = "listing"
    /\ answer' = [answer EXCEPT ![c] = Listing]
    /\ Goto(c, "listed")
    /\ UNCHANGED <<wants, changes, installed, routes, floor>>

Fails(c) ==
    /\ call[c] \in {"listing", "asked"}
    /\ Goto(c, "failed")
    /\ UNCHANGED <<wants, changes, installed, routes, answer, floor>>

\* Mutant: the routes of the first list are kept.
KeepRoutes(c) == IF routes = {} THEN RoutesOf(answer[c]) ELSE routes
NewRoutes(c) == RoutesOf(answer[c])

UnderWay == {c \in Calls : call[c] \in {"listing", "listed"}}
Store(c) ==
    /\ call[c] = "listed"
    /\ routes' = NewRoutes(c)
    /\ floor' = [floor EXCEPT ![c] = Min({floor[d] : d \in UnderWay})]
    /\ Goto(c, IF Kind(c) = "list" THEN "done" ELSE "stored")
    /\ UNCHANGED <<wants, changes, installed, answer>>

\* read_params and install_params, by whatever routes there are by now
MayInstall(r, c) == r.installable /\ wants[c].confirmed

Refuse(c) ==
    /\ call[c] = "stored"
    /\ \/ Route(c) = {}
       \/ Kind(c) = "install" /\ \E r \in Route(c) : ~MayInstall(r, c)
    /\ Goto(c, "refused")
    /\ UNCHANGED <<wants, changes, installed, routes, answer, floor>>

Ask(c) ==
    /\ call[c] = "stored"
    /\ \E r \in Route(c) :
         /\ Kind(c) = "install" => MayInstall(r, c)
         /\ answer' = [answer EXCEPT ![c] = [at |-> r.at, plugins |-> <<r>>]]
    /\ Goto(c, "asked")
    /\ UNCHANGED <<wants, changes, installed, routes, floor>>

Install(c) ==
    /\ call[c] = "asked"
    /\ installed' = IF Kind(c) = "install" THEN installed \cup {answer[c].plugins[1].native} ELSE installed
    /\ Goto(c, "done")
    /\ UNCHANGED <<wants, changes, routes, answer, floor>>

\* plugin/uninstall goes by the identity alone and needs no route.
Uninstall(c) ==
    /\ call[c] = "idle" /\ Kind(c) = "uninstall"
    /\ installed' = IF wants[c].confirmed THEN installed \ {wants[c].plugin} ELSE installed
    /\ Goto(c, IF wants[c].confirmed THEN "done" ELSE "refused")
    /\ UNCHANGED <<wants, changes, routes, answer, floor>>

\* A marketplace is added, removed or refreshed, by this program or another.
OfferChanges ==
    /\ changes + 1 < Len(Catalogs)
    /\ changes' = changes + 1
    /\ UNCHANGED <<wants, installed, routes, call, answer, floor>>

Next ==
    \/ \E c \in Calls : Begin(c) \/ Answered(c) \/ Fails(c) \/ Store(c) \/ Refuse(c) \/ Ask(c) \/ Install(c) \/ Uninstall(c)
    \/ OfferChanges

Spec == Init /\ [][Next]_vars

-----------------------------------------------------------------------------
\* However the lists of several calls overlap, an install that is sent was
\* confirmed and goes by one entry, said to be available and not installed, of a
\* list no older than those that were under way with its own; and so does a read
\* (marketplace_plugin_install, marketplace_plugin_detail).
RoutesAreCurrent ==
    \A c \in Calls : call[c] = "asked" =>
        LET r == answer[c].plugins[1]
        IN  /\ r.at >= floor[c]
            /\ \E i \in DOMAIN Catalogs[r.at + 1] :
                 LET p == Catalogs[r.at + 1][i]
                 IN  /\ p.market = wants[c].market /\ p.plugin = wants[c].plugin /\ p.path = r.path
                     /\ Kind(c) = "install" => wants[c].confirmed /\ p.told /\ p.available /\ p.policy = "available"
=============================================================================
