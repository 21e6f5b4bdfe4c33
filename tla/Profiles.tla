------------------------------ MODULE Profiles ------------------------------
(***************************************************************************)
(* WireGuard and AmneziaWG (providers/wireguard.py): profiles are files in *)
(* two directories, tunnels are interfaces of the kernel, and each of the  *)
(* two providers has to tell which of the interfaces are its own.  Also    *)
(* the Profiles menu (vpn_manager.manage_profiles) that toggles and        *)
(* deletes profiles.                                                       *)
(***************************************************************************)
EXTENDS ListOps, FiniteSets, FiniteSetsExt, Functions

CONSTANTS
  ProfileNames,  \* in the order of sorted(glob("*.conf"))
  StartsWith,    \* pairs of names, the first starts with the second
  Managers,      \* processes with the Profiles menu
  NoIface        \* the interface is not there

Dirs == {"wg", "awg"}
Other(dir) == IF dir = "wg" THEN "awg" ELSE "wg"
Profile == Range(ProfileNames)

\* The link types under which the kernel may report an interface of each tool;
\* "none" is a userspace awg-go, and some amneziawg builds share wireguard's.
LinkTypes == [wg |-> {"wireguard"}, awg |-> {"amneziawg", "wireguard", "none"}]
LinkType  == [wg |-> "wireguard", awg |-> "amneziawg"]
Types == UNION Range(LinkTypes)

ASSUME ProfilesAssumption ==
  /\ ProfileNames \in Seq(Profile) /\ NoIface \notin [tool : Dirs, type : Types]
  /\ StartsWith \subseteq Profile \X Profile
  /\ \A i, j \in DOMAIN ProfileNames : ProfileNames[i] = ProfileNames[j] => i = j

VARIABLES
  conf,     \* the profiles of each directory
  iface,    \* each interface: [tool, type], or NoIface
  enabled,  \* units enabled at boot, <<dir, name>>
  manager   \* each Profiles menu: where it is, its directory, rows, choice, subject

profileVars == <<conf, iface, enabled, manager>>

NotManaging == [at |-> "none", dir |-> "wg", rows |-> <<>>, chosen |-> 0, subject |-> 0]

Reported(dir) ==
  {n \in Profile : iface[n] # NoIface /\ iface[n].type = LinkType[dir]}

\* _extra_active: AmneziaWG looks for the interface of each of its profiles.
Active(dir) ==
  Reported(dir) \cup (IF dir = "awg" THEN {n \in conf["awg"] : iface[n] # NoIface} ELSE {})

\* Mutant: every reported interface without a profile here is ours.
OrphansOfAny(dir) == Reported(dir) \ conf[dir]

\* Interfaces without a profile here, but for those of the other provider.
Orphans(dir) == Reported(dir) \ (conf[dir] \cup conf[Other(dir)])

\* WireGuardProvider.connections
Connections(dir) ==
  LET Row(n) == [name |-> n, active |-> n \in Active(dir)]
      all == Only(ProfileNames, conf[dir]) \o Only(ProfileNames, Orphans(dir))
  IN [i \in DOMAIN all |-> Row(all[i])]

-----------------------------------------------------------------------------
(* wg-quick and awg-quick need the file; they fail without it.             *)

QuickUp(dir, n) ==
  /\ n \in conf[dir] /\ iface[n] = NoIface
  /\ \E type \in LinkTypes[dir] : iface' = [iface EXCEPT ![n] = [tool |-> dir, type |-> type]]
  /\ UNCHANGED <<conf, enabled, manager>>

Down(dir, n) ==
  IF n \in conf[dir] THEN iface' = [iface EXCEPT ![n] = NoIface] ELSE UNCHANGED iface

QuickDown(dir, n) ==
  /\ \E i \in DOMAIN Connections(dir) : Connections(dir)[i] = [name |-> n, active |-> TRUE]
  /\ Down(dir, n)
  /\ UNCHANGED <<conf, enabled, manager>>

\* import_config: never over a file that is there.  A failed chmod is reported,
\* and leaves the copy.
ImportProfile(dir, n) ==
  /\ n \notin conf[dir]
  /\ conf' = [conf EXCEPT ![dir] = @ \cup {n}]
  /\ UNCHANGED <<iface, enabled, manager>>

-----------------------------------------------------------------------------
(* manage_profiles.                                                        *)

SetManager(m, r) == manager' = [manager EXCEPT ![m] = r]

ListProfiles(m, dir) ==
  /\ manager[m] = NotManaging /\ Connections(dir) # <<>>
  /\ SetManager(m, [NotManaging EXCEPT !.at = "choose", !.dir = dir, !.rows = Connections(dir)])
  /\ UNCHANGED <<conf, iface, enabled>>

\* The first row whose name the chosen line starts with.
ChooseProfile(m, i) ==
  LET rows == manager[m].rows
      first == Min({j \in DOMAIN rows : \/ rows[j].name = rows[i].name
                                        \/ <<rows[i].name, rows[j].name>> \in StartsWith})
  IN /\ manager[m].at = "choose" /\ i \in DOMAIN rows
     /\ SetManager(m, [manager[m] EXCEPT !.at = "act", !.chosen = i, !.subject = first])
     /\ UNCHANGED <<conf, iface, enabled>>

Subject(m) == manager[m].rows[manager[m].subject]

ToggleAutostart(m) ==
  LET unit == <<manager[m].dir, Subject(m).name>>
  IN /\ manager[m].at = "act"
     /\ \/ enabled' = IF unit \in enabled THEN enabled \ {unit} ELSE enabled \cup {unit}
        \/ UNCHANGED enabled
     /\ SetManager(m, NotManaging)
     /\ UNCHANGED <<conf, iface>>

\* Refused if the row was active when it was listed.
DeleteConfig(m) ==
  /\ manager[m].at = "act"
  /\ \/ ~Subject(m).active
        /\ conf' = [conf EXCEPT ![manager[m].dir] = @ \ {Subject(m).name}]
     \/ UNCHANGED conf
  /\ SetManager(m, NotManaging)
  /\ UNCHANGED <<iface, enabled>>

DisconnectProfile(m) ==
  /\ manager[m].at = "act" /\ Subject(m).active
  /\ Down(manager[m].dir, Subject(m).name)
  /\ SetManager(m, NotManaging)
  /\ UNCHANGED <<conf, enabled>>

LeaveMenu(m) ==
  /\ manager[m] # NotManaging
  /\ SetManager(m, NotManaging)
  /\ UNCHANGED <<conf, iface, enabled>>

ProfilesInit ==
  /\ conf \in [Dirs -> SUBSET Profile]
  /\ iface = [n \in Profile |-> NoIface]
  /\ enabled = {}
  /\ manager = [m \in Managers |-> NotManaging]

ProfilesNext ==
  \/ \E dir \in Dirs, n \in Profile :
       QuickUp(dir, n) \/ QuickDown(dir, n) \/ ImportProfile(dir, n)
  \/ \E m \in Managers :
       \/ \E dir \in Dirs : ListProfiles(m, dir)
       \/ \E i \in DOMAIN ProfileNames : ChooseProfile(m, i)
       \/ ToggleAutostart(m) \/ DeleteConfig(m) \/ DisconnectProfile(m) \/ LeaveMenu(m)

ProfilesSpec == ProfilesInit /\ [][ProfilesNext]_profileVars

-----------------------------------------------------------------------------

ActiveIn(dir, n) ==
  {i \in DOMAIN Connections(dir) : Connections(dir)[i] = [name |-> n, active |-> TRUE]}

\* Under whatever type the kernel reports it, a tunnel whose profile is there is
\* one active row of its own provider and none of the other's, so it can be seen
\* and disconnected.  Profiles of one name in both directories are taken for one
\* another, and of a tunnel whose profile was deleted meanwhile each provider
\* lists the type it knows: at most one does.
ActiveListedOnce ==
  \A n \in Profile : iface[n] # NoIface =>
    LET own == iface[n].tool
        twins == conf["wg"] \cap conf["awg"]
    IN /\ n \in conf[own] \ twins =>
            Cardinality(ActiveIn(own, n)) = 1 /\ ActiveIn(Other(own), n) = {}
       /\ n \notin conf["wg"] \cup conf["awg"] =>
            Cardinality(ActiveIn("wg", n)) + Cardinality(ActiveIn("awg", n)) <= 1

\* "pick a profile, then autostart/delete" (vpn_manager.py:253): the menu that
\* follows is about the profile that was picked.
ManagesThePicked ==
  \A m \in Managers : manager[m].at = "act" =>
    manager[m].rows[manager[m].chosen].name = Subject(m).name
=============================================================================
