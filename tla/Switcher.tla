------------------------------ MODULE Switcher ------------------------------
(***************************************************************************)
(* Switcher in proxy/frontend_switcher.go: a file names the proxy that is  *)
(* the master; requests are handled by a remote proxy of that address, or  *)
(* here while there is none.  The file is read every five seconds; between *)
(* the reading and the change it may have been written again.              *)
(***************************************************************************)
CONSTANTS
  Masters,      \* valid addresses
  NoMaster,     \* no file, or an empty one; also: no remote proxy
  BadMaster     \* a file that cannot be read or holds no valid address

ASSUME SwitcherAssumption == {NoMaster, BadMaster} \cap Masters = {} /\ NoMaster # BadMaster

VARIABLES
  file,         \* what the file says
  read,         \* what start has read and not yet applied
  poll,         \* start: "off", "sleep", "apply"
  address,      \* s.addr
  remote        \* the address that s.remote was made for

switcherVars == <<file, read, poll, address, remote>>

SwitcherInit ==
  /\ file = NoMaster /\ read = NoMaster /\ poll = "off"
  /\ address = NoMaster /\ remote = NoMaster

\* start, with a master file configured.
Start ==
  /\ poll = "off"
  /\ poll' = "sleep"
  /\ UNCHANGED <<file, read, address, remote>>

ReadFile ==
  /\ poll = "sleep"
  /\ poll' = "apply" /\ read' = file
  /\ UNCHANGED <<file, address, remote>>

\* Fault: the address is remembered when there is no master any more.
clear_KeepsAddress == remote' = NoMaster /\ UNCHANGED address

clear == remote' = NoMaster /\ address' = NoMaster

\* readConfig after the file was read.  A new remote proxy is made only for
\* another address.
readConfig ==
  /\ poll = "apply"
  /\ \/ read = NoMaster /\ clear
     \/ read \in {BadMaster, address} \ {NoMaster} /\ UNCHANGED <<address, remote>>
     \/ read \in Masters \ {address} /\ address' = read /\ remote' = read
  /\ poll' = "sleep"
  /\ UNCHANGED <<file, read>>

WriteMaster ==
  /\ file' \in (Masters \cup {NoMaster, BadMaster}) \ {file}
  /\ UNCHANGED <<read, poll, address, remote>>

SwitcherNext == Start \/ ReadFile \/ readConfig \/ WriteMaster

SwitcherSpec == SwitcherInit /\ [][SwitcherNext]_switcherVars

-----------------------------------------------------------------------------
\* Requests go where the file said when it was last read, whatever it said
\* before; also to a master that was withdrawn and comes back.
MasterFollowed == poll = "sleep" /\ read # BadMaster => remote = read
=============================================================================
