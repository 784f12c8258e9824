------------------------------ MODULE Upstream ------------------------------
(***************************************************************************)
(* regenUpstream (server/main.go): the workers that are up are read, the   *)
(* list is written to upstream.conf, and nginx is tested and reloaded.  It *)
(* takes no lock, and every handler of module Workers that calls it runs   *)
(* in a goroutine of its own.                                              *)
(***************************************************************************)
EXTENDS Workers

VARIABLES
  regen,      \* [Caller -> phase within regenUpstream and the list it read]
  file,       \* upstream.conf
  nginx,      \* the addresses nginx balances asset downloads over
  spoilt,     \* history: the last to read the table was not alone in
              \* regenUpstream, or its write failed, or a restart cut it off
  unlisted    \* history: addresses that went up or down with no call of
              \* regenUpstream, since one last read the table

upstreamVars == <<regen, file, nginx, spoilt, unlisted>>
vars == <<workersVars, upstreamVars>>

NotBegun == [at |-> "begin", list |-> {}]
Writing(c) == regen[c].at # "begin"

UpstreamInit ==
  /\ WorkersInit
  /\ regen = [c \in Caller |-> NotBegun]
  /\ file = [whole |-> TRUE, list |-> {}]
  /\ nginx = {}
  /\ spoilt = FALSE
  /\ unlisted = {}

ReadUpWorkers(c) ==
  /\ c \in rewriting /\ ~Writing(c)
  /\ regen' = [regen EXCEPT ![c] = [at |-> "read", list |-> UpHosts]]
  /\ spoilt' = \E e \in Caller : Writing(e)
  /\ unlisted' = {}
  /\ UNCHANGED <<workersVars, file, nginx>>

(* os.WriteFile; where another caller has the file open too, one may find  *)
(* it truncated or leave its tail behind what the other wrote.             *)
WriteUpstream(c) ==
  /\ regen[c].at = "read"
  /\ regen' = [regen EXCEPT ![c].at = "written"]
  /\ \/ file' = [whole |-> TRUE, list |-> regen[c].list]
     \/ /\ \E e \in Caller \ {c} : Writing(e)
        /\ file' = [whole |-> FALSE, list |-> {}]
  /\ UNCHANGED <<workersVars, nginx, spoilt, unlisted>>

(* Mutant: the caller goes on while its write is still under way.          *)
WriteFailsLater(c) ==
  /\ regen[c].at = "read"
  /\ Rewritten(c)
  /\ file' = [whole |-> FALSE, list |-> {}]
  /\ spoilt' = TRUE
  /\ UNCHANGED <<regen, nginx, unlisted>>

(* A full disk: the file is left truncated, and nginx is not touched.      *)
WriteFails(c) ==
  /\ regen[c].at = "read"
  /\ Rewritten(c)
  /\ regen' = [regen EXCEPT ![c] = NotBegun]
  /\ file' = [whole |-> FALSE, list |-> {}]
  /\ spoilt' = TRUE
  /\ UNCHANGED <<nginx, unlisted>>

(* nginx -t, and the reload if it passes: not on a truncated or mixed file.*)
ReloadNginx(c) ==
  /\ regen[c].at = "written"
  /\ Rewritten(c)
  /\ regen' = [regen EXCEPT ![c] = NotBegun]
  /\ nginx' = IF file.whole THEN file.list ELSE nginx
  /\ UNCHANGED <<file, spoilt, unlisted>>

(* A worker that was marked down is heard of again at the same address (or *)
(* was deleted between the two statements of Heartbeat), or provisioning   *)
(* puts its status over a worker that is up.                               *)
Unannounced ==
  \/ \E d \in Device :
       /\ HeartbeatRecorded(d) /\ ~beat[d].changed
       /\ \/ row[beat[d].id].status = "absent"
          \/ row[beat[d].id].host = beat[d].host
  \/ \E t \in Task : ProvisionNote(t) \/ ProvisionVerifies(t) \/ ProvisionFails(t)

RegistryMoves ==
  /\ RegistryNext
  /\ unlisted' = IF Unannounced
                   THEN unlisted \cup (UpHosts \ UpHosts') \cup (UpHosts' \ UpHosts)
                   ELSE unlisted
  /\ UNCHANGED <<regen, file, nginx, spoilt>>

(* seed() rewrites the file only on the first boot.                        *)
GatewayRestarts ==
  /\ Restart
  /\ regen' = [c \in Caller |-> NotBegun]
  /\ spoilt' = (spoilt \/ rewriting # {} \/ \E t \in Task : task[t].at = "checking")
  /\ UNCHANGED <<file, nginx, unlisted>>

UpstreamNext ==
  \/ RegistryMoves
  \/ \E c \in Caller : \/ ReadUpWorkers(c)
                       \/ WriteUpstream(c)
                       \/ WriteFails(c)
                       \/ ReloadNginx(c)
  \/ GatewayRestarts

UpstreamSpec == UpstreamInit /\ [][UpstreamNext]_vars

-----------------------------------------------------------------------------

(* Variables have their types, and a handler is in a later part of         *)
(* regenUpstream only while it is in regenUpstream.                        *)
UpstreamTypeOK ==
  /\ WorkersTypeOK
  /\ regen \in [Caller -> [at : {"begin", "read", "written"}, list : SUBSET Address]]
  /\ file \in [whole : BOOLEAN, list : SUBSET Address]
  /\ nginx \subseteq Address /\ unlisted \subseteq Address /\ spoilt \in BOOLEAN
  /\ \A c \in Caller : Writing(c) => c \in rewriting

Quiet == rewriting = {} /\ \A t \in Task : task[t].at # "checking"

(* When no handler is at work, and the last rewrite succeeded and had the  *)
(* file to itself, nginx balances over exactly the addresses of workers    *)
(* that are up, but for those that changed where the code rewrites         *)
(* nothing: a revived worker, or one that is provisioned again (the        *)
(* callers of regenUpstream).                                              *)
UpstreamIsCurrent ==
  Quiet /\ ~spoilt => nginx \ unlisted = UpHosts \ unlisted
=============================================================================
