---------------------------- MODULE HealthRefresh ----------------------------
(***************************************************************************)
(* The health commands of the terminal UI, the lookups they run, and the   *)
(* access to the language model that the lookups and other commands share. *)
(* What a lookup does is its own matter but for the reports it reads and   *)
(* stores: the counting and scheduling of module BulkHealth sees only its  *)
(* answer, and the lookups of module HealthLookup see only when they are   *)
(* started, that their answer is handled, and whether a model can be had.  *)
(* A behaviour therefore shows one side in detail: the uses of the model   *)
(* if somebody uses it in its world, the lookups if somebody looks         *)
(* anything up, the commands otherwise.                                    *)
(***************************************************************************)
EXTENDS BulkHealth, HealthLookup, ModelAccess

vars == <<bulkVars, lookupVars, accessVars>>

RefreshInit ==
    /\ LookupInit
    /\ AccessInit
    /\ Init
    /\ access.callers = {} \/ world.who = {}
    /\ access.callers # {} \/ world.who # {} =>
          health = {} /\ company = CHOOSE c \in Companies : TRUE

CommandSteps ==
    /\ world.who = {} /\ access.callers = {}
    /\ Next
    /\ UNCHANGED <<lookupVars, accessVars>>
LookupSteps == world.who # {} /\ LookupNext /\ UNCHANGED <<bulkVars, accessVars>>
AccessSteps == access.callers # {} /\ AccessNext /\ UNCHANGED <<bulkVars, lookupVars>>

RefreshSpec ==
    RefreshInit /\ [][CommandSteps \/ LookupSteps \/ AccessSteps]_vars /\ WF_bulkVars(Progress)

=============================================================================
