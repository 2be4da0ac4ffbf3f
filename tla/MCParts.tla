------------------------------ MODULE MCParts ------------------------------
(***************************************************************************)
(* The parts of the layer that share no state with one another, in one     *)
(* instance: a behaviour follows one of them from any of its initial       *)
(* states, and the others rest.                                            *)
(***************************************************************************)
EXTENDS MCGovernor, FrameRecording, PresentModes, DeviceCreation, PipelineCompile, Registry,
        SwapchainResources, TLC

VARIABLE part

governorVars == <<vars, watch>>
partsVars == <<part, governorVars, recordingVars, modesVars, creationVars, compileVars, registryVars,
               resourceVars>>

\* Two families with two queues each, the first of them with graphics.
MCCount == (1 :> 2) @@ (2 :> 2)

Follow(name, rest) == part = name \/ rest

OneRequest ==
    [queues |-> [f \in Families |-> [plain |-> IF f = 1 THEN 1 ELSE 0, protected |-> 0]],
     int16 |-> FALSE, chain |-> "plain"]

PartsInit ==
    /\ part \in {"governor", "recording", "modes", "device", "compile", "registry", "resources"}
    /\ Follow("recording", kind = [flow |-> FALSE, ingest |-> FALSE, replay |-> FALSE])
    /\ Follow("modes", asked = [mode |-> "mailbox", chain |-> <<>>, list |-> {}] /\ compatible = {})
    /\ Follow("device", app = OneRequest /\ refuses = {} /\ offers = {})
    /\ Follow("registry", key = [d \in Devices |-> CHOOSE k \in Keys : TRUE])
    /\ Follow("resources", wants = CHOOSE w \in Wants : Useful(w) /\ ~w.interpolate)
    /\ ResourcesInit
    /\ WatchInit /\ RecordingInit /\ ModesInit /\ CreationInit /\ CompileInit /\ RegistryInit

PartsNext ==
    /\ UNCHANGED part
    /\ \/ /\ part = "governor" /\ WatchNext
          /\ UNCHANGED <<recordingVars, modesVars, creationVars,
                         compileVars, registryVars, resourceVars>>
       \/ /\ part = "recording" /\ RecordingNext
          /\ UNCHANGED <<governorVars, modesVars, creationVars,
                         compileVars, registryVars, resourceVars>>
       \/ /\ part = "modes" /\ ModesNext
          /\ UNCHANGED <<governorVars, recordingVars, creationVars,
                         compileVars, registryVars, resourceVars>>
       \/ /\ part = "device" /\ CreationNext
          /\ UNCHANGED <<governorVars, recordingVars, modesVars,
                         compileVars, registryVars, resourceVars>>
       \/ /\ part = "compile" /\ CompileNext
          /\ UNCHANGED <<governorVars, recordingVars, modesVars,
                         creationVars, registryVars, resourceVars>>
       \/ /\ part = "registry" /\ RegistryNext
          /\ UNCHANGED <<governorVars, recordingVars, modesVars,
                         creationVars, compileVars, resourceVars>>
       \/ /\ part = "resources" /\ ResourcesNext
          /\ UNCHANGED <<governorVars, recordingVars, modesVars,
                         creationVars, compileVars, registryVars>>

\* A governor that is followed is asked for ever.
Governed(A) == part = "governor" /\ A
PartsFairness ==
    WF_vars(Governed(Cadence)) /\ WF_vars(Governed(Measure)) /\ WF_vars(Governed(Ask))

PartsSpec == PartsInit /\ [][PartsNext]_partsVars /\ PartsFairness
=============================================================================
