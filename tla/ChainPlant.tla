----------------------------- MODULE ChainPlant -----------------------------
(***************************************************************************)
(* The chain model composed with the plants its pulses drive.  A plant's   *)
(* registers and network buffers carry data; the chain's stamps are a      *)
(* shadow of them.  Here a plant's data is the provenance it has: the tick *)
(* of the sensor sample (or of the Feedforward activation) it comes from.  *)
(*   fmu  - process_trigger_events of the lateral-motion FMU: a pass over   *)
(*          the "finished" pulses, then one over the "activated" pulses;    *)
(*   cart - CartPolePlant::doStep: stage after stage down the chain.        *)
(***************************************************************************)
EXTENDS TaskChain

CONSTANT NetworkBuffer   \* NETWORK_BUFFER_SIZE: packets an FMU buffer holds

ASSUME NetworkBufferAssumption == NetworkBuffer \in Nat

VARIABLES fmu, cart

plantVars == <<vars, fmu, cart>>

\* What a merged command is made of: feedback, estimate and feedforward.
NoData == [fb |-> -1, est |-> -1, ff |-> -1]

\* Before the first sample every register holds its initial value.
InitialPlant ==
  [sensComp |-> -1, sensOut |-> -1, scBuffer |-> <<>>, scRec |-> -1,
   estComp |-> -1, estOut |-> -1, fbComp |-> -1, fbOut |-> -1,
   ffComp |-> -1, ffOut |-> -1, aggComp |-> NoData, aggOut |-> NoData,
   caBuffer |-> <<>>, caRec |-> NoData, actIn |-> NoData, actOut |-> NoData]

-----------------------------------------------------------------------------
(* The FMU *)

Push(buffer, packet) ==
  IF Len(buffer) >= NetworkBuffer THEN buffer ELSE Append(buffer, packet)

PopInto(buffer, register) == IF buffer = <<>> THEN register ELSE Head(buffer)

\* Fault: a read advances the head but not the count, so that the packet is read
\* again once the head has gone round the ring.
PoppedComesBack(buffer) ==
  IF buffer = <<>> THEN buffer ELSE Append(Tail(buffer), Head(buffer))

Popped(buffer) == IF buffer = <<>> THEN buffer ELSE Tail(buffer)

\* All concluded jobs copy their result out; the networks receive.
FinishPass(p, t) ==
  [p EXCEPT
    !.sensOut  = IF "sensor_fin" \in t THEN p.sensComp ELSE @,
    !.scRec    = IF "net_sc_recv" \in t THEN PopInto(p.scBuffer, @) ELSE @,
    !.scBuffer = IF "net_sc_recv" \in t THEN Popped(@) ELSE @,
    !.estOut   = IF "est_fin" \in t THEN p.estComp ELSE @,
    !.fbOut    = IF "ctrl_fin" \in t THEN p.fbComp ELSE @,
    !.ffOut    = IF "ff_fin" \in t THEN p.ffComp ELSE @,
    !.aggOut   = IF "merge_fin" \in t THEN p.aggComp ELSE @,
    !.caRec    = IF "net_ca_recv" \in t THEN PopInto(p.caBuffer, @) ELSE @,
    !.caBuffer = IF "net_ca_recv" \in t THEN Popped(@) ELSE @,
    !.actOut   = IF "act_fin" \in t THEN p.actIn ELSE @]

\* All activated jobs read their inputs and compute; the networks send.
ActivatePass(p, t, now) ==
  [p EXCEPT
    !.sensComp = IF "sensor_act" \in t THEN now ELSE @,
    !.scBuffer = IF "net_sc_sent" \in t THEN Push(@, p.sensOut) ELSE @,
    !.estComp  = IF "est_act" \in t THEN p.scRec ELSE @,
    !.fbComp   = IF "ctrl_act" \in t THEN p.estOut ELSE @,
    !.ffComp   = IF "ff_act" \in t THEN now ELSE @,
    !.aggComp  = IF "merge_act" \in t
                   THEN [fb |-> p.fbOut, est |-> p.estOut, ff |-> p.ffOut] ELSE @,
    !.caBuffer = IF "net_ca_sent" \in t THEN Push(@, p.aggOut) ELSE @,
    !.actIn    = IF "act_act" \in t THEN p.caRec ELSE @]

\* Fault: activated jobs read their inputs before results are copied out.
FmuActivateFirst(p, t, now) == FinishPass(ActivatePass(p, t, now), t)

FmuDoStep(p, t, now) == ActivatePass(FinishPass(p, t), t, now)

-----------------------------------------------------------------------------
(* The cart-pole: each stage sees what the stages before it did.  Its merger *)
(* adds feedback and feedforward and does not read the estimate; the         *)
(* estimate's entry is carried along so that commands can be compared.       *)

CartReceive(p, t) ==
  [p EXCEPT
    !.scRec    = IF "net_sc_recv" \in t THEN PopInto(p.scBuffer, @) ELSE @,
    !.scBuffer = IF "net_sc_recv" \in t THEN Popped(@) ELSE @,
    !.caRec    = IF "net_ca_recv" \in t THEN PopInto(p.caBuffer, @) ELSE @,
    !.caBuffer = IF "net_ca_recv" \in t THEN Popped(@) ELSE @]

CartCompute(p, t, now) ==
  LET sensC == IF "sensor_act" \in t THEN now ELSE p.sensComp
      sensO == IF "sensor_fin" \in t THEN sensC ELSE p.sensOut
      estC  == IF "est_act" \in t THEN p.scRec ELSE p.estComp
      estO  == IF "est_fin" \in t THEN estC ELSE p.estOut
      fbC   == IF "ctrl_act" \in t THEN estO ELSE p.fbComp
      fbO   == IF "ctrl_fin" \in t THEN fbC ELSE p.fbOut
      ffC   == IF "ff_act" \in t THEN now ELSE p.ffComp
      ffO   == IF "ff_fin" \in t THEN ffC ELSE p.ffOut
      aggC  == IF "merge_act" \in t THEN [fb |-> fbO, est |-> estO, ff |-> ffO]
               ELSE p.aggComp
      aggO  == IF "merge_fin" \in t THEN aggC ELSE p.aggOut
      actI  == IF "act_act" \in t THEN p.caRec ELSE p.actIn
  IN  [p EXCEPT
        !.sensComp = sensC, !.sensOut = sensO, !.estComp = estC, !.estOut = estO,
        !.fbComp = fbC, !.fbOut = fbO, !.ffComp = ffC, !.ffOut = ffO,
        !.aggComp = aggC, !.aggOut = aggO, !.actIn = actI,
        !.scBuffer = IF "net_sc_sent" \in t THEN Append(@, sensO) ELSE @,
        !.caBuffer = IF "net_ca_sent" \in t THEN Append(@, aggO) ELSE @,
        !.actOut   = IF "act_fin" \in t THEN actI ELSE @]

\* Fault: packets are received after the stages have run.
CartReceiveLast(p, t, now) == CartReceive(CartCompute(p, t, now), t)

CartDoStep(p, t, now) == CartCompute(CartReceive(p, t), t, now)

-----------------------------------------------------------------------------
(* Simulation::step: the scheduler emits the pulses, then every plant steps. *)

PlantInit == Init /\ fmu = InitialPlant /\ cart = InitialPlant

PlantBeginTick == BeginTick /\ UNCHANGED <<fmu, cart>>

PlantEndTick ==
  /\ \E granted \in Grants : EndTick(granted)
  /\ fmu' = FmuDoStep(fmu, trig', step)
  /\ cart' = CartDoStep(cart, trig', step)

PlantNext == PlantBeginTick \/ PlantEndTick

PlantSpec == PlantInit /\ [][PlantNext]_plantVars

-----------------------------------------------------------------------------
(* Properties *)

\* The two provenance conventions read off the data a command was made from.
LineageOf(c) == [stamp |-> Freshest(c.fb, c.est), stampOld |-> OldestValid(c.fb, c.est)]

\* DATA_AGE.md: with fixed delays the stamps are those of the data the FMU really
\* holds, in every register from the sensor to the applied command.
StampsShadowFmu ==
  /\ sensOut = fmu.sensOut /\ scRec = fmu.scRec
  /\ estComp = fmu.estComp /\ estOut = fmu.estOut
  /\ fbComp = fmu.fbComp /\ fbOut = fmu.fbOut
  /\ aggOut = LineageOf(fmu.aggOut) /\ caRec = LineageOf(fmu.caRec)
  /\ actOut = LineageOf(fmu.actOut)

\* FCHANNEL's staleness: ffPubAct is the activation tick of the Feedforward value
\* the FMU has published, whatever was killed, suppressed or delayed on the way.
StalenessShadowsFmu == ffPubAct = fmu.ffOut

\* The cart-pole's stage-by-stage routing carries the same data as the FMU's two
\* passes, register by register, as long as no FMU buffer overflows.
RoutingsAgree == cart = fmu

\* Neither FMU network buffer fills up, so no packet is dropped and the FMU's
\* buffers hold exactly what the chain model has in flight.
NoPacketDropped ==
  /\ Len(fmu.scBuffer) = Len(scReceiveAt) /\ Len(fmu.caBuffer) = Len(caReceiveAt)
  /\ Len(scReceiveAt) < NetworkBuffer /\ Len(caReceiveAt) < NetworkBuffer
=============================================================================
