------------------------ MODULE Sm5714BatteryProofs ------------------------
(***************************************************************************)
(* Proofs about Sm5714Battery: type correctness, and the arbitration of    *)
(* the battery path by chg_lock and the global lock, for every set of      *)
(* temperatures, contracts, sources and callers, with and without failing  *)
(* register accesses.                                                      *)
(***************************************************************************)
EXTENDS Sm5714Battery, TLAPS

USE DEF env, muic, regs, flags, power, locks, locals

-----------------------------------------------------------------------------
(* Type correctness.                                                       *)

\* The currents configure_charging chooses are natural numbers.
LEMMA BudgetType ==
    ASSUME typec \in [mv : Nat, ma : Nat], NEW u, NEW th
    PROVE  Budget(u, th) \in [input : Nat, fast : Nat]
<1>1. SourceBudget(u) \in [input : Nat, fast : Nat]
  BY DEF SourceBudget, MinOf
<1> QED
  BY <1>1 DEF Budget, MinOf

\* The thermal band computed from a band and a temperature is a band.
LEMMA ThermalType ==
    ASSUME NEW cur, NEW t
    PROVE  ChargeThermalState(cur, t) \in Thermals
  BY DEF ChargeThermalState, Thermals

\* The places a thread goes to are labels.
LEMMA LabelFacts ==
    {"idle", "unlock", "c_lock", "d_open", "o_muic", "o_charge",
     "c_stop", "c_lower", "c_fast", "c_close", "c_raise",
     "o_open", "o_boost", "o_flag", "o_undo", "o_clear",
     "probe", "p_queue", "p_thermal", "p_status", "p_recover", "p_book"} \subseteq Labels
  BY DEF Labels, ConfigureBody, OtgBody, PollLabels

\* The Boolean registers and flags stay Boolean.
LEMMA SwitchesNext == SwitchesOK /\ [Next]_vars => SwitchesOK'
<1> SUFFICES ASSUME SwitchesOK, Next PROVE SwitchesOK'
  BY DEF SwitchesOK, vars
<1> USE DEF SwitchesOK
<1>1. ASSUME NEW t \in Threads, ConfigureBegin(t) PROVE SwitchesOK'
  BY <1>1 DEF ConfigureBegin
<1>2. ASSUME NEW t \in Threads, ConfigureStop(t) PROVE SwitchesOK'
  BY <1>2 DEF ConfigureStop, LeaveConfigure
<1>3. ASSUME NEW t \in Threads, ConfigureError(t) PROVE SwitchesOK'
  BY <1>3 DEF ConfigureError, LeaveConfigure
<1>4. ASSUME NEW t \in Threads, ConfigureLower(t) PROVE SwitchesOK'
  BY <1>4 DEF ConfigureLower
<1>5. ASSUME NEW t \in Threads, ConfigureFast(t) PROVE SwitchesOK'
  BY <1>5 DEF ConfigureFast
<1>6. ASSUME NEW t \in Threads, ConfigureClose(t) PROVE SwitchesOK'
  BY <1>6 DEF ConfigureClose
<1>7. ASSUME NEW t \in Threads, ConfigureRaise(t) PROVE SwitchesOK'
  BY <1>7 DEF ConfigureRaise, LeaveConfigure
<1>8. ASSUME NEW t \in Threads, Unlock(t) PROVE SwitchesOK'
  BY <1>8 DEF Unlock
<1>9. ASSUME NEW c \in Contracts, SetPdContract(c) PROVE SwitchesOK'
  BY <1>9 DEF SetPdContract
<1>10. CASE SetDirectOn
  BY <1>10 DEF SetDirectOn
<1>11. CASE SetDirectOpen
  BY <1>11 DEF SetDirectOpen
<1>12. CASE SetDirectOff
  BY <1>12 DEF SetDirectOff
<1>13. CASE SetOtgOn
  BY <1>13 DEF SetOtgOn
<1>14. CASE SetOtgMuic
  BY <1>14 DEF SetOtgMuic, MuicManual, MuicManualFailed
<1>15. CASE SetOtgOpen
  BY <1>15 DEF SetOtgOpen
<1>16. CASE SetOtgBoost
  BY <1>16 DEF SetOtgBoost
<1>17. CASE SetOtgFlag
  BY <1>17 DEF SetOtgFlag
<1>18. CASE SetOtgUndo
  BY <1>18 DEF SetOtgUndo, MuicAuto, MuicAutoFailed
<1>19. CASE SetOtgOff
  BY <1>19 DEF SetOtgOff
<1>20. CASE SetOtgCharge
  BY <1>20 DEF SetOtgCharge
<1>21. CASE SetOtgClear
  BY <1>21 DEF SetOtgClear, MuicAuto, MuicAutoFailed
<1>22. CASE FastChargeStore
  BY <1>22 DEF FastChargeStore
<1>23. CASE Probe
  BY <1>23 DEF Probe, GetOnline
<1>24. CASE ProbeQueue
  BY <1>24 DEF ProbeQueue
<1>25. CASE PollSample
  BY <1>25 DEF PollSample
<1>26. CASE PollThermal
  BY <1>26 DEF PollThermal
<1>27. CASE PollStatus
  BY <1>27 DEF PollStatus
<1>28. CASE PollRecover
  BY <1>28 DEF PollRecover
<1>29. CASE PollBook
  BY <1>29 DEF PollBook
<1>30. CASE Suspend
  BY <1>30 DEF Suspend
<1>31. CASE Resume
  BY <1>31 DEF Resume
<1>32. CASE Plug
  BY <1>32 DEF Plug
<1>33. CASE Unplug
  BY <1>33 DEF Unplug
<1>34. CASE TempChange
  BY <1>34 DEF TempChange
<1> QED
  BY <1>1, <1>2, <1>3, <1>4, <1>5, <1>6, <1>7, <1>8, <1>9, <1>10, <1>11,
     <1>12, <1>13, <1>14, <1>15, <1>16, <1>17, <1>18, <1>19, <1>20, <1>21,
     <1>22, <1>23, <1>24, <1>25, <1>26, <1>27, <1>28, <1>29, <1>30, <1>31,
     <1>32, <1>33, <1>34
  DEF Next, NextButDcCall, TcpmCall, DcCall, TcpmInside, DcInside, SysfsInside,
      PollInside, Configure, SetOtgInside, Poll, Environment, Threads

\* The samples of a poll pass are well-formed.
LEMMA SnapType ==
    ASSUME NEW on \in {"yes", "no", "error"}, NEW b \in BOOLEAN, NEW th \in Thermals
    PROVE  [online |-> on, idle |-> b, old |-> th]
             \in [online : {"yes", "no", "error"}, idle : BOOLEAN, old : Thermals]
  OBVIOUS

\* Values keep their types.
LEMMA ValuesNext == ValuesOK /\ [Next]_vars => ValuesOK'
<1> SUFFICES ASSUME ValuesOK, Next PROVE ValuesOK'
  BY DEF ValuesOK, vars
<1> USE DEF ValuesOK
<1>1. ASSUME NEW t \in Threads, ConfigureBegin(t) PROVE ValuesOK'
  <2>1. thermal' \in Thermals /\ job' \in [input : Nat, fast : Nat]
    BY <1>1, BudgetType, ThermalType DEF ConfigureBegin, NoJob
  <2> QED
    BY <1>1, <2>1 DEF ConfigureBegin
<1>2. ASSUME NEW t \in Threads, ConfigureStop(t) PROVE ValuesOK'
  BY <1>2 DEF ConfigureStop, LeaveConfigure, NoJob
<1>3. ASSUME NEW t \in Threads, ConfigureError(t) PROVE ValuesOK'
  BY <1>3 DEF ConfigureError, LeaveConfigure, NoJob
<1>4. ASSUME NEW t \in Threads, ConfigureLower(t) PROVE ValuesOK'
  BY <1>4 DEF ConfigureLower
<1>5. ASSUME NEW t \in Threads, ConfigureFast(t) PROVE ValuesOK'
  BY <1>5 DEF ConfigureFast
<1>6. ASSUME NEW t \in Threads, ConfigureClose(t) PROVE ValuesOK'
  BY <1>6 DEF ConfigureClose
<1>7. ASSUME NEW t \in Threads, ConfigureRaise(t) PROVE ValuesOK'
  BY <1>7 DEF ConfigureRaise, LeaveConfigure, NoJob
<1>8. ASSUME NEW t \in Threads, Unlock(t) PROVE ValuesOK'
  BY <1>8 DEF Unlock
<1>9. ASSUME NEW c \in Contracts, SetPdContract(c) PROVE ValuesOK'
  BY <1>9, ContractsAssumption DEF SetPdContract
<1>10. CASE SetDirectOn
  BY <1>10 DEF SetDirectOn
<1>11. CASE SetDirectOpen
  BY <1>11 DEF SetDirectOpen
<1>12. CASE SetDirectOff
  BY <1>12 DEF SetDirectOff
<1>13. CASE SetOtgOn
  BY <1>13 DEF SetOtgOn
<1>14. CASE SetOtgMuic
  BY <1>14 DEF SetOtgMuic
<1>15. CASE SetOtgOpen
  BY <1>15 DEF SetOtgOpen
<1>16. CASE SetOtgBoost
  BY <1>16 DEF SetOtgBoost
<1>17. CASE SetOtgFlag
  BY <1>17 DEF SetOtgFlag
<1>18. CASE SetOtgUndo
  BY <1>18 DEF SetOtgUndo
<1>19. CASE SetOtgOff
  BY <1>19 DEF SetOtgOff
<1>20. CASE SetOtgCharge
  BY <1>20 DEF SetOtgCharge
<1>21. CASE SetOtgClear
  BY <1>21 DEF SetOtgClear
<1>22. CASE FastChargeStore
  BY <1>22 DEF FastChargeStore
<1>23. CASE Probe
  BY <1>23 DEF Probe
<1>24. CASE ProbeQueue
  BY <1>24 DEF ProbeQueue
<1>25. CASE PollSample
  <2>1. \A b : GetStatusNotCharging(b) \in BOOLEAN
    BY DEF GetStatusNotCharging
  <2>2. snap' \in [online : {"yes", "no", "error"}, idle : BOOLEAN, old : Thermals]
    <3>1. thermal \in Thermals
      OBVIOUS
    <3>2. PICK b \in ChgOn :
            \/ snap' = [online |-> IF GetOnline THEN "yes" ELSE "no",
                        idle |-> GetStatusNotCharging(b), old |-> thermal]
            \/ \E on \in {"error", IF GetOnline THEN "yes" ELSE "no"} :
                  snap' = [online |-> on, idle |-> FALSE, old |-> thermal]
      BY <1>25 DEF PollSample
    <3>3. GetStatusNotCharging(b) \in BOOLEAN
      BY <2>1
    <3>4. (IF GetOnline THEN "yes" ELSE "no") \in {"yes", "no", "error"}
      OBVIOUS
    <3>5. \A on \in {"yes", "no", "error"}, i \in BOOLEAN :
            [online |-> on, idle |-> i, old |-> thermal]
              \in [online : {"yes", "no", "error"}, idle : BOOLEAN, old : Thermals]
      BY <3>1, SnapType
    <3> HIDE DEF ValuesOK
    <3>6. CASE snap' = [online |-> IF GetOnline THEN "yes" ELSE "no",
                        idle |-> GetStatusNotCharging(b), old |-> thermal]
      BY <3>3, <3>4, <3>5, <3>6, Zenon
    <3>7. CASE \E on \in {"error", IF GetOnline THEN "yes" ELSE "no"} :
                 snap' = [online |-> on, idle |-> FALSE, old |-> thermal]
      BY <3>4, <3>5, <3>7, Zenon
    <3> QED
      BY <3>2, <3>6, <3>7, Zenon
  <2> QED
    BY <1>25, <2>2 DEF PollSample
<1>26. CASE PollThermal
  BY <1>26, ThermalType DEF PollThermal
<1>27. CASE PollStatus
  <2>1. \A b : GetStatusNotCharging(b) \in BOOLEAN
    BY DEF GetStatusNotCharging
  <2>2. snap' \in [online : {"yes", "no", "error"}, idle : BOOLEAN, old : Thermals]
    BY <1>27, <2>1 DEF PollStatus
  <2> QED
    BY <1>27, <2>2 DEF PollStatus
<1>28. CASE PollRecover
  BY <1>28 DEF PollRecover
<1>29. CASE PollBook
  BY <1>29 DEF PollBook, NoSnap, Thermals
<1>30. CASE Suspend
  BY <1>30 DEF Suspend
<1>31. CASE Resume
  BY <1>31 DEF Resume
<1>32. CASE Plug
  BY <1>32 DEF Plug
<1>33. CASE Unplug
  BY <1>33 DEF Unplug
<1>34. CASE TempChange
  BY <1>34 DEF TempChange
<1> QED
  BY <1>1, <1>2, <1>3, <1>4, <1>5, <1>6, <1>7, <1>8, <1>9, <1>10, <1>11,
     <1>12, <1>13, <1>14, <1>15, <1>16, <1>17, <1>18, <1>19, <1>20, <1>21,
     <1>22, <1>23, <1>24, <1>25, <1>26, <1>27, <1>28, <1>29, <1>30, <1>31,
     <1>32, <1>33, <1>34
  DEF Next, NextButDcCall, TcpmCall, DcCall, TcpmInside, DcInside, SysfsInside,
      PollInside, Configure, SetOtgInside, Poll, Environment, Threads

\* Threads stay at labels and locks keep their holders' type.
LEMMA ThreadsNext == ThreadsOK /\ [Next]_vars => ThreadsOK'
<1> SUFFICES ASSUME ThreadsOK, Next PROVE ThreadsOK'
  BY DEF ThreadsOK, vars
<1> USE LabelFacts DEF ThreadsOK, Goto, CallConfigure, Return, LeaveConfigure
<1>1. ASSUME NEW t \in Threads, ConfigureBegin(t) PROVE ThreadsOK'
  BY <1>1 DEF ConfigureBegin
<1>2. ASSUME NEW t \in Threads, ConfigureStop(t) PROVE ThreadsOK'
  BY <1>2 DEF ConfigureStop
<1>3. ASSUME NEW t \in Threads, ConfigureError(t) PROVE ThreadsOK'
  BY <1>3 DEF ConfigureError
<1>4. ASSUME NEW t \in Threads, ConfigureLower(t) PROVE ThreadsOK'
  BY <1>4 DEF ConfigureLower
<1>5. ASSUME NEW t \in Threads, ConfigureFast(t) PROVE ThreadsOK'
  BY <1>5 DEF ConfigureFast
<1>6. ASSUME NEW t \in Threads, ConfigureClose(t) PROVE ThreadsOK'
  BY <1>6 DEF ConfigureClose
<1>7. ASSUME NEW t \in Threads, ConfigureRaise(t) PROVE ThreadsOK'
  BY <1>7 DEF ConfigureRaise
<1>8. ASSUME NEW t \in Threads, Unlock(t) PROVE ThreadsOK'
  BY <1>8 DEF Unlock
<1>9. ASSUME NEW c \in Contracts, SetPdContract(c) PROVE ThreadsOK'
  BY <1>9 DEF SetPdContract, Threads, CallConfigure
<1>10. CASE SetDirectOn
  BY <1>10 DEF SetDirectOn, Threads
<1>11. CASE SetDirectOpen
  BY <1>11 DEF SetDirectOpen, Threads
<1>12. CASE SetDirectOff
  BY <1>12 DEF SetDirectOff, Threads
<1>13. CASE SetOtgOn
  BY <1>13 DEF SetOtgOn, Threads
<1>14. CASE SetOtgMuic
  BY <1>14 DEF SetOtgMuic, Threads
<1>15. CASE SetOtgOpen
  BY <1>15 DEF SetOtgOpen, Threads
<1>16. CASE SetOtgBoost
  BY <1>16 DEF SetOtgBoost, Threads
<1>17. CASE SetOtgFlag
  BY <1>17 DEF SetOtgFlag, Threads
<1>18. CASE SetOtgUndo
  BY <1>18 DEF SetOtgUndo, Threads
<1>19. CASE SetOtgOff
  BY <1>19 DEF SetOtgOff, Threads
<1>20. CASE SetOtgCharge
  BY <1>20 DEF SetOtgCharge, Threads
<1>21. CASE SetOtgClear
  BY <1>21 DEF SetOtgClear, Threads
<1>22. CASE FastChargeStore
  BY <1>22 DEF FastChargeStore
<1>23. CASE Probe
  BY <1>23 DEF Probe
<1>24. CASE ProbeQueue
  BY <1>24 DEF ProbeQueue
<1>25. CASE PollSample
  BY <1>25 DEF PollSample
<1>26. CASE PollThermal
  BY <1>26 DEF PollThermal
<1>27. CASE PollStatus
  BY <1>27 DEF PollStatus
<1>28. CASE PollRecover
  BY <1>28 DEF PollRecover
<1>29. CASE PollBook
  BY <1>29 DEF PollBook
<1>30. CASE Suspend
  BY <1>30 DEF Suspend
<1>31. CASE Resume
  BY <1>31 DEF Resume
<1>32. CASE Plug
  BY <1>32 DEF Plug
<1>33. CASE Unplug
  BY <1>33 DEF Unplug
<1>34. CASE TempChange
  BY <1>34 DEF TempChange
<1> QED
  BY <1>1, <1>2, <1>3, <1>4, <1>5, <1>6, <1>7, <1>8, <1>9, <1>10, <1>11,
     <1>12, <1>13, <1>14, <1>15, <1>16, <1>17, <1>18, <1>19, <1>20, <1>21,
     <1>22, <1>23, <1>24, <1>25, <1>26, <1>27, <1>28, <1>29, <1>30, <1>31,
     <1>32, <1>33, <1>34
  DEF Next, NextButDcCall, TcpmCall, DcCall, TcpmInside, DcInside, SysfsInside,
      PollInside, Configure, SetOtgInside, Poll, Environment, Threads

\* A probed driver's state has its types.
LEMMA TypeInit == Init => TypeOK
<1> SUFFICES ASSUME Init PROVE TypeOK
  OBVIOUS
<1>1. pc \in [Threads -> Labels] /\ ret \in [Threads -> Labels]
  BY LabelFacts DEF Init
<1>2. job \in [input : Nat, fast : Nat]
  BY DEF Init, NoJob
<1>3. snap \in [online : {"yes", "no", "error"}, idle : BOOLEAN, old : Thermals]
  BY DEF Init, NoSnap, Thermals
<1>4. typec \in [mv : Nat, ma : Nat] /\ inputMa \in Nat /\ fastMa \in Nat
  BY DEF Init
<1>5. /\ thermal \in Thermals
      /\ globalLock \in Threads \cup {Nobody} /\ chgLock \in Threads \cup {Nobody}
  BY DEF Init, Thermals
<1> QED
  BY <1>1, <1>2, <1>3, <1>4, <1>5 DEF Init, TypeOK, SwitchesOK, ValuesOK, ThreadsOK

\* The driver keeps its types, whatever the callers, the sources and the
\* register accesses do.
THEOREM TypeCorrect == Spec => []TypeOK
<1>1. TypeOK /\ [Next]_vars => TypeOK'
  BY SwitchesNext, ValuesNext, ThreadsNext DEF TypeOK
<1> QED
  BY TypeInit, <1>1, PTL DEF Spec
-----------------------------------------------------------------------------
(* The arbitration of the battery path.                                    *)

\* Every step of every thread preserves the fit of registers, flags and locks.
LEMMA ArbitrationNext == ThreadsOK /\ Arbitration /\ [Next]_vars => Arbitration'
<1> SUFFICES ASSUME ThreadsOK, Arbitration, Next PROVE Arbitration'
  BY DEF Arbitration, LockDiscipline, BoostProgress, LowInputBeforeClose,
         PdUpdateRespectsDirect, vars
<1> USE DEF ThreadsOK, Arbitration, LockDiscipline, BoostProgress,
            LowInputBeforeClose, PdUpdateRespectsDirect, ReturnLabels,
            ConfigureBody, OtgBody, Threads, Nobody, Goto, CallConfigure, Return,
            LeaveConfigure, MayEnter, MayCall
<1>1. ASSUME NEW t \in Threads, ConfigureBegin(t) PROVE Arbitration'
  BY <1>1 DEF ConfigureBegin
<1>2. ASSUME NEW t \in Threads, ConfigureStop(t) PROVE Arbitration'
  BY <1>2 DEF ConfigureStop
<1>3. ASSUME NEW t \in Threads, ConfigureError(t) PROVE Arbitration'
  BY <1>3 DEF ConfigureError
<1>4. ASSUME NEW t \in Threads, ConfigureLower(t) PROVE Arbitration'
  BY <1>4 DEF ConfigureLower
<1>5. ASSUME NEW t \in Threads, ConfigureFast(t) PROVE Arbitration'
  BY <1>5 DEF ConfigureFast
<1>6. ASSUME NEW t \in Threads, ConfigureClose(t) PROVE Arbitration'
  BY <1>6 DEF ConfigureClose
<1>7. ASSUME NEW t \in Threads, ConfigureRaise(t) PROVE Arbitration'
  BY <1>7 DEF ConfigureRaise
<1>8. ASSUME NEW t \in Threads, Unlock(t) PROVE Arbitration'
  BY <1>8 DEF Unlock
<1>9. ASSUME NEW c \in Contracts, SetPdContract(c) PROVE Arbitration'
  BY <1>9 DEF SetPdContract
<1>10. CASE SetDirectOn
  BY <1>10 DEF SetDirectOn
<1>11. CASE SetDirectOpen
  BY <1>11 DEF SetDirectOpen
<1>12. CASE SetDirectOff
  BY <1>12 DEF SetDirectOff
<1>13. CASE SetOtgOn
  BY <1>13 DEF SetOtgOn
<1>14. CASE SetOtgMuic
  BY <1>14 DEF SetOtgMuic
<1>15. CASE SetOtgOpen
  BY <1>15 DEF SetOtgOpen
<1>16. CASE SetOtgBoost
  BY <1>16 DEF SetOtgBoost
<1>17. CASE SetOtgFlag
  BY <1>17 DEF SetOtgFlag
<1>18. CASE SetOtgUndo
  BY <1>18 DEF SetOtgUndo
<1>19. CASE SetOtgOff
  BY <1>19 DEF SetOtgOff
<1>20. CASE SetOtgCharge
  BY <1>20 DEF SetOtgCharge
<1>21. CASE SetOtgClear
  BY <1>21 DEF SetOtgClear
<1>22. CASE FastChargeStore
  BY <1>22 DEF FastChargeStore
<1>23. CASE Probe
  BY <1>23 DEF Probe
<1>24. CASE ProbeQueue
  BY <1>24 DEF ProbeQueue
<1>25. CASE PollSample
  BY <1>25 DEF PollSample
<1>26. CASE PollThermal
  BY <1>26 DEF PollThermal
<1>27. CASE PollStatus
  BY <1>27 DEF PollStatus
<1>28. CASE PollRecover
  BY <1>28 DEF PollRecover
<1>29. CASE PollBook
  <2>1. q4' => q4
    BY <1>29 DEF PollBook
  <2> QED
    BY <1>29, <2>1 DEF PollBook
<1>30. CASE Suspend
  BY <1>30 DEF Suspend
<1>31. CASE Resume
  BY <1>31 DEF Resume
<1>32. CASE Plug
  BY <1>32 DEF Plug
<1>33. CASE Unplug
  BY <1>33 DEF Unplug
<1>34. CASE TempChange
  BY <1>34 DEF TempChange
<1> QED
  BY <1>1, <1>2, <1>3, <1>4, <1>5, <1>6, <1>7, <1>8, <1>9, <1>10, <1>11,
     <1>12, <1>13, <1>14, <1>15, <1>16, <1>17, <1>18, <1>19, <1>20, <1>21,
     <1>22, <1>23, <1>24, <1>25, <1>26, <1>27, <1>28, <1>29, <1>30, <1>31,
     <1>32, <1>33, <1>34
  DEF Next, NextButDcCall, TcpmCall, DcCall, TcpmInside, DcInside, SysfsInside,
      PollInside, Configure, SetOtgInside, Poll, Environment, Threads

\* The locks and flags start out fitting together.
LEMMA ArbitrationInit == Init => Arbitration
  BY DEF Init, Arbitration, LockDiscipline, BoostProgress, LowInputBeforeClose,
         PdUpdateRespectsDirect, ReturnLabels, ConfigureBody, OtgBody, Threads,
         Nobody

\* The inductive invariant holds in every reachable state.
THEOREM ArbitrationHolds == Spec => []Arbitration
<1>1. ThreadsOK /\ Arbitration /\ [Next]_vars => Arbitration'
  BY ArbitrationNext
<1>2. TypeOK => ThreadsOK
  BY DEF TypeOK
<1> QED
  BY ArbitrationInit, TypeCorrect, <1>1, <1>2, PTL DEF Spec

\* Q4 stays open while the charger block drives the connector, whatever the
\* poll, TCPM, the direct charger and a sysfs write do, and whichever register
\* access fails.
THEOREM BoostSafe == Spec => []BoostImpliesQ4Open
<1>1. Arbitration => BoostImpliesQ4Open
  BY DEF Arbitration, BoostProgress, BoostImpliesQ4Open
<1> QED
  BY ArbitrationHolds, <1>1, PTL

\* Whenever chg_lock is free, otg_active says whether the boost is on.
THEOREM OtgFlagExact == Spec => []OtgFlagTracksBoost
<1>1. Arbitration => OtgFlagTracksBoost
  BY DEF Arbitration, LockDiscipline, BoostProgress, OtgBody, Nobody,
         OtgFlagTracksBoost
<1> QED
  BY ArbitrationHolds, <1>1, PTL

\* set_pd_contract never reconfigures behind the direct charger.
THEOREM PdUpdateSafe == Spec => []PdUpdateRespectsDirect
<1>1. Arbitration => PdUpdateRespectsDirect
  BY DEF Arbitration
<1> QED
  BY ArbitrationHolds, <1>1, PTL

\* Only ConfigureClose closes Q4, and the input limit is 500 mA then.
LEMMA CloseStep ==
    ThreadsOK /\ Arbitration /\ [Next]_vars => [~q4 /\ q4' => inputMa = 500]_vars
<1> SUFFICES ASSUME Arbitration, Next, ~q4, q4' PROVE inputMa = 500
  BY DEF vars
<1>1. ASSUME NEW t \in Threads, ConfigureClose(t) PROVE inputMa = 500
  BY <1>1 DEF ConfigureClose, Arbitration, LowInputBeforeClose
<1>2. ~TcpmCall /\ ~DcCall
  BY DEF TcpmCall, DcCall, SetOtgOn, SetOtgOff, SetPdContract, SetDirectOn,
         SetDirectOff
<1>3. ASSUME NEW t \in Threads, Configure(t) PROVE inputMa = 500
  BY <1>1, <1>3 DEF Configure, ConfigureBegin, ConfigureStop, ConfigureError,
         ConfigureLower, ConfigureFast, ConfigureRaise
<1>4. ~SetOtgInside /\ ~SetDirectOpen /\ \A t \in Threads : ~Unlock(t)
  BY DEF SetOtgInside, SetOtgMuic, SetOtgOpen, SetOtgBoost, SetOtgFlag,
         SetOtgUndo, SetOtgCharge, SetOtgClear, SetDirectOpen, Unlock
<1>5. ~Poll
  BY DEF Poll, Probe, ProbeQueue, PollSample, PollThermal, PollStatus,
         PollRecover, PollBook
<1>6. ~FastChargeStore /\ ~Suspend /\ ~Resume /\ ~Environment
  BY DEF FastChargeStore, Suspend, Resume, Environment, Plug, Unplug, TempChange
<1> QED
  BY <1>2, <1>3, <1>4, <1>5, <1>6
  DEF Next, NextButDcCall, TcpmInside, DcInside, SysfsInside, PollInside, Threads

\* Q4 is only ever closed at the low input limit: nothing another thread does
\* between the lowering and the closing raises it again.
THEOREM CloseSafe == Spec => ClosesAtLowInput
<1>1. TypeOK => ThreadsOK
  BY DEF TypeOK
<1> QED
  BY ArbitrationHolds, TypeCorrect, CloseStep, <1>1, PTL DEF Spec, ClosesAtLowInput

-----------------------------------------------------------------------------
(* The thermal bands and the MUIC, where register accesses do not fail.    *)

\* A band computed twice at one temperature is the same.
LEMMA ThermalSettles ==
    ASSUME NEW cur \in Thermals, NEW t \in Int
    PROVE  ChargeThermalState(ChargeThermalState(cur, t), t) = ChargeThermalState(cur, t)
  BY DEF ChargeThermalState, Thermals

\* The hysteresis is 4 degrees wide: a temperature that moves less than that does not
\* bring a band that was left back.
LEMMA ThermalHysteresis ==
    ASSUME NEW cur \in Thermals, NEW t \in Int, NEW u \in Int, t - u < 40, u - t < 40,
           ChargeThermalState(cur, t) # cur
    PROVE  ChargeThermalState(ChargeThermalState(cur, t), u) # cur
  BY DEF ChargeThermalState, Thermals

\* The warm band is charged with at most 2.1 A.
LEMMA WarmBudget ==
    ASSUME typec \in [mv : Nat, ma : Nat], NEW u
    PROVE  Budget(u, "REDUCED").fast <= 2100
<1>1. SourceBudget(u) \in [input : Nat, fast : Nat]
  BY DEF SourceBudget, MinOf
<1> QED
  BY <1>1 DEF Budget, MinOf

BandObeyed ==
    /\ thermal = "STOP" => ~q4
    /\ thermal = "REDUCED" /\ q4 => fastMa <= 2100

\* A thread inside configure_charging works for the band that is recorded.
Agrees(t) ==
    /\ pc[t] = "c_stop" => thermal = "STOP"
    /\ pc[t] \in {"c_lower", "c_fast", "c_close", "c_raise"}
          => thermal # "STOP" /\ (thermal = "REDUCED" => job.fast <= 2100)
    /\ pc[t] \in {"c_close", "c_raise"} /\ thermal = "REDUCED" => fastMa <= 2100

\* Unless the poll is about to reconfigure, whoever is reconfiguring works for the band,
\* and the charger obeys it when nobody is.
BandInv ==
    pc["poll"] # "c_lock" =>
        /\ \A t \in Threads : Agrees(t)
        /\ (\A t \in Threads : pc[t] \notin ConfigureBody) => BandObeyed

\* What the poll has sampled: another thread may have moved the band since, but never
\* back to the sampled one.
DriftInv ==
    /\ ~awake => pc["poll"] = "idle" /\ ~queued
    /\ pc["poll"] = "p_thermal" =>
          /\ ~drifted => thermal \in {snap.old, ChargeThermalState(snap.old, temp)}
          /\ drifted => thermal = snap.old \/ ChargeThermalState(thermal, temp) # snap.old

\* set_otg has forced the D+/D- path only while the boost is on or being switched.
MuicInv ==
    manual \/ bc12off
        => otg \/ pc["tcpm"] \in {"o_open", "o_boost", "o_flag", "o_undo", "o_clear"}

\* configure_charging keeps what the poll has sampled.
LEMMA DriftConfigure ==
    ASSUME I2cFails = FALSE, TypeOK, Arbitration, DriftInv, NEW t \in Threads, Configure(t)
    PROVE  DriftInv'
<1> USE DEF TypeOK, ValuesOK, ThreadsOK, Threads, Goto, Return, LeaveConfigure
<1>1. /\ UNCHANGED <<env, snap, awake, queued>> /\ pc[t] \in {"c_lock"} \cup ConfigureBody
      /\ \E s \in ConfigureBody \cup {ret[t]} : pc' = [pc EXCEPT ![t] = s]
  <2>1. CASE ConfigureBegin(t)
    BY <2>1 DEF ConfigureBegin, ConfigureBody
  <2>2. CASE ConfigureStop(t) \/ ConfigureError(t) \/ ConfigureRaise(t)
    BY <2>2 DEF ConfigureStop, ConfigureError, ConfigureRaise, ConfigureBody
  <2>3. CASE ConfigureLower(t) \/ ConfigureFast(t) \/ ConfigureClose(t)
    BY <2>3 DEF ConfigureLower, ConfigureFast, ConfigureClose, ConfigureBody
  <2> QED
    BY <2>1, <2>2, <2>3 DEF Configure
<1>2. thermal' \in {thermal, ChargeThermalState(thermal, temp)}
  BY DEF Configure, ConfigureBegin, ConfigureStop, ConfigureError, ConfigureRaise,
     ConfigureLower, ConfigureFast, ConfigureClose
<1>3. pc'["poll"] = "p_thermal" => pc["poll"] = "p_thermal"
  BY <1>1 DEF Arbitration, LockDiscipline, ReturnLabels, ConfigureBody
<1>4. pc["poll"] = "idle" => pc'["poll"] = "idle"
  BY <1>1 DEF ConfigureBody
<1>5. temp \in Int /\ snap.old \in Thermals
  BY TempsAssumption
<1>6. ASSUME pc["poll"] = "p_thermal"
      PROVE  /\ ~drifted => thermal' \in {snap.old, ChargeThermalState(snap.old, temp)}
             /\ drifted => thermal' = snap.old \/ ChargeThermalState(thermal', temp) # snap.old
  <2>1. ChargeThermalState(ChargeThermalState(snap.old, temp), temp)
          = ChargeThermalState(snap.old, temp)
    BY <1>5, ThermalSettles
  <2>2. ChargeThermalState(ChargeThermalState(thermal, temp), temp)
          = ChargeThermalState(thermal, temp)
    BY <1>5, ThermalSettles
  <2> QED
    BY <1>2, <1>6, <2>1, <2>2 DEF DriftInv
<1> QED
  BY <1>1, <1>3, <1>4, <1>6 DEF DriftInv

\* A change of the temperature does not bring a band back that was left.
LEMMA DriftTemp ==
    ASSUME TypeOK, DriftInv, MaxDrift < 40, TempChange
    PROVE  DriftInv'
<1> USE DEF TypeOK, ValuesOK, ThreadsOK
<1>1. UNCHANGED <<thermal, snap, pc, awake, queued>> /\ drifted' = TRUE
      /\ (drifted => ~awake)
  BY DEF TempChange
<1>2. temp \in Int /\ temp' \in Int /\ temp - temp' < 40 /\ temp' - temp < 40
  BY TempsAssumption, MaxDriftAssumption DEF TempChange
<1>3. ASSUME pc["poll"] = "p_thermal"
      PROVE  thermal = snap.old \/ ChargeThermalState(thermal, temp') # snap.old
  <2>1. thermal = snap.old \/ thermal = ChargeThermalState(snap.old, temp)
    BY <1>1, <1>3 DEF DriftInv
  <2>2. snap.old \in Thermals
    OBVIOUS
  <2> QED
    BY <1>2, <2>1, <2>2, ThermalHysteresis
<1> QED
  BY <1>1, <1>3 DEF DriftInv

\* Every step keeps what the poll has sampled.
LEMMA DriftNext ==
    ASSUME I2cFails = FALSE, MaxDrift < 40, TypeOK, Arbitration, DriftInv, [Next]_vars
    PROVE  DriftInv'
<1> USE DEF TypeOK, ThreadsOK, Threads, Goto, CallConfigure, MayEnter, MayCall
<1>1. ASSUME UNCHANGED <<temp, drifted, thermal, snap, awake, queued>>, pc'["poll"] = pc["poll"]
      PROVE  DriftInv'
  BY <1>1 DEF DriftInv
<1>2. CASE TcpmCall \/ DcCall
  BY <1>1, <1>2 DEF TcpmCall, DcCall, SetOtgOn, SetOtgOff, SetPdContract, SetDirectOn, SetDirectOff
<1>3. CASE SetOtgInside
  <2>1. CASE SetOtgMuic \/ SetOtgOpen \/ SetOtgBoost \/ SetOtgFlag
    BY <1>1, <2>1 DEF SetOtgMuic, SetOtgOpen, SetOtgBoost, SetOtgFlag
  <2>2. CASE SetOtgUndo \/ SetOtgCharge \/ SetOtgClear
    BY <1>1, <2>2 DEF SetOtgUndo, SetOtgCharge, SetOtgClear
  <2> QED
    BY <1>3, <2>1, <2>2 DEF SetOtgInside
<1>4. CASE SetDirectOpen \/ Unlock("tcpm") \/ Unlock("dc") \/ FastChargeStore
  BY <1>1, <1>4 DEF SetDirectOpen, Unlock, FastChargeStore
<1>5. CASE Plug \/ Unplug \/ UNCHANGED vars
  BY <1>1, <1>5 DEF Plug, Unplug, vars
<1>6. CASE Probe \/ ProbeQueue
  BY <1>6 DEF Probe, ProbeQueue, DriftInv
<1>7. CASE PollSample
  <2>1. /\ pc["poll"] = "idle" /\ queued /\ UNCHANGED <<thermal, awake>> /\ snap'.old = thermal
        /\ drifted' = FALSE
    BY <1>7 DEF PollSample
  <2> QED
    BY <2>1 DEF DriftInv
<1>8. CASE PollThermal
  BY <1>8 DEF PollThermal, DriftInv
<1>9. CASE PollStatus \/ PollRecover
  BY <1>9 DEF PollStatus, PollRecover, DriftInv
<1>10. CASE PollBook
  BY <1>10 DEF PollBook, DriftInv
<1>11. CASE Suspend \/ Resume
  BY <1>11 DEF Suspend, Resume, DriftInv
<1> QED
  BY <1>2, <1>3, <1>4, <1>5, <1>6, <1>7, <1>8, <1>9, <1>10, <1>11, DriftConfigure, DriftTemp
     DEF Next, NextButDcCall, TcpmInside, DcInside, SysfsInside, PollInside, Poll, Environment

\* The poll either leaves the recorded band alone or goes on to reconfigure.
LEMMA PollThermalStep ==
    ASSUME I2cFails = FALSE, TypeOK, DriftInv, PollThermal
    PROVE  thermal' = thermal \/ pc'["poll"] = "c_lock"
<1> USE DEF TypeOK, ValuesOK, ThreadsOK, Threads
<1>1. thermal' = thermal
      \/ (pc["poll"] = "p_thermal" /\ thermal' = ChargeThermalState(thermal, temp))
  BY DEF PollThermal
<1>2. thermal' # thermal /\ thermal' # snap.old => pc'["poll"] = "c_lock"
  BY DEF PollThermal, CallConfigure
<1>3. temp \in Int /\ snap.old \in Thermals
  BY TempsAssumption
<1>4. ChargeThermalState(ChargeThermalState(snap.old, temp), temp)
        = ChargeThermalState(snap.old, temp)
  BY <1>3, ThermalSettles
<1>5. thermal' = snap.old => thermal' = thermal
  BY <1>1, <1>4 DEF DriftInv
<1> QED
  BY <1>2, <1>5

\* The steps of configure_charging.
LEMMA BandConfigure ==
    ASSUME I2cFails = FALSE, TypeOK, Arbitration, BandInv, NEW t \in Threads, Configure(t)
    PROVE  BandInv'
<1> USE DEF TypeOK, ThreadsOK, Goto, Return, LeaveConfigure
<1>0. /\ \A u \in Threads : ret[u] \in ReturnLabels
      /\ \A u \in Threads : pc[u] \in ConfigureBody => chgLock = u /\ ~otg
  BY DEF Arbitration, LockDiscipline
<1>1. CASE ConfigureBegin(t) /\ otg
  <2>1. UNCHANGED <<thermal, q4, fastMa, job, chgLock>> /\ pc' = [pc EXCEPT ![t] = ret[t]]
        /\ chgLock = Nobody
    BY <1>1 DEF ConfigureBegin
  <2>2. ~q4
    BY <1>1, <2>1 DEF Arbitration, BoostProgress, LockDiscipline, OtgBody, Nobody
  <2>3. \A u \in Threads : pc[u] \notin ConfigureBody
    BY <1>0, <2>1 DEF Threads, Nobody
  <2>4. \A u \in Threads : pc'[u] \notin ConfigureBody
    BY <1>0, <2>1, <2>3 DEF ReturnLabels, ConfigureBody
  <2> QED
    BY <2>1, <2>2, <2>4 DEF BandInv, BandObeyed, Agrees, ConfigureBody
<1>2. CASE ConfigureBegin(t) /\ ~otg
  <2>1. /\ thermal' = ChargeThermalState(thermal, temp)
        /\ job' = IF thermal' = "STOP" THEN NoJob ELSE Budget(GetUsbType, thermal')
        /\ pc' = [pc EXCEPT ![t] = IF thermal' = "STOP" THEN "c_stop" ELSE "c_lower"]
        /\ chgLock = Nobody
    BY <1>2 DEF ConfigureBegin
  <2>2. \A u \in Threads : pc[u] \notin ConfigureBody
    BY <1>0, <2>1 DEF Threads, Nobody
  <2>3. thermal' = "REDUCED" => job'.fast <= 2100
    BY <2>1, WarmBudget DEF ValuesOK
  <2>4. pc'[t] \in {"c_stop", "c_lower"} /\ (pc'[t] = "c_stop" <=> thermal' = "STOP")
    BY <2>1
  <2>5. \A u \in Threads : u # t => pc'[u] \notin ConfigureBody
    BY <2>1, <2>2
  <2> QED
    BY <2>3, <2>4, <2>5 DEF BandInv, Agrees, ConfigureBody
<1>3. ASSUME pc[t] \in ConfigureBody, UNCHANGED thermal, pc' = [pc EXCEPT ![t] = ret[t]],
             pc["poll"] # "c_lock" => BandObeyed'
      PROVE  BandInv'
  <2>1. \A u \in Threads : u # t => pc[u] \notin ConfigureBody
    BY <1>0, <1>3
  <2>2. \A u \in Threads : pc'[u] \notin ConfigureBody
    BY <1>0, <1>3, <2>1 DEF ReturnLabels, ConfigureBody
  <2>3. pc["poll"] = "c_lock" => pc'["poll"] = "c_lock"
    BY <1>3 DEF Threads, ConfigureBody
  <2> QED
    BY <1>3, <2>2, <2>3 DEF BandInv, Agrees, ConfigureBody
<1>4. CASE ConfigureStop(t)
  <2>1. pc[t] = "c_stop" /\ q4' = FALSE /\ UNCHANGED thermal /\ pc' = [pc EXCEPT ![t] = ret[t]]
    BY <1>4 DEF ConfigureStop
  <2>2. BandObeyed'
    BY <2>1 DEF BandObeyed
  <2> QED
    BY <1>3, <2>1, <2>2 DEF ConfigureBody
<1>5. CASE ConfigureError(t)
  BY <1>5 DEF ConfigureError
<1>6. CASE ConfigureRaise(t)
  <2>1. /\ pc[t] = "c_raise" /\ UNCHANGED <<thermal, q4, fastMa>>
        /\ pc' = [pc EXCEPT ![t] = ret[t]]
    BY <1>6 DEF ConfigureRaise
  <2>2. pc["poll"] # "c_lock" => BandObeyed'
    BY <2>1 DEF BandInv, Agrees, BandObeyed
  <2> QED
    BY <1>3, <2>1, <2>2 DEF ConfigureBody
<1>7. CASE ConfigureLower(t) \/ ConfigureFast(t) \/ ConfigureClose(t)
  <2>1. /\ UNCHANGED <<thermal, job>>
        /\ \/ pc[t] = "c_lower" /\ pc' = [pc EXCEPT ![t] = "c_fast"] /\ UNCHANGED fastMa
           \/ pc[t] = "c_fast" /\ pc' = [pc EXCEPT ![t] = "c_close"] /\ fastMa' = job.fast
           \/ pc[t] = "c_close" /\ pc' = [pc EXCEPT ![t] = "c_raise"] /\ UNCHANGED fastMa
    BY <1>7 DEF ConfigureLower, ConfigureFast, ConfigureClose
  <2>2. \A u \in Threads : u # t => pc[u] \notin ConfigureBody
    BY <1>0, <2>1 DEF ConfigureBody
  <2>3. pc["poll"] = "c_lock" => pc'["poll"] = "c_lock"
    BY <2>1 DEF Threads
  <2>4. pc'[t] \in {"c_fast", "c_close", "c_raise"}
    BY <2>1
  <2>5. pc["poll"] # "c_lock" => Agrees(t)'
    BY <2>1, <2>4 DEF BandInv, Agrees
  <2>6. \A u \in Threads : u # t => pc'[u] \notin ConfigureBody
    BY <2>1, <2>2
  <2> QED
    BY <2>3, <2>4, <2>5, <2>6 DEF BandInv, Agrees, ConfigureBody
<1> QED
  BY <1>1, <1>2, <1>4, <1>5, <1>6, <1>7 DEF Configure

\* Every step keeps band and charger together.
LEMMA BandNext ==
    ASSUME I2cFails = FALSE, TypeOK, Arbitration, DriftInv, BandInv, [Next]_vars
    PROVE  BandInv'
<1> USE DEF TypeOK, ThreadsOK, Threads, Goto, CallConfigure, MayEnter, MayCall
<1>1. ASSUME UNCHANGED <<thermal, fastMa, job>>, q4' => q4,
             NEW t \in Threads, NEW s, s \notin ConfigureBody, pc[t] \notin ConfigureBody,
             pc' = [pc EXCEPT ![t] = s], pc["poll"] = "c_lock" => pc'["poll"] = "c_lock"
      PROVE  BandInv'
  <2>1. \A u \in Threads : pc'[u] = pc[u] \/ (pc[u] \notin ConfigureBody /\ pc'[u] \notin ConfigureBody)
    BY <1>1
  <2>2. ASSUME pc'["poll"] # "c_lock" PROVE pc["poll"] # "c_lock"
    BY <1>1, <2>2
  <2>3. \A u \in Threads : Agrees(u) => Agrees(u)'
    BY <1>1, <2>1 DEF Agrees, ConfigureBody
  <2>4. (\A u \in Threads : pc'[u] \notin ConfigureBody)
          => \A u \in Threads : pc[u] \notin ConfigureBody
    BY <2>1
  <2>5. BandObeyed => BandObeyed'
    BY <1>1 DEF BandObeyed
  <2> QED
    BY <2>2, <2>3, <2>4, <2>5 DEF BandInv
<1>2. CASE UNCHANGED <<thermal, fastMa, job, q4, pc>>
  BY <1>2 DEF BandInv, BandObeyed, Agrees
<1>3. CASE SetOtgOn \/ SetOtgOff \/ SetDirectOn \/ SetDirectOff
  <2>1. CASE SetOtgOn
    BY <1>1, <2>1 DEF SetOtgOn, ConfigureBody
  <2>2. CASE SetOtgOff
    BY <1>1, <2>2 DEF SetOtgOff, ConfigureBody
  <2>3. CASE SetDirectOn
    BY <1>1, <1>2, <2>3 DEF SetDirectOn, ConfigureBody
  <2>4. CASE SetDirectOff
    BY <1>1, <1>2, <2>4 DEF SetDirectOff, ConfigureBody
  <2> QED
    BY <1>3, <2>1, <2>2, <2>3, <2>4
<1>4. ASSUME NEW c \in Contracts, SetPdContract(c) PROVE BandInv'
  BY <1>1, <1>2, <1>4 DEF SetPdContract, ConfigureBody
<1>5. CASE SetOtgInside
  <2>1. CASE SetOtgMuic
    BY <1>1, <2>1 DEF SetOtgMuic, ConfigureBody
  <2>2. CASE SetOtgOpen
    BY <1>1, <2>2 DEF SetOtgOpen, ConfigureBody
  <2>3. CASE SetOtgBoost
    BY <1>1, <2>3 DEF SetOtgBoost, ConfigureBody
  <2>4. CASE SetOtgFlag
    BY <1>1, <2>4 DEF SetOtgFlag, ConfigureBody
  <2>5. CASE SetOtgUndo
    BY <1>1, <2>5 DEF SetOtgUndo, ConfigureBody
  <2>6. CASE SetOtgCharge
    BY <1>1, <2>6 DEF SetOtgCharge, ConfigureBody
  <2>7. CASE SetOtgClear
    BY <1>1, <2>7 DEF SetOtgClear, ConfigureBody
  <2> QED
    BY <1>5, <2>1, <2>2, <2>3, <2>4, <2>5, <2>6, <2>7 DEF SetOtgInside
<1>6. CASE SetDirectOpen
  BY <1>1, <1>6 DEF SetDirectOpen, ConfigureBody
<1>7. ASSUME NEW t \in Threads, Unlock(t) PROVE BandInv'
  BY <1>1, <1>7 DEF Unlock, ConfigureBody
<1>8. CASE FastChargeStore
  BY <1>1, <1>8 DEF FastChargeStore, ConfigureBody
<1>9. CASE Suspend \/ Resume \/ Environment \/ UNCHANGED vars
  BY <1>2, <1>9 DEF Suspend, Resume, Environment, Plug, Unplug, TempChange, vars
<1>10. CASE Probe \/ ProbeQueue \/ PollSample \/ PollStatus \/ PollRecover
  <2>1. CASE Probe
    BY <1>1, <2>1 DEF Probe, ConfigureBody
  <2>2. CASE ProbeQueue
    BY <1>1, <2>2 DEF ProbeQueue, ConfigureBody
  <2>3. CASE PollSample
    BY <1>1, <2>3 DEF PollSample, ConfigureBody
  <2>4. CASE PollStatus
    BY <1>1, <2>4 DEF PollStatus, ConfigureBody
  <2>5. CASE PollRecover
    BY <1>1, <2>5 DEF PollRecover, ConfigureBody
  <2> QED
    BY <1>10, <2>1, <2>2, <2>3, <2>4, <2>5
<1>11. CASE PollBook
  <2>1. q4' => q4
    BY <1>11 DEF PollBook
  <2> QED
    BY <1>1, <1>11, <2>1 DEF PollBook, ConfigureBody
<1>12. CASE PollThermal
  <2>1. pc'["poll"] = "c_lock" => BandInv'
    BY DEF BandInv
  <2>2. CASE thermal' = thermal
    BY <1>1, <1>12, <2>2 DEF PollThermal, ConfigureBody
  <2> QED
    BY <1>12, <2>1, <2>2, PollThermalStep
<1> QED
  BY <1>3, <1>4, <1>5, <1>6, <1>7, <1>8, <1>9, <1>10, <1>11, <1>12, BandConfigure
     DEF Next, NextButDcCall, TcpmCall, DcCall, TcpmInside, DcInside, SysfsInside, PollInside,
         Poll

\* Every step keeps the MUIC's manual mode to the time of the boost.
LEMMA MuicNext ==
    ASSUME I2cFails = FALSE, TypeOK, Arbitration, MuicInv, [Next]_vars
    PROVE  MuicInv'
<1> USE DEF TypeOK, ThreadsOK, Threads, Goto, CallConfigure, MayEnter, MayCall
<1>1. ASSUME UNCHANGED <<manual, bc12off, otg>>,
             pc'["tcpm"] = pc["tcpm"]
               \/ pc["tcpm"] \notin {"o_open", "o_boost", "o_flag", "o_undo", "o_clear"}
      PROVE  MuicInv'
  BY <1>1 DEF MuicInv
<1>2. ASSUME NEW t \in Threads, Configure(t) PROVE MuicInv'
  <2>1. /\ UNCHANGED <<manual, bc12off, otg>> /\ pc[t] \in {"c_lock"} \cup ConfigureBody
        /\ \E s : pc' = [pc EXCEPT ![t] = s]
    <3>1. CASE ConfigureBegin(t)
      BY <3>1 DEF ConfigureBegin, ConfigureBody, Return
    <3>2. CASE ConfigureStop(t) \/ ConfigureError(t) \/ ConfigureRaise(t)
      BY <3>2 DEF ConfigureStop, ConfigureError, ConfigureRaise, LeaveConfigure, Return, ConfigureBody
    <3>3. CASE ConfigureLower(t) \/ ConfigureFast(t) \/ ConfigureClose(t)
      BY <3>3 DEF ConfigureLower, ConfigureFast, ConfigureClose, ConfigureBody
    <3> QED
      BY <1>2, <3>1, <3>2, <3>3 DEF Configure
  <2> QED
    BY <1>1, <2>1 DEF ConfigureBody
<1>3. CASE SetOtgOn \/ SetOtgOff \/ DcCall \/ \E c \in Contracts : SetPdContract(c)
  BY <1>1, <1>3 DEF SetOtgOn, SetOtgOff, DcCall, SetDirectOn, SetDirectOff, SetPdContract
<1>4. CASE SetOtgMuic \/ SetOtgOpen \/ SetOtgBoost \/ SetOtgFlag
  BY <1>4 DEF SetOtgMuic, SetOtgOpen, SetOtgBoost, SetOtgFlag, MuicManual, MuicManualFailed, MuicInv
<1>5. CASE SetOtgUndo
  BY <1>5 DEF SetOtgUndo, MuicAuto, MuicAutoFailed, MuicInv
<1>6. CASE SetOtgCharge
  BY <1>6 DEF SetOtgCharge, MuicInv
<1>7. CASE SetOtgClear
  BY <1>7 DEF SetOtgClear, MuicAuto, MuicAutoFailed, MuicInv
<1>8. CASE SetDirectOpen \/ Unlock("tcpm") \/ Unlock("dc") \/ FastChargeStore
  BY <1>1, <1>8 DEF SetDirectOpen, Unlock, FastChargeStore
<1>9. CASE Suspend \/ Resume \/ Environment \/ UNCHANGED vars
  BY <1>1, <1>9 DEF Suspend, Resume, Environment, Plug, Unplug, TempChange, vars
<1>10. CASE Probe \/ ProbeQueue \/ PollSample \/ PollStatus
  BY <1>1, <1>10 DEF Probe, ProbeQueue, PollSample, PollStatus
<1>11. CASE PollRecover \/ PollBook \/ PollThermal
  BY <1>1, <1>11 DEF PollRecover, PollBook, PollThermal
<1> QED
  BY <1>2, <1>3, <1>4, <1>5, <1>6, <1>7, <1>8, <1>9, <1>10, <1>11
     DEF Next, NextButDcCall, TcpmCall, TcpmInside, DcInside, SysfsInside, PollInside,
         Poll, SetOtgInside

\* Once nobody is reconfiguring, the charger obeys the recorded thermal band - Q4 open at
\* the hard stop, at most 2.1 A in the warm band - for any callers, sources, contracts and
\* temperatures, as long as no access fails and the pack moves by less than the 4 degrees
\* of the hysteresis while the poll makes up its mind.
THEOREM ThermalSafe ==
    I2cFails = FALSE /\ MaxDrift < 40 => (Spec => []ThermalBandObeyed)
<1> SUFFICES ASSUME I2cFails = FALSE, MaxDrift < 40 PROVE Spec => []ThermalBandObeyed
  OBVIOUS
<1>1. Init => DriftInv /\ BandInv
  BY DEF Init, DriftInv, BandInv, BandObeyed, Agrees, Threads, ConfigureBody
<1>2. TypeOK /\ Arbitration /\ DriftInv /\ BandInv /\ [Next]_vars => DriftInv' /\ BandInv'
  BY DriftNext, BandNext
<1>3. BandInv => ThermalBandObeyed
  BY DEF BandInv, BandObeyed, ThermalBandObeyed, Settled, Threads
<1> QED
  BY <1>1, <1>2, <1>3, TypeCorrect, ArbitrationHolds, PTL DEF Spec

\* When set_otg(false) has nothing left to do the MUIC is back to automatic switching.
THEOREM MuicSafe == I2cFails = FALSE => (Spec => []MuicAutomaticAfterOtg)
<1> SUFFICES ASSUME I2cFails = FALSE PROVE Spec => []MuicAutomaticAfterOtg
  OBVIOUS
<1>1. Init => MuicInv
  BY DEF Init, MuicInv
<1>2. TypeOK /\ Arbitration /\ MuicInv /\ [Next]_vars => MuicInv'
  BY MuicNext
<1>3. MuicInv => MuicAutomaticAfterOtg
  BY DEF MuicInv, MuicAutomaticAfterOtg
<1> QED
  BY <1>1, <1>2, <1>3, TypeCorrect, ArbitrationHolds, PTL DEF Spec
=============================================================================
