-------------------------- MODULE ProbeModelProofs --------------------------
(***************************************************************************)
(* Proofs about the replay of ProbeModel, for any device: any number of    *)
(* registers, any recording, any probe length and any number of restarts.  *)
(***************************************************************************)
EXTENDS ProbeModel, TLAPS

Types ==
  /\ style \in Styles
  /\ cnt \in [Cases -> Nat] /\ ver \in [Cases -> Nat] /\ nth \in [Cases -> Nat]
  /\ restart_cnt \in Nat /\ probe_len \in Nat /\ restarts \in Nat /\ total \in Nat

(* probe_len counts the reads since the restart until the probe is over.   *)
Phase ==
  /\ total <= ProbeLen + 1 => probe_len = total
  /\ total > ProbeLen + 1 => probe_len = ProbeLen + 1
  /\ \A c \in Cases : nth[c] <= total /\ ver[c] <= restart_cnt

(* While it is not, the counter that a case would work with is the number  *)
(* of reads of its register since the restart, whether or not CHECK_RESET  *)
(* has got round to resetting it.                                          *)
Counters ==
  Exact /\ total <= ProbeLen + 1 =>
    \A c \in Cases : Start(c, restart_cnt) = nth[c]

IInv ==
  /\ mode \in {"probe", "fuzz"} => Types /\ Phase /\ Counters
  /\ Replays
  /\ RecordedNotLost

\* A read in one of the modes that use the model: what it does to the device.
Consult(a, fresh) ==
  LET rc == Restarted(fresh)
      pl == IF fresh THEN 0 ELSE probe_len
  IN /\ IF Over(pl) THEN NoReplay(rc, pl) ELSE Replay(a, rc, pl)
     /\ Observe(a, fresh)
     /\ style' = style /\ mode' = mode

-----------------------------------------------------------------------------
(* Such a read keeps the counters in step with the reads of the driver.    *)
LEMMA ConsultKeeps ==
  ASSUME Types, Phase, Counters, NEW a \in Regs, NEW fresh \in BOOLEAN, Consult(a, fresh)
  PROVE  Types' /\ Phase' /\ Counters'
<1> DEFINE rc == Restarted(fresh)
           pl == IF fresh THEN 0 ELSE probe_len
           n(c) == IF fresh THEN 0 ELSE nth[c]
           tot == IF fresh THEN 0 ELSE total
<1>1. ProbeLen \in Int /\ ProbeLen >= -1 /\ style.resets \in BOOLEAN
  BY RecordingAssumption DEF RecordingAssumption, Types
<1>2. /\ rc \in Nat /\ pl \in Nat /\ tot \in Nat
      /\ rc = IF fresh /\ style.resets THEN restart_cnt + 1 ELSE restart_cnt
      /\ rc >= restart_cnt
  BY <1>1 DEF Types, Restarted
<1>3. /\ restart_cnt' = rc /\ style' = style
      /\ probe_len' = IF Over(pl) THEN pl ELSE pl + 1
      /\ restarts' = IF fresh THEN restarts + 1 ELSE restarts
      /\ total' = Count(tot)
      /\ nth' = [c \in Cases |-> IF c = a THEN Count(n(c)) ELSE n(c)]
  BY DEF Consult, NoReplay, Replay, Observe
<1>4. \A c \in Cases : Start(c, rc) \in Nat /\ n(c) \in Nat
  BY DEF Types, Start
<1>5. /\ cnt' \in [Cases -> Nat] /\ ver' \in [Cases -> Nat]
      /\ \A c \in Cases : ver'[c] = ver[c] \/ ver'[c] = rc
  <2>1. CASE Over(pl)
    BY <2>1 DEF Consult, NoReplay, Types
  <2>2. CASE ~Over(pl)
    <3>1. /\ cnt' = [c \in Cases |-> IF Ran(a, c) THEN Start(c, rc) + 1 ELSE cnt[c]]
          /\ ver' = [c \in Cases |-> IF Ran(a, c) /\ style.resets /\ rc > ver[c]
                                     THEN rc ELSE ver[c]]
      BY <2>2 DEF Consult, Replay
    <3>2. QED
      BY <1>2, <1>4, <3>1 DEF Types
  <2>3. QED
    BY <2>1, <2>2
<1> HIDE DEF rc, pl, n, tot
<1>6. nth' \in [Cases -> Nat] /\ total' \in Nat
  BY <1>1, <1>2, <1>3, <1>4 DEF Count, Enough
<1>7. Types'
  BY <1>2, <1>3, <1>5, <1>6 DEF Types, Over
<1>8. /\ tot <= ProbeLen + 1 => pl = tot
      /\ tot > ProbeLen + 1 => pl = ProbeLen + 1
      /\ \A c \in Cases : n(c) <= tot /\ ver[c] <= rc
  BY <1>1, <1>2 DEF Phase, Types, tot, pl, n
<1>9. Phase'
  <2>1. total' <= ProbeLen + 1 => probe_len' = total'
    BY <1>1, <1>2, <1>3, <1>8 DEF Count, Enough, Over
  <2>2. total' > ProbeLen + 1 => probe_len' = ProbeLen + 1
    BY <1>1, <1>2, <1>3, <1>8 DEF Count, Enough, Over
  <2>3. \A c \in Cases : nth'[c] <= total' /\ ver'[c] <= restart_cnt'
    <3>1. ASSUME NEW c \in Cases PROVE nth'[c] <= total' /\ ver'[c] <= restart_cnt'
      <4>1. nth'[c] = IF c = a THEN Count(n(c)) ELSE n(c)
        BY <1>3
      <4>2. nth'[c] <= total'
        BY <1>1, <1>2, <1>3, <1>4, <1>8, <4>1 DEF Count, Enough
      <4>3. ver'[c] <= restart_cnt'
        BY <1>2, <1>3, <1>5, <1>8
      <4>4. QED
        BY <4>2, <4>3
    <3>2. QED
      BY <3>1
  <2>4. QED
    BY <2>1, <2>2, <2>3 DEF Phase
<1>10. Counters'
  <2>1. SUFFICES ASSUME Exact', total' <= ProbeLen + 1, NEW c \in Cases
                 PROVE  Start(c, restart_cnt)' = nth'[c]
    BY DEF Counters
  <2>2. tot <= ProbeLen /\ ~Over(pl) /\ tot < Enough
    BY <1>1, <1>2, <1>3, <1>8, <2>1 DEF Count, Enough, Over
  <2>3. style.breaks /\ (style.resets \/ (restarts = 0 /\ ~fresh))
    BY <1>3, <2>1 DEF Exact, Types
  <2>4. Start(c, rc) = n(c)
    <3>1. CASE fresh
      <4>1. rc = restart_cnt + 1 /\ ver[c] <= restart_cnt /\ n(c) = 0
        BY <1>2, <2>3, <3>1 DEF Phase, n
      <4>2. QED
        BY <2>3, <3>1, <4>1 DEF Start, Types
    <3>2. CASE ~fresh
      <4>1. rc = restart_cnt /\ n(c) = nth[c] /\ tot = total
        BY <1>2, <3>2 DEF n, tot
      <4>2. Exact /\ total <= ProbeLen + 1
        BY <1>1, <2>2, <2>3, <4>1 DEF Exact, Types
      <4>3. QED
        BY <4>1, <4>2 DEF Counters
    <3>3. QED
      BY <3>1, <3>2
  <2>5. Ran(a, c) <=> c = a
    <3>1. \A k \in DOMAIN Order : Runs(a, k) <=> Order[k] = a
      BY <2>3 DEF Runs
    <3>2. \E k \in DOMAIN Order : Order[k] = c
      BY DEF Cases
    <3>3. QED
      BY <3>1, <3>2 DEF Ran
  <2>6. /\ cnt'[c] = IF c = a THEN Start(c, rc) + 1 ELSE cnt[c]
        /\ ver'[c] = IF c = a /\ style.resets /\ rc > ver[c] THEN rc ELSE ver[c]
    BY <2>2, <2>5 DEF Consult, Replay, rc, pl
  <2>7. nth'[c] = IF c = a THEN n(c) + 1 ELSE n(c)
    <3>1. n(c) \in Nat /\ n(c) < Enough
      BY <1>1, <1>2, <1>4, <1>8, <2>2 DEF Enough
    <3>2. Count(n(c)) = n(c) + 1
      BY <3>1 DEF Count
    <3>3. QED
      BY <1>3, <3>2
  <2>8. Start(c, restart_cnt)' = IF style.resets /\ rc > ver'[c] THEN 0 ELSE cnt'[c]
    BY <1>3 DEF Start
  <2>9. CASE c = a
    <3>1. ~(style.resets /\ rc > ver'[c])
      BY <1>2, <2>6, <2>9 DEF Types
    <3>2. QED
      BY <2>4, <2>6, <2>7, <2>8, <2>9, <3>1
  <2>10. CASE c # a
    BY <2>4, <2>6, <2>7, <2>8, <2>10 DEF Start
  <2>11. QED
    BY <2>9, <2>10
<1>11. QED
  BY <1>7, <1>9, <1>10

(* What the generated read function finds for a register with a case is    *)
(* the value recorded for this read of it, and nothing once all are used.  *)
LEMMA ConsultFinds ==
  ASSUME Types, Phase, Counters, NEW a \in Cases, NEW fresh \in BOOLEAN, Consult(a, fresh),
         Exact', ~Over(IF fresh THEN 0 ELSE probe_len)
  PROVE  LET rc == Restarted(fresh)
             hits == Hits(a, rc)
         IN /\ total' <= ProbeLen + 1
            /\ hits # {} => /\ nth'[a] <= Len(Recorded[a])
                            /\ Dest(hits, rc) = Recorded[a][nth'[a]]
            /\ hits = {} => nth'[a] > Len(Recorded[a])
<1> DEFINE rc == Restarted(fresh)
           pl == IF fresh THEN 0 ELSE probe_len
           n(c) == IF fresh THEN 0 ELSE nth[c]
           tot == IF fresh THEN 0 ELSE total
           hits == Hits(a, rc)
<1>1. /\ ProbeLen \in Int /\ ProbeLen >= -1 /\ style.resets \in BOOLEAN
      /\ \A i, j \in DOMAIN Order : Order[i] = Order[j] => i = j
      /\ Recorded[a] \in Seq(Values) /\ a \in Regs /\ DOMAIN Order \subseteq Nat
  BY RecordingAssumption DEF RecordingAssumption, Types, Cases
<1>2. tot \in Nat /\ n(a) \in Nat /\ pl \in Nat /\ n(a) <= tot
  BY DEF Types, Phase
<1>3. tot <= ProbeLen /\ tot < Enough /\ n(a) < Enough
  BY <1>1, <1>2 DEF Phase, Over, Enough, Types
<1>4. total' = tot + 1 /\ nth'[a] = n(a) + 1
  BY <1>2, <1>3 DEF Consult, Observe, Count
<1>5. style.breaks /\ (style.resets \/ (restarts = 0 /\ ~fresh))
  <2>1. style' = style /\ restarts' = IF fresh THEN restarts + 1 ELSE restarts
    BY DEF Consult, Observe
  <2>2. QED
    BY <2>1 DEF Exact, Types
<1>6. Start(a, rc) = n(a)
  <2>1. CASE fresh
    <3>1. rc = restart_cnt + 1 /\ ver[a] <= restart_cnt /\ n(a) = 0
      BY <1>5, <2>1 DEF Phase, Restarted
    <3>2. style.resets /\ restart_cnt + 1 > ver[a]
      <4>1. ver[a] \in Nat /\ restart_cnt \in Nat
        BY DEF Types
      <4>2. QED
        BY <1>5, <2>1, <3>1, <4>1
    <3>3. QED
      BY <3>1, <3>2 DEF Start
  <2>2. CASE ~fresh
    <3>1. rc = restart_cnt /\ Exact /\ total <= ProbeLen + 1
      BY <1>1, <1>3, <1>5, <2>2 DEF Exact, Types, Restarted
    <3>2. QED
      BY <2>2, <3>1 DEF Counters
  <2>3. QED
    BY <2>1, <2>2
<1> HIDE DEF rc, n, tot
<1>7. PICK k \in DOMAIN Order : Order[k] = a
  BY DEF Cases
<1>8. \A i \in DOMAIN Order : Runs(a, i) <=> i = k
  BY <1>1, <1>5, <1>7 DEF Runs
<1>9. hits = IF n(a) < Len(Recorded[a]) THEN {k} ELSE {}
  BY <1>6, <1>7, <1>8, Zenon DEF Hits
<1>10. CASE n(a) < Len(Recorded[a])
  <2>1. Max(hits) = k
    BY <1>1, <1>7, <1>9, <1>10 DEF Max
  <2>2. Dest(hits, rc) = Recorded[a][nth'[a]]
    BY <1>4, <1>6, <1>7, <1>9, <1>10, <2>1 DEF Dest
  <2>3. nth'[a] <= Len(Recorded[a]) /\ hits # {}
    BY <1>1, <1>2, <1>4, <1>9, <1>10
  <2>4. QED
    BY <1>1, <1>2, <1>3, <1>4, <2>2, <2>3 DEF rc
<1>11. CASE ~(n(a) < Len(Recorded[a]))
  BY <1>1, <1>2, <1>3, <1>4, <1>9, <1>11 DEF rc
<1>12. QED
  BY <1>10, <1>11

(* Once the model has ended its part, the ghost total says so too.         *)
LEMMA ConsultOver ==
  ASSUME Types, Phase, NEW a \in Regs, NEW fresh \in BOOLEAN, Consult(a, fresh),
         Over(IF fresh THEN 0 ELSE probe_len)
  PROVE  total' > ProbeLen + 1
<1>1. ProbeLen \in Int /\ ProbeLen >= -1
  BY RecordingAssumption DEF RecordingAssumption
<1> DEFINE tot == IF fresh THEN 0 ELSE total
<1>2. tot \in Nat /\ total' = Count(tot)
  BY DEF Types, Consult, Observe
<1>3. tot >= ProbeLen + 1
  BY <1>1 DEF Types, Phase, Over
<1> HIDE DEF tot
<1>4. QED
  BY <1>1, <1>2, <1>3 DEF Count, Enough

(* The properties and what makes them inductive hold after every step.     *)
LEMMA StepKeeps == IInv /\ [Next]_vars => IInv'
<1> SUFFICES ASSUME IInv, [Next]_vars PROVE IInv'
  OBVIOUS
<1>1. ASSUME NEW a \in Regs, ReadTooEarly(a) PROVE IInv'
  <2>1. /\ last' = Answer(a, "aborted", 0)
        /\ UNCHANGED <<config, device, ghosts>>
    BY <1>1 DEF ReadTooEarly
  <2>2. mode' \in {"probe", "fuzz"} => Types' /\ Phase' /\ Counters'
    BY <2>1 DEF IInv, Types, Phase, Counters, Start, Exact, config, device, ghosts
  <2>3. last'.from = "aborted"
    BY <2>1 DEF Answer
  <2>4. QED
    BY <2>2, <2>3 DEF IInv, Replays, RecordedNotLost
<1>2. ASSUME NEW a \in Regs, ProbeRead(a) PROVE IInv'
  <2>1. mode = "probe" /\ mode' = mode /\ style' = style /\ Observe(a, FALSE)
    BY <1>2, Zenon DEF ProbeRead, config
  <2>2. Restarted(FALSE) = restart_cnt
    BY DEF Restarted
  <2>3. Types /\ Phase /\ Counters
    BY <2>1 DEF IInv
  <2>4. Consult(a, FALSE)
    BY <1>2, <2>1, <2>2, Zenon DEF Consult, ProbeRead, NoReplay, device
  <2>5. Types' /\ Phase' /\ Counters'
    BY <2>3, <2>4, ConsultKeeps, Zenon
  <2>6. CASE ~Over(probe_len)
    <3> DEFINE hits == Hits(a, restart_cnt)
    <3>1. last' = Answer(a, IF Written(a, hits) THEN "model" ELSE "dest",
                         Dest(hits, restart_cnt))
      BY <1>2, <2>6 DEF ProbeRead
    <3>2. last'.reg = a /\ last'.val = Dest(hits, restart_cnt)
          /\ last'.from = IF Written(a, hits) THEN "model" ELSE "dest"
      BY <3>1 DEF Answer
    <3>3. Exact' /\ a \in Cases =>
            /\ total' <= ProbeLen + 1
            /\ hits # {} => /\ nth'[a] <= Len(Recorded[a])
                            /\ Dest(hits, restart_cnt) = Recorded[a][nth'[a]]
            /\ hits = {} => nth'[a] > Len(Recorded[a])
      BY <2>2, <2>3, <2>4, <2>6, ConsultFinds, Zenon
    <3>4. a \in Cases => Recorded[a] \in Seq(Values) /\ nth'[a] \in Nat
      BY <2>5, RecordingAssumption DEF Types, RecordingAssumption
    <3> HIDE DEF hits
    <3>5. Replays' /\ RecordedNotLost'
      BY <3>2, <3>3, <3>4 DEF Replays, RecordedNotLost, HasRecord, Written
    <3>6. QED
      BY <2>5, <3>5 DEF IInv
  <2>7. CASE Over(probe_len)
    <3>1. total' > ProbeLen + 1
      BY <2>3, <2>4, <2>7, ConsultOver, Zenon
    <3>2. last'.from # "model"
      BY <1>2, <2>7 DEF ProbeRead, Answer
    <3>3. Replays' /\ RecordedNotLost'
      BY <2>5, <3>1, <3>2, RecordingAssumption
      DEF Replays, RecordedNotLost, HasRecord, Types, RecordingAssumption
    <3>4. QED
      BY <2>5, <3>3 DEF IInv
  <2>8. QED
    BY <2>6, <2>7
<1>3. ASSUME NEW a \in Regs, FuzzRead(a) PROVE IInv'
  <2>1. mode = "fuzz" /\ mode' = mode /\ style' = style
    BY <1>3 DEF FuzzRead, config
  <2>2. PICK fresh \in BOOLEAN :
          LET rc == Restarted(fresh)
              pl == IF fresh THEN 0 ELSE probe_len
              hits == Hits(a, rc)
              probe_mdl_input ==
                IF Over(pl) /\ ~redirectR THEN {Answer(a, "bar", bars[a])}
                ELSE IF ~Over(pl) /\ Written(a, hits)
                     THEN {Answer(a, "model", Dest(hits, rc))}
                ELSE {Answer(a, "garbage", v) : v \in Values}
          IN /\ IF Over(pl) THEN NoReplay(rc, pl) ELSE Replay(a, rc, pl)
             /\ \/ last' \in probe_mdl_input
                \/ input' # <<>> /\ last' = Answer(a, "input", Cell(a, input'))
             /\ Observe(a, fresh)
    BY <1>3 DEF FuzzRead
  <2> DEFINE rc == Restarted(fresh)
             pl == IF fresh THEN 0 ELSE probe_len
             hits == Hits(a, rc)
  <2>3. Types /\ Phase /\ Counters
    BY <2>1 DEF IInv
  <2>4. Consult(a, fresh)
    BY <2>1, <2>2 DEF Consult
  <2>5. Types' /\ Phase' /\ Counters'
    BY <2>3, <2>4, ConsultKeeps
  <2>6. CASE ~Over(pl)
    <3>1. Exact' /\ a \in Cases =>
            /\ total' <= ProbeLen + 1
            /\ hits # {} => /\ nth'[a] <= Len(Recorded[a])
                            /\ Dest(hits, rc) = Recorded[a][nth'[a]]
            /\ hits = {} => nth'[a] > Len(Recorded[a])
      BY <2>3, <2>4, <2>6, ConsultFinds
    <3>2. a \in Cases => Recorded[a] \in Seq(Values) /\ nth'[a] \in Nat
      BY <2>5, RecordingAssumption DEF Types, RecordingAssumption
    <3>3. \/ Written(a, hits) /\ last' = Answer(a, "model", Dest(hits, rc))
          \/ ~Written(a, hits) /\ \E v \in Values : last' = Answer(a, "garbage", v)
          \/ last' = Answer(a, "input", Cell(a, input'))
      BY <2>2, <2>6
    <3> HIDE DEF hits, rc, pl
    <3>4. /\ last'.reg = a
          /\ \/ Written(a, hits) /\ last'.from = "model" /\ last'.val = Dest(hits, rc)
             \/ ~Written(a, hits) /\ last'.from = "garbage"
             \/ last'.from = "input"
      BY <3>3 DEF Answer
    <3>5. Replays' /\ RecordedNotLost'
      BY <3>1, <3>2, <3>4 DEF Replays, RecordedNotLost, HasRecord, Written
    <3>6. QED
      BY <2>5, <3>5 DEF IInv
  <2>7. CASE Over(pl)
    <3>1. total' > ProbeLen + 1
      BY <2>3, <2>4, <2>7, ConsultOver
    <3>2. last'.from # "model"
      BY <2>2, <2>7 DEF Answer
    <3>3. Replays' /\ RecordedNotLost'
      BY <2>5, <3>1, <3>2, RecordingAssumption
      DEF Replays, RecordedNotLost, HasRecord, Types, RecordingAssumption
    <3>4. QED
      BY <2>5, <3>3 DEF IInv
  <2>8. QED
    BY <2>6, <2>7
<1>4. ASSUME NEW a \in Regs, DumbRead(a) \/ ExpertRead(a) PROVE IInv'
  <2>1. mode \notin {"probe", "fuzz"} /\ mode' = mode
    BY <1>4, Zenon DEF DumbRead, ExpertRead, config
  <2>2. last'.from # "model"
    <3>1. \E from \in {"input", "dest", "expert"} : \E v : last' = Answer(a, from, v)
      BY <1>4, Zenon DEF DumbRead, ExpertRead
    <3>2. QED
      BY <3>1 DEF Answer
  <2>3. QED
    BY <2>1, <2>2 DEF IInv, Replays, RecordedNotLost
<1>5. CASE UNCHANGED <<config, device, last, ghosts>>
  BY <1>5 DEF IInv, Types, Phase, Counters, Start, Exact, HasRecord, Replays,
              RecordedNotLost, config, device, ghosts
<1>6. CASE ap_init \/ \E w \in Writes : ap_set_fuzz_data(w[1], w[2])
  BY <1>5, <1>6 DEF ap_init, ap_set_fuzz_data
<1>7. CASE UNCHANGED vars
  BY <1>5, <1>7 DEF vars
<1>8. QED
  BY <1>1, <1>2, <1>3, <1>4, <1>6, <1>7 DEF Next, Read

(* The device model and ap_get_fuzz_data keep the invariant, for every     *)
(* recording, order of cases, bound and input.                             *)
THEOREM Invariance == Spec => []IInv
<1>1. Init => IInv
  <2> SUFFICES ASSUME Init PROVE IInv
    OBVIOUS
  <2>1. ProbeLen \in Int /\ ProbeLen >= -1
    BY RecordingAssumption DEF RecordingAssumption
  <2>2. Types
    BY DEF Init, Types
  <2>3. Phase /\ Counters
    BY <2>1 DEF Init, Phase, Counters, Start
  <2>4. last.from = "nowhere" /\ last.reg = -1
    BY DEF Init, Answer
  <2>5. Replays /\ RecordedNotLost
    BY <2>4 DEF Replays, RecordedNotLost
  <2>6. QED
    BY <2>2, <2>3, <2>5 DEF IInv
<1>2. QED
  BY <1>1, StepKeeps, PTL DEF Spec

(* In the modes that use the probe model, the n-th read of a register      *)
(* since the last restart of the device is answered by its n-th recorded   *)
(* value (CHECK_RESET and the static counters).                            *)
THEOREM ReplayCorrect == Spec => []Replays
<1>1. IInv => Replays
  BY DEF IInv
<1>2. QED
  BY <1>1, Invariance, PTL

(* No recorded value is lost to the local that ap_get_fuzz_data leaves     *)
(* uninitialised.                                                          *)
THEOREM NoRecordLost == Spec => []RecordedNotLost
<1>1. IInv => RecordedNotLost
  BY DEF IInv
<1>2. QED
  BY <1>1, Invariance, PTL
=============================================================================
