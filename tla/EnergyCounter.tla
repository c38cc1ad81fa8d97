---------------------------- MODULE EnergyCounter ----------------------------
(***************************************************************************)
(* The arithmetic of the drivers' power readings: differences of a counter *)
(* that wraps, a time in ticks of the performance counter, and integer     *)
(* divisions.  In the code the counter has 32 bits, so Modulus is 2^32 and *)
(* MAXULONG is Modulus - 1; the products have 64 bits, which they do not   *)
(* exceed, and the power fits 32 bits up to 4 MW.                          *)
(***************************************************************************)
EXTENDS Integers

CONSTANTS
    Modulus,     \* how many values the energy counter has
    Divisor,     \* energy_unit_divisor: counter steps in a joule
    Frequency    \* g_qpc_freq: ticks in a second

ASSUME CounterAssumption ==
    Modulus \in Nat \ {0} /\ Divisor \in Nat \ {0} /\ Frequency \in Nat \ {0}

\* The 32-bit accumulator when the energy used so far is e.
CounterAt(e) == e % Modulus

\* Mutant: one step is lost in a wrap.
EnergyDeltaShort(curr, prev) ==
    IF curr >= prev THEN curr - prev ELSE (Modulus - 1 - prev) + curr

\* energy_delta.
EnergyDelta(curr, prev) ==
    IF curr >= prev THEN curr - prev ELSE (Modulus - 1 - prev) + curr + 1

\* time_ms.
Milliseconds(ticks) == (ticks * 1000) \div Frequency

\* The power in milliwatts of an energy used within some ticks; zero when
\* the time is too short to be seen.
Power(energy, ticks) ==
    IF Milliseconds(ticks) = 0 THEN 0
    ELSE (((energy * 1000) \div Divisor) * 1000) \div Milliseconds(ticks)
==============================================================================
