----------------------------- MODULE Validation -----------------------------
(***************************************************************************)
(* What one request to either path has: the mandate it names, the clock    *)
(* the guard reads, where its validation stands, and what has moved on the *)
(* ledger since.  TransferRules and ReviewRules are the two paths.         *)
(*                                                                         *)
(* Time is counted in ticks (nanoseconds on consensus); the guard's clock  *)
(* and a mandate are in whole seconds.                                     *)
(***************************************************************************)
EXTENDS Transfers

CONSTANTS
    Mandates,       \* mandates with a valid owner signature for the treasury
    ProtocolFee,    \* protocolMaxFeeTinybars
    TicksPerSecond,
    MaxTime         \* bound of the clock, in ticks

ASSUME ValidationConstants ==
    /\ AccountConstants
    /\ ProtocolFee \in Nat /\ MaxTime \in Nat
    /\ TicksPerSecond \in Nat \ {0}
    /\ \A m \in Mandates : MandateConstants(m)

VARIABLES
    now,       \* ticks
    mandate,   \* the mandate of the request
    pc,        \* where its validation stands
    balance    \* the change of every balance since the request

Clock == now \div TicksPerSecond

MandateActive == mandate.validFrom <= Clock /\ Clock < mandate.expires
=============================================================================
