------------------------------- MODULE Escrow -------------------------------
(***************************************************************************)
(* What the settlement contract promises its users, without signatures,    *)
(* challenge windows or HTLCs: a channel's deposit is locked once, is paid *)
(* out once and in full to the two participants, and no other step moves   *)
(* tokens.  IChannelManager.sol describes this contract surface;           *)
(* ChannelManager implements it.                                           *)
(***************************************************************************)
EXTENDS Integers

CONSTANTS Users, Manager, ChannelIds

VARIABLES
    phase,    \* channelId -> "none", "locked" or "paid"
    deposit,  \* channelId -> the amount locked when it was opened
    token     \* ERC20 balances

escrowVars == <<phase, deposit, token>>

EscrowInit ==
    /\ phase = [c \in ChannelIds |-> "none"]
    /\ deposit = [c \in ChannelIds |-> 0]
    /\ token \in [Users \cup {Manager} -> Nat]
    /\ token[Manager] = 0

\* Participants c[1] and c[2] lock a and b.
Lock(c, a, b) ==
    /\ phase[c] = "none"
    /\ a + b > 0
    /\ a <= token[c[1]] /\ b <= token[c[2]]
    /\ phase' = [phase EXCEPT ![c] = "locked"]
    /\ deposit' = [deposit EXCEPT ![c] = a + b]
    /\ token' = [token EXCEPT ![c[1]] = @ - a, ![c[2]] = @ - b,
                              ![Manager] = @ + (a + b)]

\* The whole deposit leaves the escrow, split between the participants.
PayOut(c, a, b) ==
    /\ phase[c] = "locked"
    /\ a + b = deposit[c]
    /\ phase' = [phase EXCEPT ![c] = "paid"]
    /\ UNCHANGED deposit
    /\ token' = [token EXCEPT ![c[1]] = @ + a, ![c[2]] = @ + b,
                              ![Manager] = @ - (a + b)]

EscrowNext ==
    \E c \in ChannelIds :
        \/ \E a \in 0 .. token[c[1]], b \in 0 .. token[c[2]] : Lock(c, a, b)
        \/ \E a \in 0 .. deposit[c] : PayOut(c, a, deposit[c] - a)

EscrowSpec == EscrowInit /\ [][EscrowNext]_escrowVars
=============================================================================
