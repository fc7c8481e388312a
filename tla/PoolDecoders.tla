---------------------------- MODULE PoolDecoders ----------------------------
(***************************************************************************)
(* dex/whirlpool.rs and dex/raydium.rs: what a pool account's bytes become *)
(* when they are decoded by one of the two decoders, not always the right  *)
(* one.                                                                    *)
(*                                                                         *)
(* An account is its length, the program its discriminator names, and, for *)
(* each layout, the values that stand where that layout has its fields.  A *)
(* square root of a price is in parts of Q (2^64 in the code), a price in  *)
(* parts of Scale; liquidity is given by its square root.                  *)
(***************************************************************************)
EXTENDS Integers, Sequences, FiniteSetsExt, SequencesExt

Q     == 10
Scale == 100

DexKind == {"Orca", "Raydium"}
Zeroed  == "zeroed"     \* a discriminator the provider stripped

-----------------------------------------------------------------------------
(* The accounts as their programs write them: fields and sizes in order.   *)

Field(name, size) == [name |-> name, size |-> size]

Layout == [k \in DexKind |->
    IF k = "Orca"
    THEN <<Field("discriminator", 8), Field("config", 32), Field("bump", 1),
           Field("tickSpacing", 2), Field("feeTierSeed", 2), Field("fee", 2),
           Field("protocolFee", 2), Field("liquidity", 16),
           Field("sqrtPrice", 16), Field("tick", 4), Field("feeOwedA", 8),
           Field("feeOwedB", 8), Field("mintA", 32), Field("vaultA", 32),
           Field("feeGrowthA", 16), Field("mintB", 32)>>
    ELSE <<Field("discriminator", 8), Field("bump", 1), Field("ammConfig", 32),
           Field("creator", 32), Field("mintA", 32), Field("mintB", 32),
           Field("vaultA", 32), Field("vaultB", 32), Field("observation", 32),
           Field("decimalsA", 1), Field("decimalsB", 1),
           Field("tickSpacing", 2), Field("liquidity", 16),
           Field("sqrtPrice", 16), Field("tick", 4)>>]

(* Where a field of the layout starts: after all fields before it.         *)
StartsAt(k, field) ==
    LET i == SelectInSeq(Layout[k], LAMBDA f : f.name = field)
    IN  SumFunctionOnSet([j \in DOMAIN Layout[k] |-> Layout[k][j].size], 1 .. i - 1)

-----------------------------------------------------------------------------
(* The decoders' own tables: offset and width of each read.                *)
Read(at, width) == [at |-> at, width |-> width]

\* Mutant: the reads from the liquidity on forget the protocol fee.
ShiftedReads ==
    [tickSpacing |-> Read(41, 2), fee |-> Read(45, 2), liquidity |-> Read(47, 16),
     sqrtPrice |-> Read(63, 16), tick |-> Read(79, 4),
     mintA |-> Read(101, 32), mintB |-> Read(181, 32)]

WhirlpoolReads ==
    [tickSpacing |-> Read(41, 2), fee |-> Read(45, 2), liquidity |-> Read(49, 16),
     sqrtPrice |-> Read(65, 16), tick |-> Read(81, 4),
     mintA |-> Read(101, 32), mintB |-> Read(181, 32)]

RaydiumReads ==
    [mintA |-> Read(73, 32), mintB |-> Read(105, 32),
     decimalsA |-> Read(233, 1), decimalsB |-> Read(234, 1),
     tickSpacing |-> Read(235, 2), liquidity |-> Read(237, 16),
     sqrtPrice |-> Read(253, 16), tick |-> Read(269, 4)]

Reads(k) == IF k = "Orca" THEN WhirlpoolReads ELSE RaydiumReads

(* The length below which a decoder gives up.                              *)
\* Mutant: Whirlpool's documented minimum, which ends at the tick.
DocumentedLength(k) == IF k = "Orca" THEN 85 ELSE 273

NeededLength(k) == IF k = "Orca" THEN 181 + 32 ELSE 273

TooShort(account, k) == account.len < NeededLength(k)

ReadsPast(account, k) ==
    \E f \in DOMAIN Reads(k) : Reads(k)[f].at + Reads(k)[f].width > account.len

(* What a read returns: the field, if it is where the layout has it.       *)
Value(account, k, field) ==
    IF StartsAt(k, field) = Reads(k)[field].at THEN account.at[k][field] ELSE account.noise

-----------------------------------------------------------------------------
(* raw = sqrt^2, times 10^(a - b)                                          *)
HumanPrice(sqrt, d) ==
    IF d.a < d.b THEN (sqrt * sqrt * Scale) \div (Q * Q * 10 ^ (d.b - d.a))
                 ELSE (sqrt * sqrt * Scale * 10 ^ (d.a - d.b)) \div (Q * Q)

(* Orca.  The discriminator check is commented out.  A price that is not   *)
(* finite would need decimals no byte can hold.                            *)
WhirlpoolError(account) ==
    IF TooShort(account, "Orca") THEN "TooShort"
    ELSE IF Value(account, "Orca", "sqrtPrice") = 0 THEN "InvalidSqrtPrice"
    ELSE "none"

OrcaSymbols == [SOL_USDC_64 |-> "SOLUSDC", SOL_USDC_8 |-> "SOLUSDC",
                SOL_USDT_64 |-> "SOLUSDT", ETH_USDC_64 |-> "ETHUSDC",
                BTC_USDC_64 |-> "BTCUSDC"]

(* The decimals are the configured ones.                                   *)
WhirlpoolPrice(account, address, decimals, slot) ==
    LET price == HumanPrice(Value(account, "Orca", "sqrtPrice"), decimals)
    IN [pool   |-> address, dex |-> "Orca",
        symbol |-> IF address \in DOMAIN OrcaSymbols THEN OrcaSymbols[address] ELSE address,
        price  |-> price, fee |-> Value(account, "Orca", "fee"),
        depth  |-> Value(account, "Orca", "liquidity") * price, slot |-> slot]

(* Raydium.  Zeros pass for a discriminator.                               *)
BadDiscriminator(account) == account.disc \notin {"Raydium", Zeroed}

RaydiumDecimals(account) ==
    [a |-> Value(account, "Raydium", "decimalsA"),
     b |-> Value(account, "Raydium", "decimalsB")]

RaydiumError(account) ==
    IF TooShort(account, "Raydium") THEN "TooShort"
    ELSE IF BadDiscriminator(account) THEN "BadDiscriminator"
    ELSE IF RaydiumDecimals(account) = [a |-> 0, b |-> 0] THEN "InvalidDecimals"
    ELSE IF Value(account, "Raydium", "sqrtPrice") = 0 THEN "InvalidSqrtPrice"
    ELSE "none"

(* The fee tier inferred from the tick spacing, in millionths.             *)
FeeTier(spacing) ==
    CASE spacing = 1   -> 100
      [] spacing = 10  -> 200
      [] spacing = 60  -> 2500
      [] spacing = 200 -> 10000
      [] OTHER         -> 3000

RaydiumSymbols == [RAY_SOL_USDC |-> "SOLUSDC", RAY_SOL_USDT |-> "SOLUSDT",
                   RAY_ETH_USDC |-> "ETHUSDC", RAY_BTC_USDC |-> "BTCUSDC"]

(* The decimals are the account's; those of the configuration are ignored. *)
RaydiumPrice(account, address, slot) ==
    LET price == HumanPrice(Value(account, "Raydium", "sqrtPrice"), RaydiumDecimals(account))
    IN [pool   |-> address, dex |-> "Raydium",
        symbol |-> IF address \in DOMAIN RaydiumSymbols THEN RaydiumSymbols[address] ELSE address,
        price  |-> price, fee |-> FeeTier(Value(account, "Raydium", "tickSpacing")),
        depth  |-> Value(account, "Raydium", "liquidity") * price, slot |-> slot]

(* The decoder a pool's entry names.                                       *)
DecodeError(account, k) ==
    IF k = "Orca" THEN WhirlpoolError(account) ELSE RaydiumError(account)

(* The decoder slices the data where there is none: a panic.               *)
Crashes(account, k) ==
    /\ ~TooShort(account, k)
    /\ k = "Raydium" => ~BadDiscriminator(account)
    /\ ReadsPast(account, k)

Decoded(account, k, address, decimals, slot) ==
    IF k = "Orca" THEN WhirlpoolPrice(account, address, decimals, slot)
                  ELSE RaydiumPrice(account, address, slot)
=============================================================================
