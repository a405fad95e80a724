---------------------------- MODULE VirtualDevices ----------------------------
(***************************************************************************)
(* The devices of a VM's bus as values: the register file the runtime      *)
(* attaches (hyper-devices TestDevice) and the console, random, network    *)
(* and clock devices of hyper-virtio.  Each operator is one method of the  *)
(* VirtualDevice trait on a device.  A register is one unit of a device's  *)
(* window, whatever its stride; a width is a number of bytes.              *)
(*                                                                         *)
(* A byte of the random stream is the term <<seed, block, place>>: SHA-384 *)
(* is taken to be injective.  Reads that return a value and change nothing *)
(* are left out.                                                           *)
(***************************************************************************)
EXTENDS Integers, Sequences

CONSTANTS
  RegCount,     \* TestDevice::REG_COUNT
  ByteSize,     \* 256
  BlockLen,     \* BLOCK_LEN of the random device
  CounterSize,  \* 2^64, where the block counter wraps
  CountMax      \* u64::MAX and u32::MAX, where clock, traffic and ticks saturate

ASSUME DeviceAssumption ==
  /\ RegCount \in Nat \ {0} /\ ByteSize \in Nat \ {0, 1}
  /\ BlockLen \in Nat \ {0} /\ CounterSize \in Nat \ {0, 1} /\ CountMax \in Nat \ {0}

Registers == 0 .. RegCount - 1

\* The registers with an effect: console DATA, random DATA and SEED, network TX.
CONSOLE_REG_DATA == 0
RNG_REG_DATA == 0
REG_SEED == 1
NET_REG_TX == 2

Mask(width) == (ByteSize ^ width) - 1

\* Faulty variant: the width of a write is not compared with its value.
Unchecked(v, width) == TRUE

Fits(v, width) == v <= Mask(width)

Saturated(n) == IF n > CountMax THEN CountMax ELSE n

-----------------------------------------------------------------------------
\* VirtioRng::refill.
Refilled(d) ==
  [d EXCEPT !.block = d.counter, !.counter = (@ + 1) % CounterSize, !.pos = 0]

\* Faulty variant: a new seed goes on in the middle of the stream.
ReseededOnward(d, seed) == Refilled([d EXCEPT !.seed = seed])

\* VirtioRng::reseed rewinds the stream.
Reseeded(d, seed) ==
  Refilled([d EXCEPT !.seed = seed, !.counter = 0, !.pos = BlockLen])

\* VirtioRng::next_byte.
Ready(d) == IF d.pos >= BlockLen THEN Refilled(d) ELSE d
NextByte(d) == <<d.seed, Ready(d).block, Ready(d).pos>>
AfterByte(d) == [Ready(d) EXCEPT !.pos = @ + 1]

\* The device after n bytes, and the bytes.
Taken(d, n) ==
  LET take[k \in 0 .. n] ==
        IF k = 0 THEN [device |-> d, bytes |-> <<>>]
        ELSE LET before == take[k - 1] IN
             [device |-> AfterByte(before.device),
              bytes |-> Append(before.bytes, NextByte(before.device))]
  IN take[n]

-----------------------------------------------------------------------------
\* The devices as their constructors make them.
TestDevice == [kind |-> "test", regs |-> [i \in Registers |-> 0], ticks |-> 0]
VirtioConsole == [kind |-> "console", out |-> <<>>]
VirtioRng(seed) ==
  Refilled([kind |-> "rng", seed |-> seed, counter |-> 0, block |-> 0, pos |-> BlockLen])
VirtioNet == [kind |-> "net", tx_bytes |-> 0]
PvClock == [kind |-> "clock", now |-> 0]

PowerOn(kind, seed) ==
  CASE kind = "test" -> TestDevice
    [] kind = "console" -> VirtioConsole
    [] kind = "rng" -> VirtioRng(seed)
    [] kind = "net" -> VirtioNet
    [] kind = "clock" -> PvClock

\* reset of each device: what its constructor makes; the random device rewinds to
\* the seed it has now.
Reset(d) == PowerOn(d.kind, IF d.kind = "rng" THEN d.seed ELSE 0)

\* mmio_write takes the access.  The console wants single bytes, the network device
\* does not look at the width, the clock takes no write.
TestTakes(reg, v, width) == reg \in Registers /\ Fits(v, width)
ConsoleTakes(reg, v, width) == reg = CONSOLE_REG_DATA /\ width = 1 /\ Fits(v, 1)
RngTakes(reg, v, width) == reg = REG_SEED /\ Fits(v, width)
NetTakes(reg) == reg = NET_REG_TX

TakesMmio(d, reg, v, width) ==
  \/ d.kind = "test" /\ TestTakes(reg, v, width)
  \/ d.kind = "console" /\ ConsoleTakes(reg, v, width)
  \/ d.kind = "rng" /\ RngTakes(reg, v, width)
  \/ d.kind = "net" /\ NetTakes(reg)

\* io_write takes the access: only the register file has ports.
TakesIo(d, reg, v, width) == d.kind = "test" /\ TestTakes(reg, v, width)

Written(d, reg, v) ==
  CASE d.kind = "test" -> [d EXCEPT !.regs[reg] = v]
    [] d.kind = "console" -> [d EXCEPT !.out = Append(@, v)]
    [] d.kind = "rng" -> Reseeded(d, v)
    [] d.kind = "net" -> [d EXCEPT !.tx_bytes = Saturated(@ + (v % ByteSize))]

\* VirtualDevice::tick.  Only the register file and the clock keep time.
Ticked(d) ==
  CASE d.kind = "test" -> [d EXCEPT !.ticks = Saturated(@ + 1)]
    [] d.kind = "clock" -> [d EXCEPT !.now = Saturated(@ + 1)]
    [] OTHER -> d

\* Faulty variant: the host's copy is handed out again next time.
Copied(d) == d

\* VirtioConsole::take_output.
Drained(d) == [d EXCEPT !.out = <<>>]
=============================================================================
