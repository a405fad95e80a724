------------------------------- MODULE DeviceBus -------------------------------
(***************************************************************************)
(* The virtual device graph of one VM (hyper-devices lib.rs): devices are  *)
(* registered with an MMIO range, a range of I/O ports and an interrupt    *)
(* line, and an access is routed to the device whose range covers it.      *)
(*                                                                         *)
(* A device's index is its position in devices, from 1.  A unit of address *)
(* is one register, so an access inside a register does not occur.  The    *)
(* order of the routes is left out: no address has two, which RoutedToOwner *)
(* shows.                                                                  *)
(***************************************************************************)
EXTENDS VirtualDevices, FiniteSets

CONSTANTS
  MaxAddr,     \* u64::MAX
  MaxPort,     \* u16::MAX
  Widths,      \* access widths in bytes
  Values,
  Registrations,  \* what devices ask for: [kind, mmio, io, irq]
  MaxDevices,  \* bound: devices a run registers
  MaxBytes,    \* bound: bytes through one console or random device
  NoRange, NoLine

Kinds == {"test", "console", "rng", "net", "clock"}

ASSUME BusAssumption ==
  /\ MaxAddr \in Nat /\ MaxPort \in Nat /\ MaxDevices \in Nat /\ MaxBytes \in Nat
  /\ Values \subseteq Nat /\ 0 \in Values /\ Widths \subseteq Nat \ {0}
  /\ \A r \in Registrations :
       /\ r.kind \in Kinds
       /\ r.mmio # NoRange => r.mmio.base \in 0 .. MaxAddr /\ r.mmio.len \in 0 .. MaxAddr
       /\ r.io # NoRange => r.io.base \in 0 .. MaxPort /\ r.io.len \in 0 .. MaxPort

VARIABLES
  devices,  \* the devices
  mmio,     \* MMIO routes
  io,       \* I/O-port routes
  irqs,     \* interrupt routes
  asked,    \* history: what each device was registered with
  sent,     \* history: bytes a guest wrote to a console since it was reset
  heard     \* history: bytes the host drained from a console since then, or
            \* bytes a random device handed out since it was seeded or reset

vars == <<devices, mmio, io, irqs, asked, sent, heard>>

Init ==
  /\ devices = <<>>
  /\ mmio = {} /\ io = {} /\ irqs = {}
  /\ asked = <<>> /\ sent = <<>> /\ heard = <<>>

-----------------------------------------------------------------------------
\* The end of an MMIO range saturates at u64::MAX; a port range is computed in u32.
MmioEnd(r) == IF r.base + r.len > MaxAddr THEN MaxAddr ELSE r.base + r.len
PortEnd(r) == r.base + r.len
End(space, r) == IF space = "mmio" THEN MmioEnd(r) ELSE PortEnd(r)

\* Faulty variant: only a range that starts inside an earlier one is refused.
StartsInside(space, r, s) == r.base <= s.base /\ s.base < End(space, r)

Overlaps(space, r, s) ==
  r.base < End(space, s) /\ s.base < End(space, r)

Insertable(space, routes, s) ==
  s.len # 0 /\ \A r \in routes : ~Overlaps(space, r, s)

Route(r, i) == [base |-> r.base, len |-> r.len, device |-> i]

\* Where the routes of a table send an address.
Targets(space, routes, a) ==
  {[device |-> r.device, offset |-> a - r.base] :
     r \in {s \in routes : s.base <= a /\ a < End(space, s)}}

\* Faulty variant: the MMIO route of the refused device is kept.
Kept(routes, i) == routes

RolledBack(routes, i) == {r \in routes : r.device # i}

\* A range a registration leaves out installs no route.
Accepts(space, routes, r) == r # NoRange => Insertable(space, routes, r)
With(routes, r, i) == IF r = NoRange THEN routes ELSE routes \cup {Route(r, i)}

\* IrqRouteTable::insert replaces an earlier line of the device.
Bound(routes, line, i) ==
  IF line = NoLine THEN routes
  ELSE {r \in routes : r.device # i} \cup {[device |-> i, irq |-> line]}

Register(reg, seed) ==
  LET i == Len(devices) + 1 IN
  /\ i <= MaxDevices
  /\ Accepts("mmio", mmio, reg.mmio)
  /\ \/ /\ Accepts("io", io, reg.io)
        /\ mmio' = With(mmio, reg.mmio, i)
        /\ io' = With(io, reg.io, i)
        /\ irqs' = Bound(irqs, reg.irq, i)
        /\ devices' = Append(devices, PowerOn(reg.kind, seed))
        /\ asked' = Append(asked, reg)
        /\ sent' = Append(sent, <<>>) /\ heard' = Append(heard, <<>>)
     \/ /\ ~Accepts("io", io, reg.io)
        /\ mmio' = RolledBack(With(mmio, reg.mmio, i), i)
        /\ UNCHANGED <<devices, io, irqs, asked, sent, heard>>

-----------------------------------------------------------------------------
\* A write reaches the target's register, or is refused and changes nothing.
MmioWrite(a, v, width) ==
  \E t \in Targets("mmio", mmio, a) :
    LET d == devices[t.device] IN
    /\ t.device \in DOMAIN devices
    /\ TakesMmio(d, t.offset, v, width)
    /\ Len(sent[t.device]) < MaxBytes
    /\ devices' = [devices EXCEPT ![t.device] = Written(d, t.offset, v)]
    /\ sent' = IF d.kind = "console" THEN [sent EXCEPT ![t.device] = Append(@, v)] ELSE sent
    /\ heard' = IF d.kind = "rng" THEN [heard EXCEPT ![t.device] = <<>>] ELSE heard
    /\ UNCHANGED <<mmio, io, irqs, asked>>

\* The one read with an effect: the random device hands out the next bytes.
MmioRead(a, width) ==
  \E t \in Targets("mmio", mmio, a) :
    LET d == devices[t.device] IN
    /\ t.device \in DOMAIN devices
    /\ d.kind = "rng" /\ t.offset = RNG_REG_DATA
    /\ Len(heard[t.device]) + width <= MaxBytes
    /\ devices' = [devices EXCEPT ![t.device] = Taken(d, width).device]
    /\ heard' = [heard EXCEPT ![t.device] = @ \o Taken(d, width).bytes]
    /\ UNCHANGED <<mmio, io, irqs, asked, sent>>

IoWrite(p, v, width) ==
  \E t \in Targets("io", io, p) :
    LET d == devices[t.device] IN
    /\ t.device \in DOMAIN devices
    /\ TakesIo(d, t.offset, v, width)
    /\ devices' = [devices EXCEPT ![t.device] = Written(d, t.offset, v)]
    /\ UNCHANGED <<mmio, io, irqs, asked, sent, heard>>

TickDevice(i) ==
  /\ devices' = [devices EXCEPT ![i] = Ticked(@)]
  /\ UNCHANGED <<mmio, io, irqs, asked, sent, heard>>

\* The host drains a console that it holds.
TakeOutput(i) ==
  /\ devices[i].kind = "console"
  /\ heard' = [heard EXCEPT ![i] = @ \o devices[i].out]
  /\ devices' = [devices EXCEPT ![i] = Drained(@)]
  /\ UNCHANGED <<mmio, io, irqs, asked, sent>>

ResetDevice(i) ==
  /\ devices' = [devices EXCEPT ![i] = Reset(@)]
  /\ sent' = [sent EXCEPT ![i] = <<>>]
  /\ heard' = [heard EXCEPT ![i] = <<>>]
  /\ UNCHANGED <<mmio, io, irqs, asked>>

Next ==
  \/ \E reg \in Registrations, seed \in Values : Register(reg, seed)
  \/ \E a \in 0 .. MaxAddr, v \in Values, w \in Widths : MmioWrite(a, v, w)
  \/ \E a \in 0 .. MaxAddr, w \in Widths : MmioRead(a, w)
  \/ \E p \in 0 .. MaxPort, v \in Values, w \in Widths : IoWrite(p, v, w)
  \/ \E i \in DOMAIN devices : TickDevice(i) \/ TakeOutput(i) \/ ResetDevice(i)

Spec == Init /\ [][Next]_vars

-----------------------------------------------------------------------------
Devices ==
  [kind : {"test"}, regs : [Registers -> Nat], ticks : Nat] \cup
  [kind : {"console"}, out : Seq(Values)] \cup
  [kind : {"rng"}, seed : Values, counter : Nat, block : Nat, pos : Nat] \cup
  [kind : {"net"}, tx_bytes : Nat] \cup
  [kind : {"clock"}, now : Nat]

\* What is heard of a device of each kind.
Bytes(kind) == IF kind = "rng" THEN Values \X Nat \X Nat ELSE Values

\* Every device has the kind it was registered with and the registers of that kind,
\* and a history of its own; no route leads to a device that is not there.
TypeOK ==
  /\ devices \in Seq(Devices) /\ asked \in Seq(Registrations)
  /\ sent \in Seq(Seq(Values))
  /\ Len(asked) = Len(devices) /\ Len(sent) = Len(devices) /\ Len(heard) = Len(devices)
  /\ \A i \in DOMAIN devices :
       devices[i].kind = asked[i].kind /\ heard[i] \in Seq(Bytes(devices[i].kind))
  /\ \A r \in mmio \cup io \cup irqs : r.device \in DOMAIN devices

\* The addresses of a range, and who was registered for an address.
Span(r) == IF r = NoRange THEN {} ELSE r.base .. r.base + r.len - 1
MmioOwners(a) == {i \in DOMAIN asked : a \in Span(asked[i].mmio)}
PortOwners(p) == {i \in DOMAIN asked : p \in Span(asked[i].io)}

\* An address below the top and a port reach the one device registered for it, at
\* its place in that device's range, and reach nothing when no device was: also
\* after registrations that were refused half-way.
RoutedToOwner ==
  /\ \A a \in 0 .. MaxAddr - 1 :
       /\ Targets("mmio", mmio, a) =
            {[device |-> i, offset |-> a - asked[i].mmio.base] : i \in MmioOwners(a)}
       /\ Cardinality(MmioOwners(a)) <= 1
  /\ \A p \in 0 .. MaxPort :
       /\ Targets("io", io, p) =
            {[device |-> i, offset |-> p - asked[i].io.base] : i \in PortOwners(p)}
       /\ Cardinality(PortOwners(p)) <= 1

\* A device changes only by an access to an address or a port it was registered
\* for, with a value the width admits where the device looks at widths, or by its
\* own tick, drain or reset.
WritesStayInRange ==
  [][\A i \in DOMAIN devices : devices'[i] # devices[i] =>
       \/ ResetDevice(i) \/ TickDevice(i) \/ TakeOutput(i)
       \/ \E a \in Span(asked[i].mmio), w \in Widths : MmioRead(a, w)
       \/ \E v \in Values, w \in Widths :
            /\ v <= Mask(w) \/ devices[i].kind = "net"
            /\ \/ \E a \in Span(asked[i].mmio) : MmioWrite(a, v, w)
               \/ \E p \in Span(asked[i].io) : IoWrite(p, v, w)]_vars

\* What the guest wrote to a console is what the host drained and what is still
\* buffered, in order, each byte once, however draining and writing alternate.
ConsoleLosesNothing ==
  \A i \in DOMAIN devices :
    devices[i].kind = "console" => sent[i] = heard[i] \o devices[i].out

\* "The same seed always produces the same stream": the n-th byte a random device
\* hands out since its seed was set or it was reset depends on nothing but the
\* seed and n, whatever widths the bytes were read in.
StreamFollowsSeed ==
  \A i \in DOMAIN devices : devices[i].kind = "rng" =>
    \A n \in DOMAIN heard[i] :
      heard[i][n] = <<devices[i].seed, ((n - 1) \div BlockLen) % CounterSize,
                      (n - 1) % BlockLen>>

\* "Rejects zero-length ranges and ranges overlapping an existing route": no two
\* devices are registered for one address.
AcceptedRangesDisjoint ==
  \A a \in 0 .. MaxAddr : Cardinality(MmioOwners(a)) <= 1

=============================================================================
