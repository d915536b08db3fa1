----------------------------- MODULE AndroidApp -----------------------------
(***************************************************************************)
(* MainActivity.java: what the application on the phone does with the lines *)
(* the user puts in its queue.  The user's taps run on the UI thread; the   *)
(* callbacks of Android's Bluetooth stack run on another and come between  *)
(* any two of its steps, between connectGatt and the assignment of its     *)
(* result too, and between the two halves of a send: the characteristic    *)
(* holds the value until it is written, and both threads send through it.  *)
(* The stack takes one write of a client at a time and refuses the others; *)
(* nobody looks at the result.                                             *)
(***************************************************************************)
EXTENDS Integers, Queues

CONSTANTS
    MaxServices,    \* bound: services a micro:bit lists
    MaxLines,       \* bound: lines the user makes
    MaxClients,     \* bound: calls of connectGatt
    MaxDevices      \* bound: results of a scan

VARIABLES
    ui,              \* the UI thread: "idle", "sending", "writing" or "connecting"
    queue, position,     \* the lines, and the place of the one that forEach sends
    btScanning, devicesDiscovered,
    bluetoothGatt,   \* the client, by its number, 0 for null
    btTXCharac,      \* whether it is a characteristic, and not null
    value,           \* what that holds: a line, by its number, or "" (0)
    services,        \* what the callback still walks: whether each is the UART's
    noted,           \* the callback has set the value and not yet written it
    \* Android's stack
    clients, opening, linked,   \* clients made, one that will connect, those with a link
    searching,       \* clients whose services are being discovered
    busy,            \* clients with a write under way
    air,             \* those writes, in order
    \* history
    made,            \* the lines are numbered as they are queued
    received,        \* what the micro:bit got
    raced            \* lines that the callback has written for its empty string

queued == <<queue, position>>
scan == <<btScanning, devicesDiscovered>>
callback == <<btTXCharac, services, noted>>
activity == <<ui, queued, scan, bluetoothGatt, callback, value>>
stack == <<clients, opening, linked, searching, busy, air>>
history == <<made, received, raced>>
vars == <<activity, stack, history>>

Init ==
    /\ ui = "idle" /\ queue = <<>> /\ position = 0
    /\ btScanning = FALSE /\ devicesDiscovered = 0
    /\ bluetoothGatt = 0 /\ btTXCharac = FALSE /\ value = 0
    /\ services = <<>> /\ noted = FALSE
    /\ clients = 0 /\ opening = 0 /\ linked = {} /\ searching = {} /\ busy = {} /\ air = <<>>
    /\ made = 0 /\ received = <<>> /\ raced = {}

\* An exception ends the process, and Android takes its clients down; the user
\* starts it again.
Dies ==
    /\ ui' = "idle" /\ queue' = <<>> /\ position' = 0
    /\ btScanning' = FALSE /\ devicesDiscovered' = 0
    /\ bluetoothGatt' = 0 /\ btTXCharac' = FALSE /\ value' = 0
    /\ services' = <<>> /\ noted' = FALSE
    /\ opening' = 0 /\ linked' = {} /\ searching' = {} /\ busy' = {} /\ air' = <<>>
    /\ UNCHANGED <<clients, history>>

-----------------------------------------------------------------------------
(* send(): setValue, writeCharacteristic.                                  *)

Refused(g) == g \notin linked \/ g \in busy
writeCharacteristic ==
    \/ /\ ~Refused(bluetoothGatt)
       /\ busy' = busy \cup {bluetoothGatt}
       /\ air' = Append(air, [client |-> bluetoothGatt, line |-> value])
    \/ /\ Refused(bluetoothGatt)
       /\ UNCHANGED <<busy, air>>

-----------------------------------------------------------------------------
(* The user.                                                               *)

AddLine ==
    /\ ui = "idle" /\ made < MaxLines
    /\ made' = made + 1
    /\ queue' = Append(queue, made + 1)
    /\ UNCHANGED <<ui, position, scan, bluetoothGatt, callback, value, stack, received, raced>>

SendTapped ==
    /\ ui = "idle" /\ queue /= <<>>
    /\ ui' = "sending" /\ position' = 1
    /\ UNCHANGED <<queue, scan, bluetoothGatt, callback, value, stack, history>>

setValue ==
    /\ ui = "sending" /\ position <= Len(queue)
    /\ \/ ~btTXCharac /\ Dies
       \/ /\ btTXCharac
          /\ value' = queue[position]
          /\ ui' = "writing"
          /\ UNCHANGED <<queued, scan, bluetoothGatt, callback, stack, history>>

SendLine ==
    /\ ui = "writing"
    /\ \/ (~btTXCharac \/ bluetoothGatt = 0) /\ Dies
       \/ /\ btTXCharac /\ bluetoothGatt /= 0
          /\ writeCharacteristic
          /\ position' = position + 1 /\ ui' = "sending"
          /\ UNCHANGED <<queue, scan, bluetoothGatt, callback, value, clients, opening,
                         linked, searching, history>>

Cleared_Not == queue
Cleared == <<>>
SendEnds ==
    /\ ui = "sending" /\ position > Len(queue)
    /\ ui' = "idle" /\ position' = 0
    /\ queue' = Cleared
    /\ UNCHANGED <<scan, bluetoothGatt, callback, value, stack, history>>

\* The button is gone while a scan runs.
startScanning ==
    /\ ui = "idle" /\ ~btScanning
    /\ btScanning' = TRUE /\ devicesDiscovered' = 0
    /\ UNCHANGED <<ui, queued, bluetoothGatt, callback, value, stack, history>>

stopScanning ==
    /\ ui = "idle" /\ btScanning
    /\ btScanning' = FALSE
    /\ UNCHANGED <<ui, queued, devicesDiscovered, bluetoothGatt, callback, value, stack,
                   history>>

\* A device is listed each time it is heard; late results come too.
onScanResult ==
    /\ devicesDiscovered < MaxDevices
    /\ devicesDiscovered' = devicesDiscovered + 1
    /\ UNCHANGED <<ui, queued, btScanning, bluetoothGatt, callback, value, stack, history>>

\* The index the user has typed may be none of the list's.
connectToDeviceSelected ==
    /\ ui = "idle"
    /\ \/ Dies
       \/ /\ devicesDiscovered > 0 /\ clients < MaxClients
          /\ clients' = clients + 1 /\ opening' = clients + 1
          /\ ui' = "connecting"
          /\ UNCHANGED <<queued, scan, bluetoothGatt, callback, value, linked, searching,
                         busy, air, history>>

Assign ==
    /\ ui = "connecting"
    /\ bluetoothGatt' = clients
    /\ ui' = "idle"
    /\ UNCHANGED <<queued, scan, callback, value, stack, history>>

\* What a client that goes leaves: its write is lost, or has just arrived.
Dropped(gone) ==
    /\ linked' = linked \ gone /\ busy' = busy \ gone /\ searching' = searching \ gone
    /\ air' = OnlyIn(air, {w \in ToSet(air) : w.client \notin gone})
    /\ UNCHANGED <<clients, opening, history>>

disconnectDeviceSelected ==
    /\ ui = "idle"
    /\ \/ bluetoothGatt = 0 /\ Dies
       \/ /\ bluetoothGatt /= 0
          /\ Dropped({bluetoothGatt})
          /\ UNCHANGED activity

-----------------------------------------------------------------------------
(* The stack, and the callbacks.                                           *)

LinkLost ==
    /\ linked /= {}
    /\ Dropped(linked)
    /\ UNCHANGED activity

WriteArrives ==
    /\ air /= <<>>
    /\ received' = IF Head(air).line = 0 THEN received ELSE Append(received, Head(air).line)
    /\ air' = Tail(air)
    /\ busy' = busy \ {Head(air).client}
    /\ UNCHANGED <<activity, clients, opening, linked, searching, made, raced>>

\* discoverServices() is asked of the client in the field, which may be null or
\* another than the one that has connected; Android catches what a callback throws.
onConnectionStateChange ==
    /\ opening /= 0
    /\ opening' = 0
    /\ linked' = linked \cup {opening}
    /\ searching' = searching \cup ({bluetoothGatt} \cap linked')
    /\ UNCHANGED <<activity, clients, busy, air, history>>

onServicesDiscovered ==
    /\ searching /= {} /\ services = <<>>
    /\ searching' = {}
    /\ \E n \in 1 .. MaxServices : services' \in [1 .. n -> BOOLEAN]
    /\ UNCHANGED <<ui, queued, scan, bluetoothGatt, btTXCharac, noted, value, clients,
                   opening, linked, busy, air, history>>

\* One characteristic: the field is set, to null if the service is not the UART's,
\* and the empty string is sent; setValue throws on null, and before it the text
\* view may because it is the wrong thread's.
displayGattServices ==
    /\ services /= <<>> /\ ~noted
    /\ btTXCharac' = Head(services)
    /\ \/ /\ services' = <<>>
          /\ UNCHANGED <<noted, value>>
       \/ /\ btTXCharac'
          /\ value' = 0 /\ noted' = TRUE
          /\ UNCHANGED services
    /\ UNCHANGED <<ui, queued, scan, bluetoothGatt, stack, history>>

\* It writes what the characteristic holds by then.
SendEmpty ==
    /\ noted
    /\ noted' = FALSE
    /\ \/ /\ bluetoothGatt = 0
          /\ services' = <<>>
          /\ UNCHANGED <<busy, air, raced>>
       \/ /\ bluetoothGatt /= 0
          /\ services' = Tail(services)
          /\ writeCharacteristic
          /\ raced' = raced \cup ({value} \ {0})
    /\ UNCHANGED <<ui, queued, scan, bluetoothGatt, btTXCharac, value, clients, opening,
                   linked, searching, made, received>>

-----------------------------------------------------------------------------
User ==
    \/ AddLine \/ SendTapped \/ setValue \/ SendLine \/ SendEnds \/ startScanning \/ stopScanning
    \/ connectToDeviceSelected \/ Assign \/ disconnectDeviceSelected
Stack ==
    \/ onScanResult \/ LinkLost \/ WriteArrives \/ onConnectionStateChange
    \/ onServicesDiscovered \/ displayGattServices \/ SendEmpty
Next == User \/ Stack
Spec == Init /\ [][Next]_vars

-----------------------------------------------------------------------------
TypeOK ==
    /\ ui \in {"idle", "sending", "writing", "connecting"}
    /\ busy \subseteq linked /\ linked \subseteq 1 .. clients
    /\ bluetoothGatt \in 0 .. clients /\ value \in 0 .. made
    /\ noted => btTXCharac /\ services /= <<>>
    /\ \A g \in busy : \E i \in 1 .. Len(air) : air[i].client = g

\* The micro:bit gets the lines in the order the user made them, whatever is refused
\* or lost, across exceptions and clients: a script that arrives in part still
\* arrives in order.  It gets none twice, but for a line that the callback found in
\* the characteristic where it had put its empty string.
LinesInOrder ==
    /\ \A i, j \in 1 .. Len(received) : i < j =>
          \/ received[i] < received[j]
          \/ received[i] = received[j] /\ received[i] \in raced
    /\ \A i \in 1 .. Len(received) : received[i] \in 1 .. made

=============================================================================
