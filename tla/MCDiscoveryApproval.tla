------------------------- MODULE MCDiscoveryApproval -------------------------
EXTENDS DiscoveryApproval

CONSTANTS x, y, s1, s2, s3

P(m, api, s, i, r) == [mfr |-> m, api |-> api, serial |-> s, ip |-> i, role |-> r]

\* A device, the same at another address, a second one that reports an identifier to a poll
\* and none to discovery, and one that answers for the first under another serial number.
Device == P(1, x, s1, 1, "receiver")
Moved == P(1, x, s1, 2, "receiver")
Second == P(1, y, s2, 3, "receiver")
SecondBare == P(1, Blank, s2, 2, "receiver")
Replaced == P(1, x, s2, 2, "receiver")

\* A charger, and a device of another manufacturer with the serial number of the first.
Nameless == P(1, Blank, s3, 3, "charger")
Foreign == P(2, y, s1, 2, "receiver")

MCPayloads == {Device, Moved, Second, SecondBare, Replaced, Nameless, Foreign}

MCInventories == {<<Moved>>, <<Second, Device>>, <<Foreign>>}

MCReviewers == {{"add"}, {"add", "change", "charger"}}

Known(p) ==
  [mfr |-> p.mfr, api |-> p.api, serial |-> p.serial, ip |-> p.ip, retired |-> FALSE,
   origin |-> "seen"]

Entry(p) == [NoEntry EXCEPT !.state = "pending", !.mfr = p.mfr, !.api = p.api, !.serial = p.serial,
                            !.ip = p.ip, !.role = p.role]

Start(c, g, p, q) ==
  [rows |-> [h \in Hardware |-> IF h = 11 THEN c ELSE IF h = 21 THEN g ELSE Nobody],
   queue |-> [e \in Entries |-> IF e = 31 THEN Entry(p) ELSE Entry(q)]]

\* Nothing is managed; the device and a charger are; two entries share an address, and one
\* of them disagrees with the device.
MCBeginnings ==
  {Start(Nobody, Nobody, Device, SecondBare),
   Start(Known(Device), Known(Nameless), Moved, Nameless),
   Start(Known(Device), Nobody, Foreign, Replaced)}
=============================================================================
