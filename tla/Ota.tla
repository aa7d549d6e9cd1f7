-------------------------------- MODULE Ota --------------------------------
(***************************************************************************)
(* The update over the air (examples/common/ota/ota.c, service_ota.c).     *)
(* Flash holds two information pages and the code: the image that runs     *)
(* (zone A) from page 0 on and, right behind it, the image a client sends  *)
(* (zone B).  REBOOT checks the CRC of zone B, writes its information page *)
(* in four flash operations and lets the watchdog reset the chip; the boot *)
(* loader, which is not in the repository, copies zone B over zone A.      *)
(*                                                                         *)
(* Power may fail at any point, in the middle of a flash operation too.    *)
(* Of a page of flash the model keeps which page of which image is on it.  *)
(* WRITE_MEM, which copies what a client sends to any address it names, is *)
(* left out: the update keeps nothing in RAM from one command to the next, *)
(* but the program does.                                                   *)
(***************************************************************************)
EXTENDS Naturals, FiniteSets

CONSTANTS
  Images,
  Length,        \* pages of each image, as REBOOT says: firmware_length is not checked
  Factory,       \* the image the chip is delivered with
  NULL,
  Top,           \* pages of the code area
  MaxFails,      \* bound: how often power fails
  MaxVersion,    \* bound: updates
  LateCommands   \* clients send commands while the watchdog runs out

ASSUME OtaAssumption ==
  /\ NULL \notin Images /\ Factory \in Images
  /\ Length \in [Images -> Nat] /\ Length[Factory] > 0
  /\ \A i, j \in Images : Length[i] + Length[j] <= Top
  /\ {Top, MaxFails, MaxVersion} \subseteq Nat
  /\ LateCommands \in BOOLEAN

VARIABLES
  pages,  \* the code area
  aInfo,  \* zone A information: the image that runs and its version
  bInfo,  \* zone B information: state of its three parts, and what they say
  on,     \* who runs: the application, or the boot loader and where it is
  pc,     \* where the handler of REBOOT is
  hdr,    \* its local b_info
  armed,  \* chip_reset has started the watchdog
  link,   \* the connection: "down", "up", or "ntf" with notifications enabled
  told,   \* the storage address the client was told last
  fails   \* bound: power failures so far

flash  == <<pages, aInfo, bInfo>>
ram    == <<pc, hdr, armed, link>>
vars   == <<flash, on, ram, told, fails>>

Page == 0 .. Top - 1
Erased == <<NULL, 0>>
Mixed == <<NULL, 1>>    \* programmed twice, or power failed on it
PageOf(i, k) == <<i, k>>
Contents == {Erased, Mixed} \cup {PageOf(i, k) : i \in Images, k \in Page}

Parts == {"erased", "torn", "written"}
NoInfo == [tail |-> "erased", body |-> "erased", valid |-> "erased",
           image |-> NULL, offset |-> 0, version |-> 0, copied |-> 0]
NoHdr == [image |-> NULL, offset |-> 0, version |-> 0]

Init ==
  /\ pages = [p \in Page |-> IF p < Length[Factory] THEN PageOf(Factory, p) ELSE Erased]
  /\ aInfo = [image |-> Factory, version |-> 0]
  /\ bInfo = NoInfo
  /\ on = "app"
  /\ pc = "idle" /\ hdr = NoHdr /\ armed = FALSE
  /\ link = "down" /\ told = 0
  /\ fails = 0

-----------------------------------------------------------------------------
(***************************************************************************)
(* The application                                                         *)
(***************************************************************************)
\* Mutant: zone B begins a page too early.
StorageAddressTooLow == Length[aInfo.image] - 1

\* app_otas_get_storage_address: the first page behind the image that runs.
StorageAddress == Length[aInfo.image]

\* Mutant: the version counts on from zone B's.
ZoneBVersion == bInfo.version

\* ota_get_current_version: zone A's, or zone B's if A has none.
CurrentVersion == IF aInfo.version = 0 THEN bInfo.version ELSE aInfo.version

AppReady == on = "app" /\ pc = "idle" /\ (armed => LateCommands)
Serving == AppReady /\ link # "down"

Connect ==
  /\ on = "app" /\ link = "down"
  /\ link' = "up"
  /\ UNCHANGED <<flash, on, pc, hdr, armed, told, fails>>

LinkLost ==
  /\ on = "app" /\ pc = "idle" /\ link # "down"
  /\ link' = "down"
  /\ UNCHANGED <<flash, on, pc, hdr, armed, told, fails>>

EnableNotifications ==
  /\ Serving /\ link = "up"
  /\ link' = "ntf"
  /\ UNCHANGED <<flash, on, pc, hdr, armed, told, fails>>

\* GET_STR_BASE: the answer is a notification.
GetStorageBase ==
  /\ Serving
  /\ told' = IF link = "ntf" THEN StorageAddress ELSE told
  /\ UNCHANGED <<flash, on, ram, fails>>

\* PAGE_ERASE: below zone B the connection is ended instead.
PageErase(p) ==
  /\ Serving
  /\ IF p < StorageAddress
     THEN link' = "down" /\ UNCHANGED pages
     ELSE pages' = [pages EXCEPT ![p] = Erased] /\ UNCHANGED link
  /\ UNCHANGED <<aInfo, bInfo, on, pc, hdr, armed, told, fails>>

\* WRITE_DATA: below zone B nothing is written, though the answer is the same.
WriteData(p, i, k) ==
  /\ Serving
  /\ pages' = IF p < StorageAddress THEN pages
              ELSE [pages EXCEPT ![p] = IF @ \in {Erased, PageOf(i, k)} THEN PageOf(i, k) ELSE Mixed]
  /\ UNCHANGED <<aInfo, bInfo, on, ram, told, fails>>

\* Mutant: only the first page counts.
VerifiedFirstPage(i) == pages[StorageAddress] = PageOf(i, 0)

\* app_otas_crc_cal on the length and the CRC of image i.
Verified(i) == \A k \in 0 .. Length[i] - 1 : pages[StorageAddress + k] = PageOf(i, k)

\* REBOOT: on a wrong CRC the chip is reset all the same.
Reboot(i) ==
  /\ Serving /\ CurrentVersion < MaxVersion
  /\ IF Verified(i)
     THEN /\ hdr' = [image |-> i, offset |-> StorageAddress, version |-> CurrentVersion + 1]
          /\ pc' = "erase" /\ UNCHANGED armed
     ELSE armed' = TRUE /\ UNCHANGED <<hdr, pc>>
  /\ UNCHANGED <<flash, on, link, told, fails>>

HeaderAt(where) == on = "app" /\ pc = where

\* The information page is erased, then written with image_valid last.
HeaderErase ==
  /\ HeaderAt("erase") /\ pc' = "tail"
  /\ bInfo' = NoInfo
  /\ UNCHANGED <<pages, aInfo, on, hdr, armed, link, told, fails>>

\* Mutant: image_valid comes first.
HeaderValidFirst ==
  /\ HeaderAt("tail") /\ pc' = "body"
  /\ bInfo' = [bInfo EXCEPT !.valid = "written"]
  /\ UNCHANGED <<pages, aInfo, on, hdr, armed, link, told, fails>>

HeaderTail ==
  /\ HeaderAt("tail") /\ pc' = "body"
  /\ bInfo' = [bInfo EXCEPT !.tail = "written"]
  /\ UNCHANGED <<pages, aInfo, on, hdr, armed, link, told, fails>>

HeaderBody ==
  /\ HeaderAt("body") /\ pc' = "valid"
  /\ bInfo' = [bInfo EXCEPT !.body = "written", !.image = hdr.image,
                            !.offset = hdr.offset, !.version = hdr.version]
  /\ UNCHANGED <<pages, aInfo, on, hdr, armed, link, told, fails>>

HeaderValid ==
  /\ HeaderAt("valid") /\ pc' = "reset"
  /\ bInfo' = [bInfo EXCEPT !.valid = "written"]
  /\ UNCHANGED <<pages, aInfo, on, hdr, armed, link, told, fails>>

\* Mutant: the watchdog is not started.
ChipResetStartsNothing ==
  /\ HeaderAt("reset") /\ pc' = "idle"
  /\ hdr' = NoHdr
  /\ UNCHANGED <<flash, on, armed, link, told, fails>>

\* chip_reset only starts the watchdog; the handler returns.
ChipReset ==
  /\ HeaderAt("reset") /\ pc' = "idle"
  /\ armed' = TRUE /\ hdr' = NoHdr
  /\ UNCHANGED <<flash, on, link, told, fails>>

-----------------------------------------------------------------------------
(***************************************************************************)
(* Resets                                                                  *)
(***************************************************************************)
Off == on' = "boot" /\ pc' = "idle" /\ hdr' = NoHdr /\ armed' = FALSE /\ link' = "down"

\* The watchdog does not care for masked interrupts.
Watchdog ==
  /\ on = "app" /\ armed
  /\ Off
  /\ UNCHANGED <<flash, told, fails>>

Fails == fails < MaxFails /\ fails' = fails + 1 /\ Off /\ UNCHANGED <<aInfo, told>>

PowerFails == Fails /\ UNCHANGED <<pages, bInfo>>

\* Power fails on a page that is being erased or programmed.
PowerFailsOnPage ==
  /\ Serving
  /\ Fails
  /\ \E p \in Page : p >= StorageAddress /\ pages' = [pages EXCEPT ![p] = Mixed]
  /\ UNCHANGED bInfo

\* Power fails on a part of the information page.
Tear(part) == bInfo' = [bInfo EXCEPT ![part] = "torn"]
PowerFailsOnHeader ==
  /\ on = "app"
  /\ \/ pc = "erase" /\ \E part \in {"tail", "body", "valid"} : Tear(part)
     \/ pc = "tail" /\ Tear("tail")
     \/ pc = "body" /\ Tear("body")
     \/ pc = "valid" /\ Tear("valid")
  /\ Fails
  /\ UNCHANGED pages

-----------------------------------------------------------------------------
(***************************************************************************)
(* The boot loader, of which only the flow chart is in the repository      *)
(* (FR30xx OTA.pdf beside ota.c).  It notes each page it has copied        *)
(* (copy_unit, copy_flag_store_step) and goes on from there.               *)
(***************************************************************************)
\* image_valid, info_crc and ota_magic of zone B are what REBOOT writes.
Accepted == bInfo.valid = "written" /\ bInfo.body = "written" /\ bInfo.tail = "written"

Boot ==
  /\ on = "boot"
  /\ on' = IF Accepted THEN "copy" ELSE "app"
  /\ UNCHANGED <<flash, ram, told, fails>>

BootCopies ==
  /\ on = "copy" /\ bInfo.copied < Length[bInfo.image]
  /\ pages' = [pages EXCEPT ![bInfo.copied] = pages[bInfo.offset + bInfo.copied]]
  /\ bInfo' = [bInfo EXCEPT !.copied = @ + 1]
  /\ UNCHANGED <<aInfo, on, ram, told, fails>>

PowerFailsOnCopy ==
  /\ on = "copy" /\ bInfo.copied < Length[bInfo.image]
  /\ Fails
  /\ pages' = [pages EXCEPT ![bInfo.copied] = Mixed]
  /\ UNCHANGED bInfo

\* Zone A is what image_crc of zone B says, or the boot loader begins again, in vain.
Holds(i, at) == \A k \in 0 .. Length[i] - 1 : pages[at + k] = PageOf(i, k)

BootInstalls ==
  /\ on = "copy" /\ bInfo.copied = Length[bInfo.image]
  /\ IF Holds(bInfo.image, 0)
     THEN on' = "erase" /\ aInfo' = [image |-> bInfo.image, version |-> bInfo.version]
     ELSE on' = "boot" /\ UNCHANGED aInfo
  /\ UNCHANGED <<pages, bInfo, ram, told, fails>>

BootErases ==
  /\ on = "erase"
  /\ bInfo' = NoInfo
  /\ on' = "app"
  /\ UNCHANGED <<pages, aInfo, ram, told, fails>>

-----------------------------------------------------------------------------
Client ==
  \/ Connect \/ LinkLost \/ EnableNotifications \/ GetStorageBase
  \/ \E i \in Images : Reboot(i) \/ \E k \in 0 .. Length[i] - 1 : WriteData(told + k, i, k)
  \/ \E i \in Images : \E k \in 0 .. Length[i] - 1 : PageErase(told + k)

Header == HeaderErase \/ HeaderTail \/ HeaderBody \/ HeaderValid \/ ChipReset
BootLoader == Boot \/ BootCopies \/ BootInstalls \/ BootErases
Power == PowerFails \/ PowerFailsOnPage \/ PowerFailsOnHeader \/ PowerFailsOnCopy

Next == Client \/ Header \/ Watchdog \/ BootLoader \/ Power

\* The handler goes on, the watchdog runs out, the boot loader runs.  Nothing is
\* assumed of the client; power fails MaxFails times at most.
Fairness == WF_vars(Header) /\ WF_vars(Watchdog) /\ WF_vars(BootLoader)

Spec == Init /\ [][Next]_vars /\ Fairness

-----------------------------------------------------------------------------
(***************************************************************************)
(* Properties                                                              *)
(***************************************************************************)
Types ==
  /\ pages \in [Page -> Contents]
  /\ aInfo \in [image : Images, version : 0 .. MaxVersion]
  /\ bInfo \in [tail : Parts, body : Parts, valid : Parts, image : Images \cup {NULL},
                offset : 0 .. Top, version : 0 .. MaxVersion, copied : 0 .. Top]
  /\ on \in {"app", "boot", "copy", "erase"}
  /\ pc \in {"idle", "erase", "tail", "body", "valid", "reset"}
  /\ hdr \in [image : Images \cup {NULL}, offset : 0 .. Top, version : 0 .. MaxVersion]
  /\ armed \in BOOLEAN /\ link \in {"down", "up", "ntf"}
  /\ told \in 0 .. Top /\ fails \in 0 .. MaxFails
ValidComesLast == bInfo.valid = "written" => bInfo.body = "written" /\ bInfo.tail = "written"

\* Every variable stays within what the flash and the program can hold, and
\* image_valid is never there without the parts it vouches for.
TypeOK == Types /\ ValidComesLast

\* What the client has to keep to: REBOOT with firmware_length 0 is taken for an
\* image, and behind it zone B begins where the code is.
NoEmptyImage == \A i \in Images : Length[i] > 0

\* Whatever pages a client erases and writes, whenever, and wherever power fails,
\* the code that runs is complete, and is what zone A's information says: no page
\* command reaches zone A (ota.c:405 and 421), and zone A is only ever replaced by
\* an image whose CRC REBOOT has checked.
RunsIntact ==
  on = "app" =>
    /\ Holds(aInfo.image, 0)
    /\ \E i \in Images : Length[i] > 0 /\ Holds(i, 0)

\* Every update raises the version, though zone B's information is erased and
\* rewritten on the way: ota_get_current_version never counts from nothing again.
VersionGrows == [][aInfo' # aInfo => aInfo'.version > aInfo.version]_vars

\* The image the next boot will install: whole, or "torn".  Pages already copied
\* are in zone A, and may have overwritten the head of zone B.
Installed == aInfo.image = bInfo.image /\ aInfo.version = bInfo.version
Whole == \A k \in 0 .. Length[bInfo.image] - 1 :
           pages[IF k < bInfo.copied THEN k ELSE bInfo.offset + k] = PageOf(bInfo.image, k)
Committed == IF ~Accepted \/ Installed THEN NULL
             ELSE IF Whole THEN bInfo.image ELSE "torn"

\* The order in which REBOOT writes the flash, and the boot loader's notes, make
\* the update atomic: it is committed by one write, of image_valid.
Promise == INSTANCE OtaPromise WITH running <- aInfo.image, committed <- Committed, Nothing <- NULL
ImplementsPromise == Promise!Spec

\* A committed image is installed in the end, through the watchdog and through
\* power failures while the boot loader copies.
CommittedIsInstalled == \A i \in Images : Committed = i ~> aInfo.image = i

=============================================================================
