--------------------------- MODULE MCStationFiles ---------------------------
(* A hosted layout: the data volume at /mnt/data, a drive at /mnt/usb whose  *)
(* directory stays when it is unmounted, and the owner's home on the root disk. *)
EXTENDS StationFiles

DataVolume == <<"mnt", "data">>
Usb == <<"mnt", "usb">>
Home == <<"home">>
Backups == DataVolume \o <<"backups">>

MCBaseDir == DataVolume \o <<"station">>
MCIpfsRepo == DataVolume \o <<"ipfs">>
MCDataRoot == {DataVolume}
MCMediaDirs == {<<"media">>, <<"mnt">>}
MCStandingDirs == {Usb, Home, Backups}
MCDrives == {Usb}
MCDataMounts == {DataVolume}
MCNamedDests == {NoDest, Home, Backups}
=============================================================================
