----------------------------- MODULE FusionCalls -----------------------------
(***************************************************************************)
(* CRESTFusionStorage (CmdAdapter/CmdRESTFusionStorage.cpp): how each call *)
(* talks to a FusionStorage array.  A call without a part returns          *)
(* RETURN_OK and sends nothing.                                            *)
(***************************************************************************)
EXTENDS RestProfile

(* fullRestPkg has no return statement after its loop, and it reads an     *)
(* error code only if the code is a string.                                *)
fullRestPkg == [Change EXCEPT !.spent = "any", !.refused = "any"]

(* A show through fullRestPkg fails then, for the field it looks up is     *)
(* missing (GET_JSON_VALUE).                                               *)
Lookup == Find

(* Shows that fall out of their loop and report success, answered or not.  *)
Hopeful == [Show EXCEPT !.spent = "ok"]

----------------------------------------------------------------------------
CMD_showarrayinfo == <<Find>>
CMD_showsys == <<Hopeful>>
CMD_showarraymodelinfo == <<Hopeful>>
CMD_showtlvsysinfo == CMD_showarraymodelinfo \o CMD_showsys
CMD_showarraystretched == <<>>

----------------------------------------------------------------------------
(* Replication pairs. *)
CMD_splithymirror == <<Change>>
CMD_changeSlaveLunRw == <<Change>>
CMD_synchymirror == <<Change>>
CMD_swaphymirror == <<Change>>
CMD_unmountSlave == <<Change>>
CMD_showhymirrorinfo == <<Hopeful>>

(* Only the first address is asked, an answer without data counts as an     *)
(* empty list whatever its error code, and a row that is skipped is not     *)
(* stepped over.                                                            *)
CMD_showhymirrorinfo_all ==
  <<[Show EXCEPT !.lost = "error", !.refused = "ok", !.keeps = TRUE,
                 !.row = {"next", "stuck"}]>>

----------------------------------------------------------------------------
(* LUNs, snapshots and clones. *)
CMD_showlun == <<Lookup>>
CMD_showlunByname == <<Lookup>>
CMD_showhymirrorlun_all ==
  <<Lookup>> \o CMD_showsys \o Optional(CMD_showlun)
CMD_showhyimginfo == <<Lookup>>

(* Every page goes through the addresses on its own, and all of them are    *)
(* read from one package.                                                   *)
CMD_showhyimgoflun ==
  Ignored(CMD_showlun) \o
    <<[Pages EXCEPT !.lost = "onward", !.rereads = TRUE, !.row = {"error"}]>>

CMD_createhyimg == <<Change>>
CMD_delhyimg == <<Change>>
CMD_cloneSnap2Lun == <<fullRestPkg>>
CMD_dellun == <<fullRestPkg>>

----------------------------------------------------------------------------
(* Hosts and mappings. *)
CMD_showInitiatorInfo == <<Lookup>>
QueryHostInfoByHostName == <<[Lookup EXCEPT !.empty = "ok"]>>
QueryHostsByHostGroupName == <<Lookup>>
QueryHostMapByVolName == <<[Lookup EXCEPT !.row = {"error"}]>>
QueryHostGroupMapByVolName == <<[Lookup EXCEPT !.row = {"error"}]>>
CMD_showmap_bylun ==
  CMD_showlun \o Ignored(QueryHostMapByVolName)
    \o Ignored(QueryHostGroupMapByVolName)
CMD_showmap_withlun == CMD_showmap_bylun
CMD_showmapByName ==
  Ignored(QueryHostMapByVolName) \o Ignored(QueryHostGroupMapByVolName)
CMD_showmap == <<>>
CMD_showhost == QueryHostInfoByHostName
CMD_createHost == <<fullRestPkg, Lookup>>
CMD_addInitiatorToHost == Optional(<<fullRestPkg>>)
operateHostMapping == <<fullRestPkg>>
operateHostGroupMapping == <<fullRestPkg>>
CMD_showHostbyHostGroup == <<Show>>
CMD_showhostport == <<>>

----------------------------------------------------------------------------
(* HyperMetro pairs; groups are not supported. *)
CMD_disablehcpair == <<Change>>
CMD_swaphypermetro == <<Change>>
CMD_synchmpair == <<Change>>
CMD_showhypermetroinfo == <<[Show EXCEPT !.lost = "ok"]>>
CMD_showHyperMetroPair_all == <<Pages>>
findRemoteArraySn == CMD_showarrayinfo
CMD_showhyperMetroDomain_all == <<Hopeful>> \o Optional(findRemoteArraySn)
CMD_showhypermetrolun_all ==
  <<Hopeful>> \o CMD_showsys \o Optional(Ignored(CMD_showhyperMetroDomain_all))

CMD_showconsistgrhminfo == <<>>
CMD_stopconsistgrhm == <<>>
CMD_showconsistgrinfo == <<>>
CMD_showconsistgrinfo_all == <<>>
CMD_splitconsistgr == <<>>
CMD_swapconsistgrhm == <<>>
CMD_syncconsistgrhm == <<>>
CMD_showconsistgrmember == <<>>

----------------------------------------------------------------------------
(* The calls of the adapter. *)
Supported ==
  {CMD_showarrayinfo, CMD_showsys, CMD_showarraymodelinfo,
   CMD_showtlvsysinfo, CMD_showarraystretched, CMD_splithymirror,
   CMD_changeSlaveLunRw, CMD_synchymirror, CMD_swaphymirror,
   CMD_unmountSlave, CMD_showhymirrorinfo, CMD_showhymirrorinfo_all,
   CMD_showlun, CMD_showlunByname, CMD_showhymirrorlun_all,
   CMD_showhyimginfo, CMD_showhyimgoflun, CMD_createhyimg, CMD_delhyimg,
   CMD_cloneSnap2Lun, CMD_dellun, CMD_showInitiatorInfo,
   CMD_showmap_bylun, CMD_showmap_withlun, CMD_showmapByName, CMD_showmap,
   CMD_showhost, CMD_createHost, CMD_addInitiatorToHost,
   CMD_showHostbyHostGroup, CMD_showhostport, CMD_disablehcpair,
   CMD_swaphypermetro, CMD_synchmpair, CMD_showhypermetroinfo,
   CMD_showHyperMetroPair_all, CMD_showhyperMetroDomain_all,
   CMD_showhypermetrolun_all, CMD_showconsistgrhminfo,
   CMD_stopconsistgrhm, CMD_showconsistgrinfo, CMD_showconsistgrinfo_all,
   CMD_splitconsistgr, CMD_swapconsistgrhm, CMD_syncconsistgrhm,
   CMD_showconsistgrmember, operateHostMapping, operateHostGroupMapping}
=============================================================================
