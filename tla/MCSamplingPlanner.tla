---------------------------- MODULE MCSamplingPlanner ----------------------------
(***************************************************************************)
(* Instantiates SamplingPlanner with the literal threshold of the code     *)
(* (50000) and a set of baseline counts: small counts, every count from    *)
(* 49990 to 50010 around the threshold, and counts growing by 6% up to     *)
(* about 1.9 million.  MCLnMilli tabulates round(1000 * ln n) on them.     *)
(* For these counts the rounding moves the log-growth term by at most 50   *)
(* rows, less than its distance to N, so every comparison the code makes   *)
(* in floating point comes out the same here.                              *)
(***************************************************************************)
EXTENDS SamplingPlanner, TLC

MCSampleStartCount == 50000

MCLnTable ==
    1 :> 0 @@ 2 :> 693 @@ 3 :> 1099 @@ 4 :> 1386 @@ 5 :> 1609 @@
    6 :> 1792 @@ 7 :> 1946 @@ 8 :> 2079 @@ 9 :> 2197 @@ 10 :> 2303 @@
    11 :> 2398 @@ 12 :> 2485 @@ 13 :> 2565 @@ 14 :> 2639 @@ 15 :> 2708 @@
    16 :> 2773 @@ 17 :> 2833 @@ 18 :> 2890 @@ 19 :> 2944 @@ 20 :> 2996 @@
    49990 :> 10820 @@ 49991 :> 10820 @@ 49992 :> 10820 @@ 49993 :> 10820 @@
    49994 :> 10820 @@ 49995 :> 10820 @@ 49996 :> 10820 @@ 49997 :> 10820 @@
    49998 :> 10820 @@ 49999 :> 10820 @@ 50000 :> 10820 @@ 50001 :> 10820 @@
    50002 :> 10820 @@ 50003 :> 10820 @@ 50004 :> 10820 @@ 50005 :> 10820 @@
    50006 :> 10820 @@ 50007 :> 10820 @@ 50008 :> 10820 @@ 50009 :> 10820 @@
    50010 :> 10820 @@ 55000 :> 10915 @@ 58300 :> 10973 @@ 61798 :> 11032 @@
    65505 :> 11090 @@ 69436 :> 11148 @@ 73602 :> 11206 @@ 78018 :> 11265 @@
    82699 :> 11323 @@ 87661 :> 11381 @@ 92921 :> 11440 @@ 98496 :> 11498 @@
    104406 :> 11556 @@ 110670 :> 11614 @@ 117311 :> 11673 @@
    124349 :> 11731 @@ 131810 :> 11789 @@ 139719 :> 11847 @@
    148102 :> 11906 @@ 156988 :> 11964 @@ 166407 :> 12022 @@
    176392 :> 12080 @@ 186975 :> 12139 @@ 198194 :> 12197 @@
    210086 :> 12255 @@ 222691 :> 12314 @@ 236052 :> 12372 @@
    250216 :> 12430 @@ 265229 :> 12488 @@ 281142 :> 12547 @@
    298011 :> 12605 @@ 315892 :> 12663 @@ 334845 :> 12721 @@
    354936 :> 12780 @@ 376232 :> 12838 @@ 398806 :> 12896 @@
    422734 :> 12954 @@ 448098 :> 13013 @@ 474984 :> 13071 @@
    503483 :> 13129 @@ 533692 :> 13188 @@ 565714 :> 13246 @@
    599657 :> 13304 @@ 635636 :> 13362 @@ 673775 :> 13421 @@
    714201 :> 13479 @@ 757053 :> 13537 @@ 802476 :> 13595 @@
    850625 :> 13654 @@ 901662 :> 13712 @@ 955762 :> 13770 @@
    1013108 :> 13829 @@ 1073894 :> 13887 @@ 1138328 :> 13945 @@
    1206628 :> 14003 @@ 1279026 :> 14062 @@ 1355767 :> 14120 @@
    1437113 :> 14178 @@ 1523340 :> 14236 @@ 1614741 :> 14295 @@
    1711625 :> 14353 @@ 1814322 :> 14411 @@ 1923182 :> 14469

MCLnMilli(x) == MCLnTable[x]

MCCounts == DOMAIN MCLnTable

=============================================================================
