----------------------------- MODULE TempTables -----------------------------
(***************************************************************************)
(* What the analog input reads for each temperature of each sensor, the    *)
(* temperatures a fixed step apart (temp_meas.h).                          *)
(***************************************************************************)

JCURVE == <<
  57, 76, 100, 132, 171, 220, 280, 353, 440, 544, 665, 805, 963, 1141, 1338,
  1551, 1779, 2019, 2268, 2523, 2779, 3032, 3279, 3519, 3748, 3964, 4167>>

FS800 == <<
  4017, 3993, 3963, 3926, 3882, 3829, 3767, 3695, 3612, 3518, 3413, 3298,
  3173, 3040, 2899, 2753, 2603, 2451, 2299, 2148, 2001, 1859, 1722, 1592,
  1468, 1353, 1245>>

MBB600 == <<
  3971, 3632, 3292, 2959, 2641, 2343, 2069, 1819, 1596, 1397, 1222, 1069,
  935, 819, 718, 631, 555, 489, 433, 383, 340, 303>>

LEAF == <<
  49, 68, 91, 119, 153, 193, 239, 290, 348, 411, 479, 551, 628, 707, 788,
  871, 955, 1039>>

LEAFHS == <<
  1061, 1175, 1388, 1550, 1707, 1876, 1993, 2156, 2320, 2483, 2647, 2810,
  3024, 3187, 3351, 3514, 3678, 3841>>

SEMIKRON == <<
  3767, 3685, 3605, 3528, 3456, 3385, 3317, 3254, 3191, 3130, 3074, 3018,
  2963, 2913, 2862, 2813, 2767, 2722, 2678, 2636, 2595>>

KTY83 == <<
  2035, 1968, 1901, 1835, 1769, 1705, 1643, 1582, 1522, 1465, 1409, 1356,
  1304, 1255, 1208, 1162, 1119, 1077, 1037, 999, 962, 927, 894>>

KTY84 == <<
  2283, 2231, 2179, 2125, 2071, 2018, 1963, 1936, 1908, 1856, 1802, 1750,
  1699, 1649, 1600, 1552, 1505, 1459, 1414, 1372, 1329, 1289, 1250, 1212,
  1175, 1140, 1105, 1073, 1041, 1010, 980, 952, 924, 899, 876, 856>>

TESLA_100K == <<
  3713, 3346, 3036, 2774, 2467, 2264, 2039, 1787, 1576, 1345, 1089, 903,
  784, 663, 544, 453, 372, 319, 256, 213, 180, 155, 134, 117, 96, 85, 73,
  64, 55, 48, 41, 37, 33, 29, 26, 23, 21, 18, 16, 14, 13, 11, 10, 9, 8>>

TESLA_52K == <<
  3416, 2789, 1882, 1109, 902, 670, 504, 468, 432, 395, 358>>

TESLA_LDU_FLUID == <<
  3855, 3435, 3105, 2723, 2414, 2178, 1836, 1609, 1408, 1180, 994, 868, 749,
  638, 574, 498, 431, 373, 314, 277>>

TESLA_10K == <<
  2610, 2161, 1766, 1431, 1152, 925, 742, 523, 480, 388, 315, 257, 210, 173,
  143, 119, 99, 83, 70, 60, 51, 43, 37, 32, 28, 24, 21, 18, 16, 14, 13, 11,
  10, 9, 8, 7, 6, 6, 5, 5, 4, 4, 3, 3, 3>>

KTY81_HS == <<
  1863, 1991, 2123, 2253, 2381, 2510, 2635, 2760, 2881, 2998, 3114, 3226,
  3332, 3437, 3537, 3634, 3727, 3815, 3895, 3965, 4022>>

PT1000 == <<
  2488, 2560, 2629, 2696, 2760, 2821, 2880, 2937, 2991, 3044, 3095, 3144,
  3192, 3238, 3282, 3325, 3367, 3407, 3446, 3484, 3521>>

NTCK45 == <<
  3855, 3846, 3833, 3817, 3796, 3769, 3735, 3692, 3639, 3575, 3498, 3406,
  3300, 3179, 3043, 2893, 2731, 2560, 2382, 2201, 2021, 1843, 1672, 1509,
  1356, 1214, 1084, 966, 859, 763, 677, 601, 534, 474, 422, 375, 336, 301,
  270, 243, 219>>

KTY81_M == <<
  2062, 1994, 1925, 1857, 1791, 1725, 1661, 1598, 1536, 1478, 1420, 1365,
  1312, 1261, 1212, 1165, 1120, 1078, 1040, 1007, 980>>

TOYOTA_M == <<
  4009, 4007, 4004, 4000, 3996, 3990, 3983, 3974, 3963, 3950, 3935, 3917,
  3895, 3870, 3841, 3808, 3770, 3726, 3678, 3624, 3564, 3499, 3427, 3350,
  3267, 3180, 3087, 2990, 2890, 2786, 2680, 2572, 2464, 2355, 2247, 2140,
  2034, 1931, 1831, 1733, 1640, 1549, 1463, 1380, 1302>>

TOYOTA_MGEN2 == <<
  9, 12, 16, 20, 26, 33, 42, 53, 66, 81, 100, 121, 146, 175, 208, 245, 287,
  334, 386, 443, 505, 571, 642, 718, 797, 879, 964, 1051, 1139, 1228, 1317,
  1405, 1492, 1578, 1661, 1742, 1820, 1895, 1966, 2034, 2099, 2161, 2219,
  2273, 3103>>

OUTLANDERFRONT == <<
  4, 7, 13, 22, 37, 61, 96, 147, 217, 312, 436, 589, 770, 974, 1193, 1421,
  1644, 1853, 2041, 2209, 2353, 2476, 2579, 2665, 2736, 2796, 2844, 2884,
  2916, 2944, 2967, 2987, 3002, 3016, 3027>>

EPCOSB57861 == <<
  8, 14, 25, 42, 68, 107, 163, 240, 340, 470, 624, 808, 1009, 1223, 1437,
  1642, 1839, 2020, 2183, 2327, 2454>>

=============================================================================
