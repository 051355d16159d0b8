CONSTANT Launches = {"unit", "plane", "eager_plane", "tree3", "tree5", "cube_planes", "spare_cubes", "topk_unit", "topk_planes", "topk_cube", "instructions",
  "shared_sum", "cfft4", "cfft8", "four_step8", "rfft4", "rfft8", "long_rfft8", "irfft4", "irfft8",
  "plane_matmul", "unit_matmul", "matmul_async", "matmul_buffered", "matmul_grids", "gemm", "gemm_grids", "gemv", "naive", "flash_units", "flash_planes", "flash_rows",
  "avg_pool", "max_pool", "pool_plane", "adaptive_pool", "conv_forward", "conv_data", "conv_weight", "conv_direct", "conv_depthwise",
  "stream_teams", "stream_splits", "merge_cells", "merge_rows",
  "fold", "fold_splits", "softmax", "softmax_planes", "smem", "gradients", "random", "quant"}
CONSTANT Kernels <- Launched
SPECIFICATION FairSpec
INVARIANTS NoDataRace ReadsWhatIsThere AnswerIsWhole
PROPERTY EveryUnitFinishes
